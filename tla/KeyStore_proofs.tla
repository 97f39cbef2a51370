--------------------------- MODULE KeyStore_proofs ---------------------------
(***************************************************************************)
(* Proofs about KeyStore, for every number of vaults, damaged wraps,       *)
(* auto-lock settings and lists on their way: types, that nothing brings   *)
(* keys back to a locked tab but a derivation or a completion under way,   *)
(* and that the page shows the keys the tab stores if no other device's    *)
(* change arrives between the end of the idle window and the timer's check *)
(* (the run that admits such a change, MCKeyStore_idle, shows why not).    *)
(***************************************************************************)
EXTENDS KeyStore, TLAPS

\* Locked is told apart from every key set by its one element, no vault.
LEMMA LockedIsNoKeySet == Locked \in Keys /\ Locked \notin SUBSET Vaults
BY NoneAssumption DEF Locked, Keys

\* A completion captures vaults only, and a locked page starts none.
LEMMA CompletionsAreTyped ==
  ASSUME NEW k \in Keys, NEW vs \in SUBSET Vaults
  PROVE  Complete(k, vs) \in SUBSET Completion
BY DEF Complete, Keys, Completion

\* What the functions of keystore.ts leave behind is a key set or none.
LEMMA StoreIsTyped ==
  ASSUME TypeOK
  PROVE  /\ Loaded \in Keys
         /\ LoadKeys => store' \in Keys /\ idle' \in Nat
         /\ Lock => store' \in Keys /\ idle' \in Nat
         /\ \A k \in SUBSET Vaults : SaveKeys(k) => store' \in Keys /\ idle' \in Nat
         /\ \A v \in Vaults : AddVaultKey(v) => store' \in Keys /\ idle' \in Nat
         /\ \A v \in Vaults : RemoveVaultKey(v) => store' \in Keys /\ idle' \in Nat
<1>1. store \in Keys /\ idle \in Nat /\ 0 \in Nat
  BY DEF TypeOK
<1>2. Lock => store' \in Keys /\ idle' \in Nat
  BY <1>1, LockedIsNoKeySet DEF Lock
<1>3. ASSUME NEW k \in SUBSET Vaults, SaveKeys(k) PROVE store' \in Keys /\ idle' \in Nat
  BY <1>1, <1>3 DEF SaveKeys, Keys
<1>4. Loaded # Locked => store \in SUBSET Vaults
  BY <1>1 DEF Loaded, Keys
<1> QED
  BY <1>1, <1>2, <1>3, <1>4, LockedIsNoKeySet DEF Loaded, LoadKeys, AddVaultKey, RemoveVaultKey

\* A step of a typed tab leads to a typed tab.
LEMMA NextType ==
  ASSUME TypeOK, [Next]_vars
  PROVE  TypeOK'
<1> USE DEF TypeOK, device, shown, served, pending
<1>1. ASSUME Tick \/ Input \/ WatchFires PROVE TypeOK'
  BY <1>1, StoreIsTyped, LockedIsNoKeySet DEF Tick, Input, TouchActivity, WatchFires
<1>2. ASSUME NEW w \in Windows, SetAutoLock(w) PROVE TypeOK'
  BY <1>2 DEF SetAutoLock
<1>3. ASSUME NEW p \in Page, Open(p) PROVE TypeOK'
  <2>1. store' \in Keys /\ idle' \in Nat
    BY <1>3, StoreIsTyped DEF Open
  <2>2. keys' \in Keys /\ keyset' \in SUBSET Vaults /\ vaults' \in SUBSET Vaults
    BY <1>3, StoreIsTyped, LockedIsNoKeySet DEF Open
  <2>3. active' \in Vaults \cup {NoVault}
    BY <1>3 DEF Open
  <2>4. opening' \in SUBSET Completion
    BY <1>3, StoreIsTyped, CompletionsAreTyped DEF Open
  <2> QED
    BY <1>3, <2>1, <2>2, <2>3, <2>4 DEF Open
<1>4. ASSUME NEW p \in Page, Navigate(p) PROVE TypeOK'
  BY <1>3, <1>4 DEF Navigate
<1>5. ASSUME Leave PROVE TypeOK'
  BY <1>3, <1>5 DEF Leave
<1>6. ASSUME LockNow \/ SignOut \/ DeleteAccount PROVE TypeOK'
  BY <1>6, StoreIsTyped DEF LockNow, SignOut, Wipe, DeleteAccount, ForgetIdentity, Page
<1>7. ASSUME SubmitSecrets \/ SecretsFail \/ ForgetPhrase PROVE TypeOK'
  BY <1>7 DEF SubmitSecrets, SecretsFail, ForgetPhrase, ForgetIdentity
<1>8. ASSUME SignIn PROVE TypeOK'
  BY <1>8, StoreIsTyped DEF SignIn, RememberIdentity, Page
<1>9. ASSUME Unlock PROVE TypeOK'
  <2>1. keyset \ Damaged \in SUBSET Vaults /\ keyset \ Damaged \in Keys
    BY DEF Keys
  <2>2. Complete(keyset \ Damaged, vaults) \in SUBSET Completion
    BY <2>1, CompletionsAreTyped
  <2> QED
    BY <1>9, <2>1, <2>2, StoreIsTyped DEF Unlock
<1>10. ASSUME ChangePassword PROVE TypeOK'
  BY <1>10, StoreIsTyped DEF ChangePassword, Page
<1>11. ASSUME NEW c \in opening, FinishOpening(c) PROVE TypeOK'
  <2> DEFINE next == c.had \cup (c.missing \ Damaged)
  <2>1. next \in SUBSET Vaults /\ next \in Keys
    BY DEF Completion, Keys
  <2>2. Complete(next, vaults) \in SUBSET Completion
    BY <2>1, CompletionsAreTyped
  <2>3. store' \in Keys /\ idle' \in Nat /\ keys' \in Keys
    BY <1>11, <2>1, StoreIsTyped, LockedIsNoKeySet DEF FinishOpening
  <2>4. opening' \in SUBSET Completion
    BY <1>11, <2>2 DEF FinishOpening
  <2> QED
    BY <1>11, <2>3, <2>4 DEF FinishOpening
<1>12. ASSUME Elsewhere PROVE TypeOK'
  BY <1>12, NoneAssumption DEF Elsewhere
<1>13. ASSUME NewsArrives PROVE TypeOK'
  BY <1>13, StoreIsTyped DEF NewsArrives
<1>14. ASSUME NEW list \in fetched, ShowVaults(list) PROVE TypeOK'
  <2>1. list \in SUBSET Vaults /\ Complete(keys, list) \in SUBSET Completion
    BY CompletionsAreTyped
  <2>2. store' \in Keys /\ idle' \in Nat
    BY <1>14, StoreIsTyped DEF ShowVaults
  <2> QED
    BY <1>14, <2>1, <2>2 DEF ShowVaults
<1>15. ASSUME NEW v \in Vaults, SelectVault(v) \/ CreateVault(v) PROVE TypeOK'
  BY <1>15 DEF SelectVault, CreateVault, TouchActivity
<1>16. ASSUME VaultCreated PROVE TypeOK'
  <2>1. creating \in Vaults /\ vaults' \in SUBSET Vaults
    BY <1>16 DEF VaultCreated
  <2>2. store' \in Keys /\ idle' \in Nat /\ keys' \in Keys
    BY <1>16, <2>1, StoreIsTyped DEF VaultCreated
  <2>3. Complete(keys', vaults') \in SUBSET Completion
    BY <2>1, <2>2, CompletionsAreTyped
  <2> QED
    BY <1>16, <2>1, <2>2, <2>3 DEF VaultCreated
<1>17. ASSUME CreateFails PROVE TypeOK'
  BY <1>17 DEF CreateFails
<1>18. ASSUME DropVault PROVE TypeOK'
  <2>1. active \in Vaults /\ active # Home /\ Drop(active)
    BY <1>18 DEF DropVault, Drop
  <2>2. store' \in Keys /\ idle' \in Nat /\ keys' \in Keys /\ vaults' \in SUBSET Vaults
    BY <2>1, StoreIsTyped DEF Drop
  <2>3. Complete(keys', vaults') \in SUBSET Completion
    BY <2>2, CompletionsAreTyped
  <2>4. active' \in Vaults \cup {NoVault}
    BY <2>1, <2>2 DEF Drop
  <2> QED
    BY <2>1, <2>2, <2>3, <2>4 DEF Drop
<1>19. ASSUME NEW v \in Vaults, AcceptInvite(v) PROVE TypeOK'
  BY <1>19, StoreIsTyped DEF AcceptInvite, Page
<1>20. CASE UNCHANGED vars
  BY <1>20 DEF vars
<1> QED
  BY <1>1, <1>2, <1>4, <1>5, <1>6, <1>7, <1>8, <1>9, <1>10, <1>11, <1>12, <1>13,
     <1>14, <1>15, <1>16, <1>17, <1>18, <1>19, <1>20 DEF Next, Acted, Proceeds

\* The device's and the tab's state stay typed; the account's own vault stays.
THEOREM TypeCorrect == Spec => []TypeOK
<1>1. ASSUME Init PROVE TypeOK
  <2>1. server \in SUBSET Vaults /\ Home \in server /\ active \in Vaults \cup {NoVault}
    BY <1>1, NoneAssumption DEF Init
  <2>2. store \in Keys /\ keys \in Keys /\ idle \in Nat
    BY <1>1, LockedIsNoKeySet DEF Init
  <2>3. opening \in SUBSET Completion /\ fetched \in SUBSET SUBSET Vaults
    BY <1>1 DEF Init
  <2> QED
    BY <1>1, <2>1, <2>2, <2>3 DEF Init, TypeOK, Page
<1> QED
  BY <1>1, NextType, PTL DEF Spec

------------------------------------------------------------------------
(* Keys come back only to somebody who types them.                         *)

\* Of the steps that write keys, those that ask for none in the store start
\* from a derivation or finish a completion.
LEMMA KeysComeFromSomewhere ==
  ASSUME [Next]_vars, store = Locked, store' # Locked
  PROVE  deriving \/ opening # {}
<1>1. Loaded = Locked
  BY DEF Loaded
<1>2. ~Lock /\ ~LoadKeys /\ \A v \in Vaults : ~AddVaultKey(v)
  BY <1>1 DEF Lock, LoadKeys, AddVaultKey
<1>3. \A v : ~RemoveVaultKey(v)
  BY <1>1 DEF Lock, RemoveVaultKey
<1>4. store' # store
  OBVIOUS
<1>5. CASE \/ Tick \/ Input \/ WatchFires \/ LockNow \/ SignOut \/ DeleteAccount \/ SubmitSecrets
           \/ SecretsFail \/ ForgetPhrase \/ Elsewhere \/ NewsArrives \/ CreateFails
           \/ DropVault \/ UNCHANGED vars
  BY <1>2, <1>3, <1>4, <1>5 DEF Tick, Input, TouchActivity, WatchFires, LockNow, SignOut,
     Wipe, DeleteAccount, SubmitSecrets, SecretsFail, ForgetPhrase, Elsewhere, NewsArrives,
     CreateFails, DropVault, Drop, vars
<1>6. CASE (\E w \in Windows : SetAutoLock(w)) \/ \E list \in fetched : ShowVaults(list)
  BY <1>2, <1>4, <1>6 DEF SetAutoLock, ShowVaults
<1>7. CASE (\E p \in Page : Navigate(p)) \/ Leave
  BY <1>2, <1>4, <1>7 DEF Navigate, Leave, Open
<1>8. CASE \E v \in Vaults : SelectVault(v) \/ CreateVault(v) \/ AcceptInvite(v)
  BY <1>2, <1>4, <1>8 DEF SelectVault, CreateVault, AcceptInvite, TouchActivity
<1>9. CASE VaultCreated
  BY <1>1, <1>9 DEF VaultCreated, AddVaultKey, Lock
<1>10. CASE SignIn \/ Unlock \/ ChangePassword
  BY <1>10 DEF SignIn, Unlock, ChangePassword
<1>11. CASE \E c \in opening : FinishOpening(c)
  BY <1>11
<1> QED
  BY <1>5, <1>6, <1>7, <1>8, <1>9, <1>10, <1>11 DEF Next, Acted, Proceeds

\* A locked tab stays locked: a vault created, accepted or dropped after the
\* lock, or a list that arrives, never stores a key again.
THEOREM LocksHold == Spec => LockHolds
<1>1. [Next]_vars => [store = Locked /\ store' # Locked => deriving \/ opening # {}]_vars
  BY KeysComeFromSomewhere
<1> QED
  BY <1>1, PTL DEF Spec, LockHolds

------------------------------------------------------------------------
(* The page and the store.                                                 *)

LEMMA NextScreen ==
  ASSUME LateNews = FALSE, ScreenMatchesStore, [Next]_vars
  PROVE  ScreenMatchesStore'
<1> USE DEF ScreenMatchesStore, device, shown, served, pending
<1>1. OnTime => (LoadKeys => UNCHANGED store)
  BY DEF OnTime, LoadKeys
<1>2. CASE UNCHANGED <<page, leaving, keys, store>>
  BY <1>2
<1>3. CASE keys' = store'
  BY <1>3
<1>4. CASE leaving' # "no"
  BY <1>4
<1>5. ASSUME \/ Tick \/ Input \/ SubmitSecrets \/ SecretsFail \/ ForgetPhrase
             \/ Elsewhere \/ CreateFails \/ UNCHANGED vars
             \/ \E w \in Windows : SetAutoLock(w)
             \/ \E v \in Vaults : SelectVault(v) \/ CreateVault(v)
      PROVE  UNCHANGED <<page, leaving, keys, store>>
  BY <1>5 DEF Tick, Input, TouchActivity, SubmitSecrets, SecretsFail, ForgetPhrase,
     Elsewhere, CreateFails, vars, SetAutoLock, SelectVault, CreateVault
<1>6. ASSUME NewsArrives \/ \E list \in fetched : ShowVaults(list)
      PROVE  UNCHANGED <<page, leaving, keys, store>>
  BY <1>1, <1>6 DEF NewsArrives, ShowVaults
<1>7. ASSUME WatchFires \/ Unlock \/ VaultCreated \/ DropVault \/ \E c \in opening : FinishOpening(c)
      PROVE  keys' = store'
  <2>1. ASSUME NEW c \in opening, FinishOpening(c) PROVE keys' = store'
    BY <2>1 DEF FinishOpening, Lock, SaveKeys
  <2>2. CASE VaultCreated \/ DropVault
    BY <2>2 DEF VaultCreated, DropVault, Drop
  <2>3. CASE WatchFires \/ Unlock
    BY <2>3 DEF WatchFires, Unlock, Lock, SaveKeys
  <2> QED
    BY <1>7, <2>1, <2>2, <2>3
<1>8. ASSUME NEW p \in Page, Open(p) PROVE ScreenMatchesStore'
  <2>1. p = "vault" => keys' = store'
    BY <1>8 DEF Open, LoadKeys, Loaded, Lock
  <2> QED
    BY <1>8, <2>1 DEF Open
<1>9. ASSUME (\E p \in Page : Navigate(p)) \/ (Leave /\ leaving \in Page) PROVE ScreenMatchesStore'
  BY <1>8, <1>9 DEF Navigate, Leave
<1>10. ASSUME \/ LockNow \/ SignOut \/ DeleteAccount \/ SignIn \/ ChangePassword
              \/ \E v \in Vaults : AcceptInvite(v)
       PROVE  leaving' # "no"
  BY <1>10 DEF LockNow, SignOut, Wipe, DeleteAccount, SignIn, ChangePassword, AcceptInvite
<1>11. ASSUME Leave, leaving \notin Page PROVE ScreenMatchesStore'
  <2>1. leaving # "vault" /\ page' = leaving
    BY <1>11 DEF Leave, Open, Page
  <2> QED
    BY <2>1
<1> QED
  BY <1>2, <1>3, <1>4, <1>5, <1>6, <1>7, <1>9, <1>10, <1>11 DEF Next, Acted, Proceeds

\* The vault page never shows a key the store has lost, nor hides one it has,
\* unless news arrives too late: for any number of vaults, and whatever wraps
\* do not open.
THEOREM ScreensMatchStores ==
  ASSUME LateNews = FALSE
  PROVE  Spec => []ScreenMatchesStore
<1>1. Init => ScreenMatchesStore
  BY DEF Init, ScreenMatchesStore
<1>2. ScreenMatchesStore /\ [Next]_vars => ScreenMatchesStore'
  BY NextScreen
<1> QED
  BY <1>1, <1>2, PTL DEF Spec
=============================================================================
