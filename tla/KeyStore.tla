----------------------------- MODULE KeyStore -----------------------------
(***************************************************************************)
(* The keys of one tab: keystore.ts, and the pages that fill, complete and *)
(* wipe what it keeps (vault.tsx, lock-screen.tsx, settings.tsx,           *)
(* invite.tsx, the sign-in pages and the Lock button of base.gohtml).      *)
(*                                                                         *)
(* sessionStorage holds the unlocked keys and survives page loads; the     *)
(* vault page holds a second copy in React state, which decides what is on *)
(* screen.  A key set is the set of vaults it opens.  Effects that follow  *)
(* a state change belong to the action that made it; what they start is    *)
(* asynchronous and finishes in an action of its own, with the values its  *)
(* closure captured.  Which credentials a key is from is AccountKeys.      *)
(***************************************************************************)
EXTENDS FiniteSets, Integers

CONSTANTS
  Vaults,               \* vaults the account may come to reach
  Home,                 \* the one it always has: the last vault stays
  Damaged,              \* vaults whose wrap does not open
  Windows,              \* auto-lock settings, in ticks of the clock
  NoVault,
  MaxFetched,           \* bound: vault lists on their way to the tab
  LateNews              \* may other devices' changes reach a tab between the
                        \* end of its idle window and the check of the timer?

ASSUME NoneAssumption ==
  /\ NoVault \notin Vaults
  /\ Home \in Vaults /\ Damaged \subseteq Vaults

ASSUME WindowAssumption ==
  /\ Windows \subseteq Nat /\ Windows # {}
  /\ MaxFetched \in Nat /\ LateNews \in BOOLEAN

VARIABLES
  server,     \* the vaults the account can reach
  remembered, \* does this device remember the Secret Phrase? (localStorage)
  window,     \* the auto-lock setting (localStorage)
  store,      \* the unlocked keys in sessionStorage
  idle,       \* ticks since the last activity noted in sessionStorage
  page,       \* the page the tab is on
  leaving,    \* the page it is about to load
  keyset,     \* the vaults the page was served with
  keys,       \* React: the unlocked keys
  vaults,     \* React: the vaults listed
  active,     \* React and sessionStorage: the vault selected
  opening,    \* completions of the key set under way
  deriving,   \* is Argon2 running on what the user typed?
  creating,   \* the vault whose creation the page waits for
  fetched     \* vault lists answered and not yet shown

vars == <<server, remembered, window, store, idle, page, leaving, keyset, keys,
          vaults, active, opening, deriving, creating, fetched>>

Locked == {NoVault}                  \* no keys: distinct from every key set
Keys == (SUBSET Vaults) \cup {Locked}
Page == {"vault", "settings", "invite", "login"}
Completion == [had: SUBSET Vaults, missing: SUBSET Vaults]

device == <<remembered, window>>
shown == <<keys, vaults, active>>
served == <<page, leaving, keyset>>
pending == <<deriving, creating, fetched>>

------------------------------------------------------------------------
(* keystore.ts.                                                            *)

Expired == store # Locked /\ idle > window

SaveKeys(k) == store' = k /\ idle' = 0
Lock == store' = Locked /\ idle' = 0

\* What loadKeys returns; it locks a store whose idle window has lapsed.
Loaded == IF Expired THEN Locked ELSE store
LoadKeys == IF Expired THEN Lock ELSE UNCHANGED <<store, idle>>

\* (variant) The key is added without asking whether the store is locked.
AddVaultKeyAnyway(v) ==
  SaveKeys((IF Loaded = Locked THEN {} ELSE store) \cup {v})

AddVaultKey(v) ==
  IF Loaded = Locked THEN Lock ELSE SaveKeys(store \cup {v})

RemoveVaultKey(v) ==
  IF Loaded = Locked THEN Lock ELSE SaveKeys(store \ {v})

\* The sign-in identity kept on the device, for the secrets asked later.
RememberIdentity == remembered' = TRUE
ForgetIdentity == remembered' = FALSE

\* bump, on the events of the page that listens to them.
TouchActivity ==
  /\ idle' = IF page = "vault" THEN 0 ELSE idle
  /\ UNCHANGED store

Init ==
  /\ server = {Home} /\ remembered = FALSE /\ window \in Windows
  /\ store = Locked /\ idle = 0
  /\ page = "login" /\ leaving = "no" /\ keyset = {}
  /\ keys = Locked /\ vaults = {} /\ active = NoVault
  /\ opening = {} /\ deriving = FALSE /\ creating = NoVault /\ fetched = {}

\* Time passes.  Past the longest window every tick is the same.
Tick ==
  /\ store # Locked /\ \E w \in Windows : idle <= w
  /\ idle' = idle + 1
  /\ UNCHANGED <<server, device, store, served, shown, opening, pending>>

\* The user moves, types or scrolls.
Input ==
  /\ store # Locked /\ page = "vault"
  /\ TouchActivity
  /\ UNCHANGED <<server, device, served, shown, opening, pending>>

\* (variant) The timer locks the store and forgets the page.
WatchFiresQuietly ==
  /\ page = "vault" /\ Expired
  /\ Lock
  /\ UNCHANGED <<server, device, served, shown, opening, pending>>

\* The timer of startAutoLockWatch, which only the vault page starts.
WatchFires ==
  /\ page = "vault" /\ Expired
  /\ Lock
  /\ keys' = Locked
  /\ UNCHANGED <<server, device, served, vaults, active, opening, pending>>

\* The setting belongs to the device: any tab of the browser may change it.
SetAutoLock(w) ==
  /\ window' = w
  /\ UNCHANGED <<server, remembered, store, idle, served, shown, opening, pending>>

------------------------------------------------------------------------
(* Pages.                                                                  *)

\* The effect that completes the key set, with the closure it captures.
Complete(k, vs) ==
  IF k = Locked \/ vs \subseteq k THEN {}
  ELSE {[had |-> k, missing |-> vs \ k]}

\* A page load: React state starts over, and the pages that show sealed data
\* read the store.
Open(p) ==
  LET reads == p \in {"vault", "invite"}
  IN /\ page' = p /\ leaving' = "no"
     /\ IF reads THEN LoadKeys ELSE UNCHANGED <<store, idle>>
     /\ keys' = IF reads THEN Loaded ELSE Locked
     /\ keyset' = server
     /\ vaults' = IF p = "vault" THEN server ELSE {}
     /\ IF p # "vault" \/ active \in server THEN active' = active
        ELSE active' \in server
     /\ opening' = IF p = "vault" THEN Complete(Loaded, server) ELSE {}
     /\ deriving' = FALSE /\ creating' = NoVault /\ fetched' = {}
     /\ UNCHANGED <<server, device>>

Navigate(p) == leaving = "no" /\ Open(p)
Leave == leaving # "no" /\ Open(leaving)

\* Wipes the store and lets the page run on until the next one is there.
Wipe(p) ==
  /\ leaving = "no"
  /\ Lock
  /\ leaving' = p
  /\ UNCHANGED <<server, device, page, keyset, shown, opening, pending>>

LockNow == page # "login" /\ Wipe("vault")
SignOut == page # "login" /\ Wipe("login")

\* A deleted account's phrase is forgotten with its keys.
DeleteAccount ==
  /\ page = "settings" /\ remembered /\ leaving = "no"
  /\ Lock
  /\ ForgetIdentity
  /\ leaving' = "login"
  /\ UNCHANGED <<server, window, page, keyset, shown, opening, pending>>

------------------------------------------------------------------------
(* Secrets typed: signing in, unlocking, changing the Master Password.     *)

LockScreenShown ==
  \/ page \in {"vault", "invite"} /\ keys = Locked
  \/ page = "vault" /\ active \notin keys

SubmitSecrets ==
  /\ ~deriving /\ leaving = "no"
  /\ page = "login" \/ LockScreenShown \/ (page = "settings" /\ remembered)
  /\ deriving' = TRUE
  /\ UNCHANGED <<server, device, store, idle, served, shown, opening, creating, fetched>>

SecretsFail ==
  /\ deriving /\ deriving' = FALSE
  /\ UNCHANGED <<server, device, store, idle, served, shown, opening, creating, fetched>>

\* login.tsx, and join.tsx once the account is created: the store gets the
\* encryption key and no vault key yet.
SignIn ==
  /\ page = "login" /\ deriving /\ leaving = "no"
  /\ SaveKeys({})
  /\ RememberIdentity
  /\ deriving' = FALSE /\ leaving' = "vault"
  /\ UNCHANGED <<server, window, page, keyset, shown, opening, creating, fetched>>

\* The lock screen opens the wraps the page was served with; one that fits
\* proves the secrets.
Unlock ==
  LET opened == keyset \ Damaged
  IN /\ page \in {"vault", "invite"} /\ deriving
     /\ opened # {}
     /\ SaveKeys(opened)
     /\ keys' = opened
     /\ deriving' = FALSE
     /\ opening' = IF page = "vault"
                   THEN opening \cup Complete(opened, vaults) ELSE opening
     /\ UNCHANGED <<server, device, served, vaults, active, creating, fetched>>

\* "Use a different phrase", on the lock screen and the sign-in page.
ForgetPhrase ==
  /\ remembered /\ (LockScreenShown \/ page = "login")
  /\ ForgetIdentity
  /\ UNCHANGED <<server, window, store, idle, served, shown, opening, pending>>

\* The settings page proves the old secrets on every wrap before it sends
\* the new ones, and reloads after a moment.
ChangePassword ==
  /\ page = "settings" /\ deriving /\ leaving = "no"
  /\ keyset \cap Damaged = {}
  /\ SaveKeys(keyset)
  /\ deriving' = FALSE /\ leaving' = "settings"
  /\ UNCHANGED <<server, device, page, keyset, shown, opening, creating, fetched>>

------------------------------------------------------------------------
(* The vault page.                                                         *)

\* A completion ends: nothing opened and nothing held is a stale session.
FinishOpening(c) ==
  LET next == c.had \cup (c.missing \ Damaged)
  IN /\ c \in opening
     /\ IF next = {} THEN Lock /\ keys' = Locked
        ELSE SaveKeys(next) /\ keys' = next
     /\ opening' = (opening \ {c})
                     \cup (IF next = {} THEN {} ELSE Complete(next, vaults))
     /\ UNCHANGED <<server, device, served, vaults, active, pending>>

\* Another device or member gains or loses the account a vault.
Elsewhere ==
  /\ \E v \in Vaults \ {Home} :
       server' = IF v \in server THEN server \ {v} ELSE server \cup {v}
  /\ UNCHANGED <<device, store, idle, served, shown, opening, pending>>

\* May news reach the tab now?
OnTime == LateNews \/ ~Expired

\* (variant) A change made elsewhere counts as activity.
NewsTouches ==
  /\ page = "vault" /\ keys # Locked /\ OnTime
  /\ Cardinality(fetched \cup {server}) <= MaxFetched
  /\ SaveKeys(store)
  /\ fetched' = fetched \cup {server}
  /\ UNCHANGED <<server, device, served, shown, opening, deriving, creating>>

\* A change signal: refetch reads the key it will need from the store, and
\* refetchVaults asks for the list.
NewsArrives ==
  /\ page = "vault" /\ keys # Locked /\ OnTime
  /\ Cardinality(fetched \cup {server}) <= MaxFetched
  /\ LoadKeys
  /\ fetched' = fetched \cup {server}
  /\ UNCHANGED <<server, device, served, shown, opening, deriving, creating>>

\* (variant) The completing effect depends on the keys alone, not on the list.
ShowVaultsSealed(list) ==
  /\ list \in fetched /\ OnTime
  /\ fetched' = fetched \ {list}
  /\ vaults' = list
  /\ IF active \in list \/ list = {} THEN active' = active ELSE active' \in list
  /\ UNCHANGED <<server, device, store, idle, served, keys, opening, deriving, creating>>

\* The list arrives.  If the selected vault is gone the page falls back to
\* another, whose items it refetches if it holds its key.
ShowVaults(list) ==
  /\ list \in fetched /\ OnTime
  /\ fetched' = fetched \ {list}
  /\ vaults' = list
  /\ IF active \in list \/ list = {} THEN active' = active ELSE active' \in list
  /\ IF active' # active /\ keys # Locked /\ active' \in keys
     THEN LoadKeys ELSE UNCHANGED <<store, idle>>
  /\ opening' = opening \cup Complete(keys, list)
  /\ UNCHANGED <<server, device, served, keys, deriving, creating>>

SelectVault(v) ==
  /\ page = "vault" /\ ~LockScreenShown /\ v \in vaults /\ v # active
  /\ active' = v
  /\ TouchActivity
  /\ UNCHANGED <<server, device, served, keys, vaults, opening, pending>>

\* CreateVaultAPI commits; the answer is on its way.
CreateVault(v) ==
  /\ page = "vault" /\ ~LockScreenShown /\ creating = NoVault
  /\ v \notin server
  /\ server' = server \cup {v}
  /\ creating' = v
  /\ TouchActivity
  /\ UNCHANGED <<device, served, shown, opening, deriving, fetched>>

VaultCreated ==
  /\ creating # NoVault
  /\ AddVaultKey(creating)
  /\ keys' = store'
  /\ vaults' = vaults \cup {creating}
  /\ active' = creating
  /\ opening' = opening \cup Complete(keys', vaults')
  /\ creating' = NoVault
  /\ UNCHANGED <<server, device, served, deriving, fetched>>

CreateFails ==
  /\ creating # NoVault /\ creating' = NoVault
  /\ UNCHANGED <<server, device, store, idle, served, shown, opening, deriving, fetched>>

\* The manage dialog deletes or leaves the selected vault.  The answer may
\* come when the idle window has lapsed.
Drop(v) ==
  /\ page = "vault" /\ ~LockScreenShown /\ v \in server
  /\ server' = server \ {v}
  /\ RemoveVaultKey(v)
  /\ keys' = store'
  /\ vaults' = vaults \ {v}
  /\ IF vaults' = {} THEN active' = active ELSE active' \in vaults'
  /\ opening' = opening \cup Complete(keys', vaults')
  /\ UNCHANGED <<device, served, pending>>

DropVault == active # Home /\ Drop(active)

\* The invite page wraps the vault's key for this account, keeps it and goes
\* to the vault page.
AcceptInvite(v) ==
  /\ page = "invite" /\ keys # Locked /\ leaving = "no"
  /\ v \notin server
  /\ server' = server \cup {v}
  /\ AddVaultKey(v)
  /\ leaving' = "vault"
  /\ UNCHANGED <<device, page, keyset, shown, opening, pending>>

------------------------------------------------------------------------
\* Steps of the user, here or on another device.
Acted ==
  \/ Input \/ SubmitSecrets \/ ForgetPhrase
  \/ LockNow \/ SignOut \/ DeleteAccount
  \/ \E p \in Page : Navigate(p)
  \/ \E w \in Windows : SetAutoLock(w)
  \/ \E v \in Vaults : SelectVault(v) \/ CreateVault(v) \/ AcceptInvite(v)
  \/ DropVault \/ Elsewhere

\* Steps the tab and the network take by themselves.
Proceeds ==
  \/ Tick \/ WatchFires \/ Leave
  \/ SecretsFail \/ SignIn \/ Unlock \/ ChangePassword
  \/ \E c \in opening : FinishOpening(c)
  \/ NewsArrives \/ \E list \in fetched : ShowVaults(list)
  \/ VaultCreated \/ CreateFails

Next == Acted \/ Proceeds

Spec == Init /\ [][Next]_vars

\* The clock, the timer, the browser's navigation and Web Crypto go on.
Fairness ==
  /\ WF_vars(Tick) /\ WF_vars(WatchFires) /\ WF_vars(Leave)
  /\ \A c \in Completion : WF_vars(FinishOpening(c))

FairSpec == Spec /\ Fairness

------------------------------------------------------------------------
\* Types of the device's and the tab's state.
TypeOK ==
  /\ server \in SUBSET Vaults /\ Home \in server
  /\ remembered \in BOOLEAN /\ window \in Windows
  /\ store \in Keys /\ idle \in Nat
  /\ page \in Page /\ leaving \in Page \cup {"no"}
  /\ keyset \in SUBSET Vaults /\ keys \in Keys /\ vaults \in SUBSET Vaults
  /\ active \in Vaults \cup {NoVault}
  /\ opening \in SUBSET Completion
  /\ deriving \in BOOLEAN /\ creating \in Vaults \cup {NoVault}
  /\ fetched \in SUBSET SUBSET Vaults

\* The vault page shows exactly the keys the tab stores, until it is left:
\* what the auto-lock or a dropped vault takes out of the one is out of the
\* other (vault.tsx sets its state beside every call of the key store).
\* A refetch that finds the window lapsed is the exception: LateNews.
ScreenMatchesStore ==
  page = "vault" /\ leaving = "no" => keys = store

\* A locked tab stays locked until somebody types their secrets: of all the
\* code that writes keys, only a derivation the user started, or a completion
\* of the key set under way, brings any back (addVaultKey: "No-op while locked").
LockHolds ==
  [][store = Locked /\ store' # Locked => deriving \/ opening # {}]_vars

\* "An inactivity auto-lock wipes the keys": a vault page nobody touches shows
\* a locked vault in the end, whatever other members write meanwhile.
IdleTabLocks ==
  <>[][~Acted]_vars => <>[](page = "vault" => keys = Locked /\ store = Locked)

\* The key of every vault listed on an unlocked page is opened in the end, in
\* whatever order completions overwrite each other and lists arrive, for as
\* long as the user keeps the page unlocked by moving on it.
EveryVaultOpens ==
  <>[][Acted => Input]_vars =>
    <>[](page = "vault" /\ keys # Locked => vaults \ Damaged \subseteq keys)
============================================================================
