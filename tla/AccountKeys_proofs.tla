-------------------------- MODULE AccountKeys_proofs --------------------------
(***************************************************************************)
(* Proofs about AccountKeys, for every number of browsers, tabs, vaults,   *)
(* sessions, requests and changes.  First what holds whatever overlaps:    *)
(* the types, and that a change strands only vaults added while it was on  *)
(* its way.  Then what holds while one request of the account runs at a    *)
(* time, each browser has one tab open and no answer is lost: no vault key *)
(* is ever left under the old credentials.  The runs show that none of     *)
(* these three hypotheses can be dropped.  Last what needs only the third: *)
(* a change reported as failed did not happen.                             *)
(***************************************************************************)
EXTENDS AccountKeys, TLAPS

------------------------------------------------------------------------
(* Type correctness.                                                       *)

\* A request that signs in or changes the password names its tab and carries
\* a generation.
RequestsAreTyped ==
  \A r \in Requests :
    req[r].op \in {"login", "changePassword", "changed"} =>
      req[r].tab \in Tabs /\ req[r].key \in Generation

\* The blank page, the empty slot and the keyset a page load serves are typed.
LEMMA SmallTypes ==
  /\ BlankPage \in Keyset
  /\ Idle \in Request
  /\ TypeOK => [cred |-> cred, wrap |-> wrap] \in Keyset
<1>1. 0 \in Generation /\ 0 \in Held
  BY BoundAssumption DEF Generation, Held
<1>2. QED
  BY <1>1 DEF BlankPage, Keyset, Idle, Request, Op, TypeOK

\* A step of a typed state leads to a typed state.
LEMMA NextType ==
  ASSUME TypeOK, RequestsAreTyped, [Next]_vars
  PROVE  TypeOK'
<1>0. /\ 0 \in Generation /\ 0 \in Held
      /\ Junk \in Held
      /\ \A g \in Generation : g \in Held
  BY BoundAssumption DEF Generation, Held
<1>1. \A r \in Requests : req[r] \in Request
  BY DEF TypeOK
<1>2. ASSUME NEW r \in Requests, Finish(r)
      PROVE  req' \in [Requests -> Request]
  BY <1>2, SmallTypes DEF Finish, TypeOK
<1>3. ASSUME NEW t, NEW p \in Keyset, Show(t, p)
      PROVE  page' \in [Tabs -> Keyset] /\ told' \in [Tabs -> Generation]
  BY <1>0, <1>3 DEF Show, TypeOK
<1>4. ASSUME NEW r \in Requests, NEW t \in Tabs, BeginLogin(r, t)
      PROVE  TypeOK'
  <2>1. [Idle EXCEPT !.op = "login", !.tab = t, !.key = cred] \in Request
    BY <1>0 DEF Idle, Request, Op, TypeOK
  <2>2. QED
    BY <1>4, <2>1 DEF BeginLogin, Begin, TypeOK, server, client
<1>5. ASSUME NEW r \in Requests, NEW s \in Sessions, CommitLogin(r, s)
      PROVE  TypeOK'
  <2>1. req[r].key \in Generation
    BY <1>5 DEF CommitLogin, RequestsAreTyped
  <2>2. /\ auth' \in [Sessions -> Generation]
        /\ cookie' \in [Browsers -> Sessions \cup {NoSession}]
        /\ key' \in [Tabs -> Held]
    BY <1>0, <1>5, <2>1 DEF CommitLogin, TypeOK
  <2>3. QED
    BY <1>2, <1>3, <1>5, <2>2, SmallTypes DEF CommitLogin, TypeOK
<1>6. ASSUME NEW r \in Requests, NEW t \in Tabs, NEW v \in Vaults,
             BeginAddVault(r, t, v)
      PROVE  TypeOK'
  <2>1. cookie[Browser(t)] \in Sessions /\ key[t] \in Held
    BY <1>6 DEF BeginAddVault, SignedIn, Live, TypeOK
  <2>2. [Idle EXCEPT !.op = "addVault", !.tab = t, !.key = key[t],
                     !.vault = v, !.session = cookie[Browser(t)]] \in Request
    BY <2>1, SmallTypes DEF Idle, Request, Op
  <2>3. QED
    BY <1>6, <2>2 DEF BeginAddVault, Begin, TypeOK, server, client
<1>7. ASSUME NEW r \in Requests, CommitAddVault(r)
      PROVE  TypeOK'
  <2>1. req[r].key \in Held
    BY <1>1 DEF Request
  <2>2. QED
    BY <1>2, <1>7, <2>1 DEF CommitAddVault, TypeOK, client
<1>8. ASSUME NEW r \in Requests, NEW t \in Tabs, BeginChangePassword(r, t)
      PROVE  TypeOK'
  <2>1. cookie[Browser(t)] \in Sessions
    BY <1>8 DEF BeginChangePassword, SignedIn, Live
  <2>2. minted + 1 \in Generation /\ minted + 1 \in Held
    BY <1>8, BoundAssumption DEF BeginChangePassword, TypeOK, Generation, Held
  <2>3. [Idle EXCEPT !.op = "changePassword", !.tab = t,
                     !.key = minted + 1, !.covers = Listed(t),
                     !.vaults = Reachable, !.session = cookie[Browser(t)]] \in Request
    BY <2>1, <2>2 DEF Idle, Request, Op, Listed, Reachable
  <2>4. QED
    BY <1>8, <2>2, <2>3 DEF BeginChangePassword, Begin, TypeOK, server, client
<1>9. ASSUME NEW r \in Requests, CommitChangePassword(r)
      PROVE  TypeOK'
  <2>1. req[r].key \in Generation
    BY <1>9 DEF CommitChangePassword, RequestsAreTyped
  <2>2. [req[r] EXCEPT !.op = "changed"] \in Request
    BY <1>1 DEF Request, Op
  <2>3. req' \in [Requests -> Request]
    BY <1>9, <2>2 DEF CommitChangePassword, TypeOK
  <2>4. wrap' \in [Vaults -> Held] /\ auth' \in [Sessions -> Generation]
    BY <1>0, <1>9, <2>1 DEF CommitChangePassword, TypeOK
  <2>5. QED
    BY <1>9, <2>1, <2>3, <2>4 DEF CommitChangePassword, TypeOK, client
<1>10. ASSUME NEW r \in Requests, AnswerChange(r)
       PROVE  TypeOK'
  <2>1. req[r].key \in Held
    BY <1>1 DEF Request
  <2>2. QED
    BY <1>2, <1>3, <1>10, <2>1, SmallTypes DEF AnswerChange, TypeOK, server
<1>11. ASSUME NEW r \in Requests, LoseAnswer(r)
       PROVE  TypeOK'
  <2>1. req[r].key \in Generation
    BY <1>11 DEF LoseAnswer, RequestsAreTyped
  <2>2. told' \in [Tabs -> Generation]
    BY <1>11, <2>1 DEF LoseAnswer, TypeOK
  <2>3. QED
    BY <1>2, <1>11, <2>2 DEF LoseAnswer, TypeOK, server
<1>12. ASSUME NEW r \in Requests, Abandon(r)
       PROVE  TypeOK'
  <2>1. told' \in [Tabs -> Generation]
    <3>1. CASE req[r].op = "changePassword"
      <4>1. req[r].key \in Generation
        BY <3>1 DEF RequestsAreTyped
      <4>2. QED
        BY <1>12, <3>1, <4>1 DEF Abandon, TypeOK
    <3>2. CASE req[r].op # "changePassword"
      BY <1>12, <3>2 DEF Abandon, TypeOK
    <3>3. QED
      BY <3>1, <3>2
  <2>2. QED
    BY <1>2, <1>12, <2>1 DEF Abandon, TypeOK, server
<1>13. ASSUME NEW t \in Tabs, Logout(t)
       PROVE  TypeOK'
  BY <1>0, <1>3, <1>13, SmallTypes DEF Logout, TypeOK
<1>14. ASSUME NEW t \in Tabs, LoadPage(t)
       PROVE  TypeOK'
  BY <1>3, <1>14, SmallTypes DEF LoadPage, TypeOK, server
<1>15. ASSUME NEW t \in Tabs, Lock(t) \/ Unlock(t) \/ UnlockMistyped(t)
       PROVE  TypeOK'
  <2>1. page[t].cred \in Held
    BY <1>0 DEF TypeOK, Keyset
  <2>2. key' \in [Tabs -> Held]
    BY <1>0, <1>15, <2>1 DEF Lock, Unlock, UnlockMistyped, TypeOK
  <2>3. QED
    BY <1>15, <2>2 DEF Lock, Unlock, UnlockMistyped, TypeOK, server
<1>16. ASSUME NEW s \in Sessions, RevokeSession(s)
       PROVE  TypeOK'
  BY <1>0, <1>16 DEF RevokeSession, TypeOK, client
<1>17. ASSUME NEW v \in Vaults, LoseVault(v)
       PROVE  TypeOK'
  BY <1>0, <1>17 DEF LoseVault, TypeOK, client
<1>18. CASE UNCHANGED vars
  BY <1>18 DEF vars, TypeOK
<1>19. QED
  BY <1>4, <1>5, <1>6, <1>7, <1>8, <1>9, <1>10, <1>11, <1>12, <1>13, <1>14,
     <1>15, <1>16, <1>17, <1>18
  DEF Next

\* ... and its requests stay typed.
LEMMA NextRequestTypes ==
  ASSUME TypeOK, RequestsAreTyped, TypeOK', [Next]_vars
  PROVE  RequestsAreTyped'
<1> SUFFICES ASSUME NEW r \in Requests,
                    req'[r].op \in {"login", "changePassword", "changed"}
             PROVE  req'[r].tab \in Tabs /\ req'[r].key \in Generation
  BY DEF RequestsAreTyped
<1> DEFINE Typed == req'[r].tab \in Tabs /\ req'[r].key \in Generation
<1>0. req \in [Requests -> Request]
  BY DEF TypeOK
<1>1. ASSUME UNCHANGED req
      PROVE  Typed
  BY <1>1 DEF RequestsAreTyped
<1>2. ASSUME NEW q \in Requests, Finish(q)
      PROVE  Typed
  BY <1>0, <1>2 DEF Finish, Idle, RequestsAreTyped
<1>3. ASSUME NEW q \in Requests, NEW t \in Tabs, BeginLogin(q, t)
      PROVE  Typed
  BY <1>0, <1>3 DEF BeginLogin, Begin, Idle, RequestsAreTyped, TypeOK
<1>4. ASSUME NEW q \in Requests, NEW t \in Tabs, NEW v \in Vaults,
             BeginAddVault(q, t, v)
      PROVE  Typed
  BY <1>0, <1>4 DEF BeginAddVault, Begin, Idle, RequestsAreTyped
<1>5. ASSUME NEW q \in Requests, NEW t \in Tabs, BeginChangePassword(q, t)
      PROVE  Typed
  <2>1. minted + 1 \in Generation
    BY <1>5 DEF BeginChangePassword, TypeOK
  <2>2. QED
    BY <1>0, <1>5, <2>1 DEF BeginChangePassword, Begin, Idle, RequestsAreTyped
<1>6. ASSUME NEW q \in Requests, CommitChangePassword(q)
      PROVE  Typed
  BY <1>0, <1>6 DEF CommitChangePassword, Request, RequestsAreTyped
<1>7. CASE UNCHANGED vars
  BY <1>1, <1>7 DEF vars
<1>8. QED
  BY <1>1, <1>2, <1>3, <1>4, <1>5, <1>6, <1>7
  DEF Next, CommitLogin, CommitAddVault, AnswerChange, LoseAnswer, Abandon,
      Logout, LoadPage, Lock, Unlock, UnlockMistyped, RevokeSession, LoseVault

\* A freshly registered account is typed.
LEMMA InitType ==
  ASSUME Init
  PROVE  TypeOK /\ RequestsAreTyped
<1>1. /\ 0 \in Generation /\ 1 \in Generation
      /\ 0 \in Held /\ 1 \in Held
  BY BoundAssumption DEF Generation, Held
<1>2. wrap \in [Vaults -> {0, 1}]
  BY DEF Init
<1>3. TypeOK
  BY <1>1, <1>2, SmallTypes DEF Init, TypeOK
<1>4. RequestsAreTyped
  BY DEF Init, Idle, RequestsAreTyped
<1>5. QED
  BY <1>3, <1>4

\* The account's rows, the tabs and the requests keep their types, whatever
\* overlaps.
THEOREM TypeCorrect == Spec => []TypeOK
<1>1. Init => TypeOK /\ RequestsAreTyped
  BY InitType
<1>2. TypeOK /\ RequestsAreTyped /\ [Next]_vars => TypeOK' /\ RequestsAreTyped'
  BY NextType, NextRequestTypes
<1>3. QED
  BY <1>1, <1>2, PTL DEF Spec

------------------------------------------------------------------------
(* What a change covers.                                                   *)

\* A change in flight re-wraps all it was checked against.
CoversItsVaults ==
  \A r \in Requests :
    req[r].op = "changePassword" => req[r].covers = req[r].vaults

\* No step changes what a change in flight covers.
LEMMA NextCovers ==
  ASSUME TypeOK, CoversItsVaults, [Next]_vars
  PROVE  CoversItsVaults'
<1> SUFFICES ASSUME NEW r \in Requests, req'[r].op = "changePassword"
             PROVE  req'[r].covers = req'[r].vaults
  BY DEF CoversItsVaults
<1> USE DEF CoversItsVaults
<1>0. req \in [Requests -> Request]
  BY DEF TypeOK
<1>1. ASSUME UNCHANGED req
      PROVE  req'[r].covers = req'[r].vaults
  BY <1>1
<1>2. ASSUME NEW q \in Requests, Finish(q)
      PROVE  req'[r].covers = req'[r].vaults
  BY <1>0, <1>2 DEF Finish, Idle
<1>3. ASSUME NEW q \in Requests, NEW t \in Tabs, BeginLogin(q, t)
      PROVE  req'[r].covers = req'[r].vaults
  BY <1>0, <1>3 DEF BeginLogin, Begin, Idle
<1>4. ASSUME NEW q \in Requests, NEW t \in Tabs, NEW v \in Vaults,
             BeginAddVault(q, t, v)
      PROVE  req'[r].covers = req'[r].vaults
  BY <1>0, <1>4 DEF BeginAddVault, Begin, Idle
<1>5. ASSUME NEW q \in Requests, NEW t \in Tabs, BeginChangePassword(q, t)
      PROVE  req'[r].covers = req'[r].vaults
  BY <1>0, <1>5 DEF BeginChangePassword, Begin, Idle
<1>6. ASSUME NEW q \in Requests, CommitChangePassword(q)
      PROVE  req'[r].covers = req'[r].vaults
  BY <1>0, <1>6 DEF CommitChangePassword, Request
<1>7. CASE UNCHANGED vars
  BY <1>1, <1>7 DEF vars
<1>8. QED
  BY <1>1, <1>2, <1>3, <1>4, <1>5, <1>6, <1>7
  DEF Next, CommitLogin, CommitAddVault, AnswerChange, LoseAnswer, Abandon,
      Logout, LoadPage, Lock, Unlock, UnlockMistyped, RevokeSession, LoseVault

\* The only step that replaces the credentials is the commit of a change, and
\* it leaves alone only what the change does not cover.
LEMMA StrandedAreNewcomers ==
  ASSUME TypeOK, CoversItsVaults, [Next]_vars,
         NEW v \in Vaults, cred' # cred, wrap'[v] \notin {0, cred'}
  PROVE  \E r \in Requests : /\ req[r].op = "changePassword"
                             /\ req[r].key = cred'
                             /\ v \notin req[r].vaults
<1>1. PICK r \in Requests : CommitChangePassword(r)
  BY DEF Next, vars, BeginLogin, CommitLogin, BeginAddVault, CommitAddVault,
         BeginChangePassword, AnswerChange, LoseAnswer, Abandon, Logout,
         LoadPage, Lock, Unlock, UnlockMistyped, RevokeSession, LoseVault, server
<1>2. req[r].op = "changePassword" /\ req[r].key = cred'
  BY <1>1 DEF CommitChangePassword
<1>3. v \notin req[r].covers
  BY <1>1 DEF CommitChangePassword
<1>4. v \notin req[r].vaults
  BY <1>2, <1>3 DEF CoversItsVaults
<1>5. QED
  BY <1>2, <1>4

\* Whatever requests overlap, however many tabs a browser has and whichever
\* answers are lost, a change strands no vault it was checked against.
THEOREM CheckedVaultsAreReWrapped == Spec => ChangeStrandsOnlyNewcomers
<1> DEFINE Safe == TypeOK /\ CoversItsVaults
           Step == \A v \in Vaults :
                     cred' # cred /\ wrap[v] = cred /\ wrap'[v] \notin {0, cred'}
                       => \E r \in Requests : /\ req[r].op = "changePassword"
                                              /\ req[r].key = cred'
                                              /\ v \notin req[r].vaults
<1>1. Init => CoversItsVaults
  BY DEF Init, Idle, CoversItsVaults
<1>2. TypeOK /\ CoversItsVaults /\ [Next]_vars => CoversItsVaults'
  BY NextCovers
<1>3. Safe /\ [Next]_vars => [Step]_vars
  BY StrandedAreNewcomers
<1>4. Spec => []TypeOK
  BY TypeCorrect
<1>5. QED
  BY <1>1, <1>2, <1>3, <1>4, PTL DEF Spec, ChangeStrandsOnlyNewcomers

------------------------------------------------------------------------
CONSTANT slot

Serial ==
  /\ Requests = {slot}
  /\ TabsPerBrowser = 1
  /\ ~ResponsesMayBeLost

------------------------------------------------------------------------
(* The inductive invariant.  The wraps stay current because everything     *)
(* that may become a wrap is: the key an add in flight carries, the keys   *)
(* and keysets of the tabs that may still send one.  A tab whose session   *)
(* was revoked may keep a stale key for ever; what protects the vaults is  *)
(* that it must sign in, and thereby derive the current key, before the    *)
(* server listens to it again.  The tab that sent a change is exempt until *)
(* the answer arrives.                                                     *)

\* The session a change will keep is presented by no browser but its own.
CookiesAreUnshared ==
  \A b, c \in Browsers :
    b # c /\ cookie[b] # NoSession => cookie[b] # cookie[c]

ChangeKeepsItsBrowser ==
  req[slot].op = "changePassword" =>
    /\ req[slot].tab \in Tabs
    /\ req[slot].key \notin {0, Junk}
    /\ req[slot].session \in Sessions
    /\ Reachable \subseteq req[slot].covers
    /\ \A b \in Browsers :
         b # Browser(req[slot].tab) => cookie[b] # req[slot].session

Awaiting(t) == req[slot].op = "changed" /\ req[slot].tab = t

SignedInTabsAreCurrent ==
  \A t \in Tabs :
    SignedIn(t) /\ ~Awaiting(t) =>
      /\ key[t] \in {0, cred, Junk}
      /\ page[t].cred \in {0, cred}

RequestIsCurrent ==
  /\ req[slot].op = "login" => req[slot].tab \in Tabs /\ req[slot].key = cred
  /\ req[slot].op = "addVault" =>
       /\ req[slot].vault \in Vaults
       /\ req[slot].key \in {cred, Junk}
  /\ req[slot].op = "changed" =>
       req[slot].tab \in Tabs /\ req[slot].key = cred

IInv ==
  /\ TypeOK /\ RequestsAreTyped
  /\ NoWrapUnderOldCredentials
  /\ SessionsMatchCredentials
  /\ CookiesAreUnshared
  /\ ChangeKeepsItsBrowser
  /\ SignedInTabsAreCurrent
  /\ RequestIsCurrent

\* One tab per browser: a tab is known by its browser.
LEMMA OneTab ==
  ASSUME Serial
  PROVE  /\ \A t \in Tabs : Browser(t) \in Browsers
         /\ \A t, u \in Tabs : Browser(t) = Browser(u) => t = u
<1>1. \A n, m \in 1..1 : n = m
  OBVIOUS
<1>2. QED
  BY <1>1 DEF Serial, Tabs, Browser

------------------------------------------------------------------------
(* The parts of the invariant, one step each.                              *)

\* Every wrap that is written is current, and a change re-wraps them all.
LEMMA NextWraps ==
  ASSUME Serial, IInv, [Next]_vars
  PROVE  NoWrapUnderOldCredentials'
<1> USE DEF NoWrapUnderOldCredentials
<1>0. TypeOK /\ NoWrapUnderOldCredentials /\ Requests = {slot}
  BY DEF IInv, Serial
<1>1. ASSUME UNCHANGED <<cred, wrap>>
      PROVE  NoWrapUnderOldCredentials'
  BY <1>0, <1>1
<1>2. CASE CommitAddVault(slot)
  <2>1. req[slot].vault \in Vaults /\ req[slot].key \in {cred, Junk}
    BY <1>2 DEF CommitAddVault, IInv, RequestIsCurrent
  <2>2. QED
    BY <1>0, <1>2, <2>1 DEF CommitAddVault, TypeOK
<1>3. CASE CommitChangePassword(slot)
  <2>1. Reachable \subseteq req[slot].covers
    BY <1>3 DEF CommitChangePassword, IInv, ChangeKeepsItsBrowser
  <2>2. \A v \in Vaults : v \notin req[slot].covers => wrap[v] = 0
    BY <2>1 DEF Reachable
  <2>3. QED
    BY <1>3, <2>2 DEF CommitChangePassword
<1>4. ASSUME NEW v \in Vaults, LoseVault(v)
      PROVE  NoWrapUnderOldCredentials'
  BY <1>0, <1>4 DEF LoseVault, TypeOK
<1>5. CASE UNCHANGED vars
  BY <1>1, <1>5 DEF vars
<1>6. QED
  BY <1>0, <1>1, <1>2, <1>3, <1>4, <1>5
  DEF Next, BeginLogin, CommitLogin, BeginAddVault, BeginChangePassword,
      AnswerChange, LoseAnswer, Abandon, Logout, LoadPage, Lock, Unlock,
      UnlockMistyped, RevokeSession, server

\* A session is opened with the current credentials, and a change ends all
\* the sessions but its own.
LEMMA NextSessions ==
  ASSUME Serial, IInv, [Next]_vars
  PROVE  SessionsMatchCredentials'
<1> USE DEF SessionsMatchCredentials
<1>0. TypeOK /\ SessionsMatchCredentials /\ Requests = {slot}
  BY DEF IInv, Serial
<1>1. ASSUME UNCHANGED <<cred, auth>>
      PROVE  SessionsMatchCredentials'
  BY <1>0, <1>1
<1>2. ASSUME NEW s \in Sessions, CommitLogin(slot, s)
      PROVE  SessionsMatchCredentials'
  <2>1. req[slot].key = cred
    BY <1>2 DEF CommitLogin, IInv, RequestIsCurrent
  <2>2. QED
    BY <1>0, <1>2, <2>1 DEF CommitLogin, TypeOK
<1>3. CASE CommitChangePassword(slot)
  BY <1>3 DEF CommitChangePassword
<1>4. ASSUME NEW t \in Tabs, Logout(t)
      PROVE  SessionsMatchCredentials'
  BY <1>0, <1>4 DEF Logout, TypeOK
<1>5. ASSUME NEW s \in Sessions, RevokeSession(s)
      PROVE  SessionsMatchCredentials'
  BY <1>0, <1>5 DEF RevokeSession, TypeOK
<1>6. CASE UNCHANGED vars
  BY <1>1, <1>6 DEF vars
<1>7. QED
  BY <1>0, <1>1, <1>2, <1>3, <1>4, <1>5, <1>6
  DEF Next, BeginLogin, BeginAddVault, CommitAddVault, BeginChangePassword,
      AnswerChange, LoseAnswer, Abandon, LoadPage, Lock, Unlock,
      UnlockMistyped, LoseVault, server

\* A new session goes to one browser.
LEMMA NextCookies ==
  ASSUME Serial, IInv, [Next]_vars
  PROVE  CookiesAreUnshared'
<1> USE DEF CookiesAreUnshared
<1>0. TypeOK /\ CookiesAreUnshared /\ Requests = {slot}
  BY DEF IInv, Serial
<1>1. ASSUME UNCHANGED cookie
      PROVE  CookiesAreUnshared'
  BY <1>0, <1>1
<1>2. ASSUME NEW s \in Sessions, CommitLogin(slot, s)
      PROVE  CookiesAreUnshared'
  BY <1>0, <1>2 DEF CommitLogin, TypeOK
<1>3. ASSUME NEW t \in Tabs, Logout(t)
      PROVE  CookiesAreUnshared'
  BY <1>0, <1>3 DEF Logout, TypeOK
<1>4. CASE UNCHANGED vars
  BY <1>1, <1>4 DEF vars
<1>5. QED
  BY <1>0, <1>1, <1>2, <1>3, <1>4
  DEF Next, BeginLogin, BeginAddVault, CommitAddVault, BeginChangePassword,
      CommitChangePassword, AnswerChange, LoseAnswer, Abandon, LoadPage, Lock,
      Unlock, UnlockMistyped, RevokeSession, LoseVault, client

\* While a change is in flight its slot is busy: no vault is added and nobody
\* signs in, so it still covers every vault and keeps only its own session.
LEMMA NextChange ==
  ASSUME Serial, IInv, [Next]_vars
  PROVE  ChangeKeepsItsBrowser'
<1>0. TypeOK /\ ChangeKeepsItsBrowser /\ Requests = {slot} /\ req[slot] \in Request
  BY DEF IInv, Serial, TypeOK
<1>1. ASSUME req'[slot].op # "changePassword"
      PROVE  ChangeKeepsItsBrowser'
  BY <1>1 DEF ChangeKeepsItsBrowser
<1>2. ASSUME UNCHANGED <<req, wrap>>,
             \A b \in Browsers : cookie'[b] \in {cookie[b], NoSession}
      PROVE  ChangeKeepsItsBrowser'
  BY <1>0, <1>2, NoneAssumption DEF ChangeKeepsItsBrowser, Reachable
<1>3. ASSUME NEW t \in Tabs, BeginChangePassword(slot, t)
      PROVE  ChangeKeepsItsBrowser'
  <2>1. req'[slot] = [Idle EXCEPT !.op = "changePassword", !.tab = t,
                                  !.key = minted + 1, !.covers = Listed(t),
                                  !.vaults = Reachable, !.session = cookie[Browser(t)]]
    BY <1>0, <1>3 DEF BeginChangePassword, Begin, TypeOK
  <2>2. /\ req'[slot].tab = t
        /\ req'[slot].key = minted + 1
        /\ req'[slot].covers = Listed(t)
        /\ req'[slot].session = cookie[Browser(t)]
    BY <2>1 DEF Idle
  <2>3. minted + 1 \notin {0, Junk}
    BY <1>0, NoneAssumption DEF TypeOK, Generation
  <2>4. cookie[Browser(t)] \in Sessions /\ Browser(t) \in Browsers
    BY <1>3, OneTab DEF BeginChangePassword, SignedIn, Live
  <2>5. \A b \in Browsers : b # Browser(t) => cookie[b] # cookie[Browser(t)]
    BY <2>4, NoneAssumption DEF IInv, CookiesAreUnshared
  <2>6. UNCHANGED <<wrap, cookie>> /\ Listed(t) = Reachable
    BY <1>3 DEF BeginChangePassword, server, client
  <2>7. QED
    BY <2>2, <2>3, <2>4, <2>5, <2>6 DEF ChangeKeepsItsBrowser, Reachable
<1>4. ASSUME NEW t \in Tabs, BeginLogin(slot, t)
      PROVE  ChangeKeepsItsBrowser'
  BY <1>0, <1>1, <1>4 DEF BeginLogin, Begin, Idle, TypeOK
<1>5. ASSUME NEW t \in Tabs, NEW v \in Vaults, BeginAddVault(slot, t, v)
      PROVE  ChangeKeepsItsBrowser'
  BY <1>0, <1>1, <1>5 DEF BeginAddVault, Begin, Idle, TypeOK
<1>6. ASSUME Finish(slot)
      PROVE  ChangeKeepsItsBrowser'
  BY <1>0, <1>1, <1>6 DEF Finish, Idle, TypeOK
<1>7. CASE CommitChangePassword(slot)
  BY <1>0, <1>1, <1>7 DEF CommitChangePassword, TypeOK, Request
<1>8. ASSUME NEW t \in Tabs, Logout(t)
      PROVE  ChangeKeepsItsBrowser'
  BY <1>0, <1>2, <1>8 DEF Logout, TypeOK
<1>9. ASSUME NEW t \in Tabs,
             LoadPage(t) \/ Lock(t) \/ Unlock(t) \/ UnlockMistyped(t)
      PROVE  ChangeKeepsItsBrowser'
  BY <1>2, <1>9 DEF LoadPage, Lock, Unlock, UnlockMistyped, server
<1>10. ASSUME NEW s \in Sessions, RevokeSession(s)
       PROVE  ChangeKeepsItsBrowser'
  BY <1>2, <1>10 DEF RevokeSession, client
<1>11. ASSUME NEW v \in Vaults, LoseVault(v)
       PROVE  ChangeKeepsItsBrowser'
  BY <1>0, <1>11 DEF LoseVault, client, ChangeKeepsItsBrowser, Reachable, TypeOK
<1>12. CASE UNCHANGED vars
  BY <1>2, <1>12 DEF vars
<1>13. QED
  BY <1>0, <1>3, <1>4, <1>5, <1>6, <1>7, <1>8, <1>9, <1>10, <1>11, <1>12
  DEF Next, CommitLogin, CommitAddVault, AnswerChange, LoseAnswer, Abandon

\* The request in flight carries current keys: nothing can replace the
\* credentials while it holds the only slot.
LEMMA NextRequest ==
  ASSUME Serial, IInv, [Next]_vars
  PROVE  RequestIsCurrent'
<1>0. TypeOK /\ RequestIsCurrent /\ Requests = {slot} /\ req[slot] \in Request
  BY DEF IInv, Serial, TypeOK
<1>1. ASSUME UNCHANGED <<req, cred>>
      PROVE  RequestIsCurrent'
  BY <1>0, <1>1 DEF RequestIsCurrent
<1>2. ASSUME Finish(slot)
      PROVE  RequestIsCurrent'
  BY <1>0, <1>2 DEF Finish, Idle, TypeOK, RequestIsCurrent
<1>3. ASSUME NEW t \in Tabs, BeginLogin(slot, t)
      PROVE  RequestIsCurrent'
  BY <1>0, <1>3 DEF BeginLogin, Begin, Idle, TypeOK, RequestIsCurrent, server
<1>4. ASSUME NEW t \in Tabs, NEW v \in Vaults, BeginAddVault(slot, t, v)
      PROVE  RequestIsCurrent'
  <2>1. key[t] \in {cred, Junk}
    <3>1. req[slot].op = "idle"
      BY <1>4 DEF BeginAddVault, Begin, Free
    <3>2. key[t] \in {0, cred, Junk} /\ key[t] # 0
      BY <1>4, <3>1 DEF BeginAddVault, IInv, SignedInTabsAreCurrent, Awaiting
    <3>3. QED
      BY <3>2
  <2>2. QED
    BY <1>0, <1>4, <2>1
    DEF BeginAddVault, Begin, Idle, TypeOK, RequestIsCurrent, server
<1>5. ASSUME NEW t \in Tabs, BeginChangePassword(slot, t)
      PROVE  RequestIsCurrent'
  BY <1>0, <1>5 DEF BeginChangePassword, Begin, Idle, TypeOK, RequestIsCurrent
<1>6. CASE CommitChangePassword(slot)
  <2>1. req[slot].tab \in Tabs
    BY <1>6 DEF CommitChangePassword, IInv, ChangeKeepsItsBrowser
  <2>2. /\ req'[slot].op = "changed" /\ req'[slot].tab = req[slot].tab
        /\ req'[slot].key = req[slot].key
    BY <1>0, <1>6 DEF CommitChangePassword, TypeOK, Request
  <2>3. cred' = req[slot].key
    BY <1>6 DEF CommitChangePassword
  <2>4. QED
    BY <2>1, <2>2, <2>3 DEF RequestIsCurrent
<1>7. CASE UNCHANGED vars
  BY <1>1, <1>7 DEF vars
<1>8. QED
  BY <1>0, <1>1, <1>2, <1>3, <1>4, <1>5, <1>6, <1>7
  DEF Next, CommitLogin, CommitAddVault, AnswerChange, LoseAnswer, Abandon,
      Logout, LoadPage, Lock, Unlock, UnlockMistyped, RevokeSession, LoseVault,
      server

\* A tab the server would listen to holds current keys: it signed in after
\* the last change, or its own change was answered.
LEMMA NextTabs ==
  ASSUME Serial, IInv, [Next]_vars
  PROVE  SignedInTabsAreCurrent'
<1> SUFFICES ASSUME NEW u \in Tabs, SignedIn(u)', ~Awaiting(u)'
             PROVE  key'[u] \in {0, cred', Junk} /\ page'[u].cred \in {0, cred'}
  BY DEF SignedInTabsAreCurrent
<1> DEFINE Current == key'[u] \in {0, cred', Junk} /\ page'[u].cred \in {0, cred'}
<1>0. /\ TypeOK /\ Requests = {slot} /\ req[slot] \in Request
      /\ Browser(u) \in Browsers
      /\ \A t \in Tabs : t # u => Browser(t) # Browser(u)
  BY OneTab DEF IInv, Serial, TypeOK
<1>1. ASSUME SignedIn(u), ~Awaiting(u), UNCHANGED <<cred, key, page>>
      PROVE  Current
  BY <1>1 DEF IInv, SignedInTabsAreCurrent
<1>2. ASSUME UNCHANGED <<server, client>>, req[slot].op # "changed" \/ UNCHANGED req
      PROVE  Current
  BY <1>1, <1>2 DEF server, client, SignedIn, Live, Awaiting
<1>3. ASSUME NEW s \in Sessions, CommitLogin(slot, s)
      PROVE  Current
  <2>1. req[slot].tab \in Tabs /\ req[slot].key = cred /\ cred' = cred
    BY <1>3 DEF CommitLogin, IInv, RequestIsCurrent
  <2>2. CASE u = req[slot].tab
    BY <1>0, <1>3, <2>1, <2>2 DEF CommitLogin, Show, BlankPage, TypeOK
  <2>3. CASE u # req[slot].tab
    <3>1. cookie'[Browser(u)] = cookie[Browser(u)] /\ cookie[Browser(u)] # s
      BY <1>0, <1>3, <2>1, <2>3 DEF CommitLogin, TypeOK
    <3>2. SignedIn(u)
      BY <1>0, <1>3, <3>1 DEF CommitLogin, SignedIn, Live, TypeOK
    <3>3. key'[u] = key[u] /\ page'[u] = page[u]
      BY <1>0, <1>3, <2>3 DEF CommitLogin, Show, TypeOK
    <3>4. QED
      BY <1>3, <2>1, <3>2, <3>3
      DEF CommitLogin, IInv, SignedInTabsAreCurrent, Awaiting
  <2>4. QED
    BY <2>2, <2>3
<1>4. CASE CommitChangePassword(slot)
  <2>1. CASE u = req[slot].tab
    <3>1. req'[slot].op = "changed" /\ req'[slot].tab = req[slot].tab
      BY <1>0, <1>4 DEF CommitChangePassword, TypeOK, Request
    <3>2. QED
      BY <2>1, <3>1 DEF Awaiting
  <2>2. CASE u # req[slot].tab
    <3>1. req[slot].tab \in Tabs /\ cookie[Browser(u)] # req[slot].session
      BY <1>0, <1>4, <2>2
      DEF CommitChangePassword, IInv, ChangeKeepsItsBrowser
    <3>2. \A s \in Sessions : s # req[slot].session => auth'[s] = 0
      BY <1>4 DEF CommitChangePassword
    <3>3. cookie'[Browser(u)] = cookie[Browser(u)]
      BY <1>4 DEF CommitChangePassword, client
    <3>4. QED
      BY <3>1, <3>2, <3>3 DEF SignedIn, Live
  <2>3. QED
    BY <2>1, <2>2
<1>5. CASE AnswerChange(slot)
  <2>1. req[slot].tab \in Tabs /\ req[slot].key = cred
    BY <1>5 DEF AnswerChange, IInv, RequestIsCurrent
  <2>2. CASE u = req[slot].tab
    BY <1>0, <1>5, <2>1, <2>2 DEF AnswerChange, Show, BlankPage, TypeOK, server
  <2>3. CASE u # req[slot].tab
    <3>1. SignedIn(u) /\ ~Awaiting(u) /\ cred' = cred
      BY <1>5, <2>3 DEF AnswerChange, SignedIn, Live, Awaiting, server
    <3>2. key'[u] = key[u] /\ page'[u] = page[u]
      BY <1>0, <1>5, <2>3 DEF AnswerChange, Show, TypeOK
    <3>3. QED
      BY <3>1, <3>2 DEF IInv, SignedInTabsAreCurrent
  <2>4. QED
    BY <2>2, <2>3
<1>6. ASSUME NEW t \in Tabs, Logout(t)
      PROVE  Current
  <2>1. CASE u = t
    BY <1>0, <1>6, <2>1, NoneAssumption DEF Logout, SignedIn, Live, TypeOK
  <2>2. CASE u # t
    <3>1. cookie'[Browser(u)] = cookie[Browser(u)]
      BY <1>0, <1>6, <2>2 DEF Logout, TypeOK
    <3>2. \A s \in Sessions : auth'[s] # 0 => auth[s] # 0
      BY <1>0, <1>6 DEF Logout, TypeOK
    <3>3. SignedIn(u) /\ ~Awaiting(u)
      BY <1>6, <3>1, <3>2 DEF Logout, SignedIn, Live, Awaiting
    <3>4. key'[u] = key[u] /\ page'[u] = page[u] /\ cred' = cred
      BY <1>0, <1>6, <2>2 DEF Logout, Show, TypeOK
    <3>5. QED
      BY <3>3, <3>4 DEF IInv, SignedInTabsAreCurrent
  <2>3. QED
    BY <2>1, <2>2
<1>7. ASSUME NEW t \in Tabs, LoadPage(t)
      PROVE  Current
  <2>1. /\ SignedIn(u) /\ ~Awaiting(u) /\ cred' = cred /\ key' = key
        /\ page'[u].cred \in {cred, page[u].cred}
    BY <1>0, <1>7 DEF LoadPage, Show, SignedIn, Live, Awaiting, TypeOK, server
  <2>2. QED
    BY <2>1 DEF IInv, SignedInTabsAreCurrent
<1>8. ASSUME NEW t \in Tabs, Lock(t) \/ Unlock(t) \/ UnlockMistyped(t)
      PROVE  Current
  <2>1. SignedIn(u) /\ ~Awaiting(u) /\ cred' = cred /\ page' = page
    BY <1>8
    DEF Lock, Unlock, UnlockMistyped, SignedIn, Live, Awaiting, server
  <2>2. key'[u] \in {key[u], 0, page[u].cred, Junk}
    BY <1>0, <1>8 DEF Lock, Unlock, UnlockMistyped, TypeOK
  <2>3. QED
    BY <2>1, <2>2 DEF IInv, SignedInTabsAreCurrent
<1>9. ASSUME NEW s \in Sessions, RevokeSession(s)
      PROVE  Current
  <2>1. SignedIn(u) /\ ~Awaiting(u)
    BY <1>0, <1>9 DEF RevokeSession, SignedIn, Live, Awaiting, TypeOK, client
  <2>2. QED
    BY <1>1, <1>9, <2>1 DEF RevokeSession, client
<1>10. ASSUME UNCHANGED <<cred, auth, client>>,
              req[slot].op # "changed" \/ UNCHANGED req
       PROVE  Current
  BY <1>1, <1>10 DEF client, SignedIn, Live, Awaiting
<1>11. ASSUME UNCHANGED <<server, cookie, key, page>>, req[slot].op # "changed"
       PROVE  Current
  BY <1>1, <1>11 DEF server, SignedIn, Live, Awaiting
<1>12. CASE LoseAnswer(slot)
  BY <1>12 DEF LoseAnswer, Serial
<1>13. CASE Abandon(slot)
  BY <1>11, <1>13 DEF Abandon
<1>14. CASE CommitAddVault(slot)
  BY <1>10, <1>14 DEF CommitAddVault
<1>15. ASSUME NEW v \in Vaults, LoseVault(v)
       PROVE  Current
  BY <1>10, <1>15 DEF LoseVault
<1>16. CASE UNCHANGED vars
  BY <1>2, <1>16 DEF vars, server, client
<1>17. QED
  BY <1>0, <1>2, <1>3, <1>4, <1>5, <1>6, <1>7, <1>8, <1>9, <1>12, <1>13,
     <1>14, <1>15, <1>16
  DEF Next, BeginLogin, BeginAddVault, BeginChangePassword, Begin, Free

------------------------------------------------------------------------
(* Theorems of the specification.                                          *)

\* A freshly registered account satisfies the invariant.
LEMMA InitInvariant ==
  ASSUME Serial, Init
  PROVE  IInv
<1>1. wrap \in [Vaults -> {0, 1}]
  BY DEF Init
<1>2. TypeOK /\ RequestsAreTyped
  BY InitType
<1>3. req[slot].op = "idle"
  BY DEF Init, Idle, Serial
<1>4. NoWrapUnderOldCredentials /\ SessionsMatchCredentials
  BY <1>1 DEF Init, NoWrapUnderOldCredentials, SessionsMatchCredentials
<1>5. CookiesAreUnshared
  BY DEF Init, CookiesAreUnshared
<1>6. ChangeKeepsItsBrowser /\ RequestIsCurrent
  BY <1>3 DEF ChangeKeepsItsBrowser, RequestIsCurrent
<1>7. SignedInTabsAreCurrent
  BY DEF Init, SignedInTabsAreCurrent, BlankPage
<1>8. QED
  BY <1>2, <1>4, <1>5, <1>6, <1>7 DEF IInv

\* The invariant holds throughout, however many devices and changes there are.
LEMMA SerialInvariant ==
  ASSUME Serial
  PROVE  Spec => []IInv
<1>1. Init => IInv
  BY InitInvariant
<1>2. IInv /\ [Next]_vars => IInv'
  <2> SUFFICES ASSUME IInv, [Next]_vars
               PROVE  IInv'
    OBVIOUS
  <2>1. TypeOK /\ RequestsAreTyped
    BY DEF IInv
  <2>2. TypeOK' /\ RequestsAreTyped'
    BY <2>1, NextType, NextRequestTypes
  <2>3. /\ NoWrapUnderOldCredentials' /\ SessionsMatchCredentials'
        /\ CookiesAreUnshared' /\ ChangeKeepsItsBrowser'
        /\ SignedInTabsAreCurrent' /\ RequestIsCurrent'
    BY NextWraps, NextSessions, NextCookies, NextChange, NextTabs, NextRequest
  <2>4. QED
    BY <2>2, <2>3 DEF IInv
<1>3. QED
  BY <1>1, <1>2, PTL DEF Spec

\* With one request at a time, one tab per browser and no lost answer, no
\* change of the Master Password strands a vault.
THEOREM SerialChangesStrandNothing ==
  ASSUME Serial
  PROVE  Spec => []NoWrapUnderOldCredentials
<1>1. IInv => NoWrapUnderOldCredentials
  BY DEF IInv
<1>2. QED
  BY <1>1, SerialInvariant, PTL

\* Under the same assumptions a change leaves no session of the old
\* credentials behind.
THEOREM SerialChangesEndOldSessions ==
  ASSUME Serial
  PROVE  Spec => []SessionsMatchCredentials
<1>1. IInv => SessionsMatchCredentials
  BY DEF IInv
<1>2. QED
  BY <1>1, SerialInvariant, PTL

------------------------------------------------------------------------
(* What a failed change says.  A generation has one fate: it is in flight  *)
(* in one request, it became the account's, or a form reported it failed.  *)

\* The changes in flight carry generations of their own, none of them the
\* account's and none of them reported as failed.
ChangesAreFresh ==
  \A r \in Requests :
    req[r].op = "changePassword" =>
      /\ req[r].key \in 1..minted
      /\ req[r].key # cred
      /\ \A q \in Requests \ {r} :
           req[q].op = "changePassword" => req[q].key # req[r].key
      /\ \A t \in Tabs : told[t] # req[r].key

\* The account's generation was minted, and so were the reported ones.
AllWereMinted == cred <= minted /\ \A t \in Tabs : told[t] <= minted

FateInv == TypeOK /\ ChangesAreFresh /\ AllWereMinted /\ FailureMeansUnchanged

\* No step gives a generation a second fate, as long as no answer is lost.
LEMMA NextFate ==
  ASSUME ResponsesMayBeLost = FALSE, FateInv, TypeOK', [Next]_vars
  PROVE  FateInv'
<1> USE DEF FateInv
<1>0. /\ minted \in Nat /\ cred \in Nat
      /\ \A t \in Tabs : told[t] \in Nat
      /\ minted' \in Nat
  BY BoundAssumption DEF TypeOK, Generation
<1>1. ASSUME UNCHANGED <<cred, minted>>,
             \A r \in Requests :
               req'[r].op = "changePassword" => req'[r] = req[r],
             \A t \in Tabs : told'[t] \in {told[t], 0}
      PROVE  FateInv'
  BY <1>0, <1>1 DEF ChangesAreFresh, AllWereMinted, FailureMeansUnchanged
<1>2. ASSUME NEW r \in Requests, Finish(r)
      PROVE  /\ \A q \in Requests \ {r} : req'[q] = req[q]
             /\ req'[r].op = "idle"
  BY <1>2 DEF Finish, Idle, TypeOK
<1>3. ASSUME NEW t, NEW p, Show(t, p)
      PROVE  \A u \in Tabs : told'[u] \in {told[u], 0}
  BY <1>3 DEF Show, TypeOK
<1>4. ASSUME NEW r \in Requests, NEW t \in Tabs, BeginChangePassword(r, t)
      PROVE  FateInv'
  <2>1. /\ \A q \in Requests \ {r} : req'[q] = req[q]
        /\ req'[r].key = minted + 1
        /\ minted' = minted + 1
        /\ UNCHANGED <<cred, told>>
    BY <1>4 DEF BeginChangePassword, Begin, Idle, TypeOK, server, client
  <2>2. QED
    BY <1>0, <2>1 DEF ChangesAreFresh, AllWereMinted, FailureMeansUnchanged
<1>5. ASSUME NEW r \in Requests, CommitChangePassword(r)
      PROVE  FateInv'
  <2>1. /\ \A q \in Requests \ {r} : req'[q] = req[q]
        /\ req'[r].op = "changed"
        /\ req[r].op = "changePassword" /\ cred' = req[r].key
        /\ UNCHANGED <<minted, told>>
    BY <1>5 DEF CommitChangePassword, TypeOK, Request, client
  <2>2. QED
    BY <1>0, <2>1 DEF ChangesAreFresh, AllWereMinted, FailureMeansUnchanged
<1>6. ASSUME NEW r \in Requests, Abandon(r)
      PROVE  FateInv'
  <2>1. /\ \A q \in Requests \ {r} : req'[q] = req[q]
        /\ req'[r].op = "idle"
        /\ UNCHANGED <<cred, minted>>
    BY <1>2, <1>6 DEF Abandon, server
  <2>2. CASE req[r].op # "changePassword"
    BY <1>1, <1>6, <2>1, <2>2 DEF Abandon
  <2>3. CASE req[r].op = "changePassword"
    <3>1. \A t \in Tabs : told'[t] \in {told[t], req[r].key}
      BY <1>6, <2>3 DEF Abandon, TypeOK
    <3>2. QED
      BY <1>0, <2>1, <2>3, <3>1
      DEF ChangesAreFresh, AllWereMinted, FailureMeansUnchanged
  <2>4. QED
    BY <2>2, <2>3
<1>7. ASSUME NEW r \in Requests, NEW t \in Tabs, BeginLogin(r, t)
      PROVE  FateInv'
  BY <1>1, <1>7 DEF BeginLogin, Begin, Idle, TypeOK, server, client
<1>8. ASSUME NEW r \in Requests, NEW t \in Tabs, NEW v \in Vaults,
             BeginAddVault(r, t, v)
      PROVE  FateInv'
  BY <1>1, <1>8 DEF BeginAddVault, Begin, Idle, TypeOK, server, client
<1>9. ASSUME NEW r \in Requests, NEW s \in Sessions, CommitLogin(r, s)
      PROVE  FateInv'
  BY <1>1, <1>2, <1>3, <1>9 DEF CommitLogin
<1>10. ASSUME NEW r \in Requests, CommitAddVault(r)
       PROVE  FateInv'
  BY <1>1, <1>2, <1>10 DEF CommitAddVault, client
<1>11. ASSUME NEW r \in Requests, AnswerChange(r)
       PROVE  FateInv'
  BY <1>1, <1>2, <1>3, <1>11 DEF AnswerChange, server
<1>12. ASSUME NEW t \in Tabs,
              Logout(t) \/ LoadPage(t) \/ Lock(t) \/ Unlock(t) \/ UnlockMistyped(t)
       PROVE  FateInv'
  BY <1>1, <1>3, <1>12
  DEF Logout, LoadPage, Lock, Unlock, UnlockMistyped, server
<1>13. ASSUME UNCHANGED <<cred, minted, req, told>>
       PROVE  FateInv'
  BY <1>1, <1>13
<1>14. QED
  BY <1>4, <1>5, <1>6, <1>7, <1>8, <1>9, <1>10, <1>11, <1>12, <1>13
  DEF Next, LoseAnswer, RevokeSession, LoseVault, client, vars

\* As long as no answer is lost, a form that says "Nothing was changed" is
\* right, whatever else was in flight and however many changes were made.
THEOREM FailedChangesChangedNothing ==
  ASSUME ResponsesMayBeLost = FALSE
  PROVE  Spec => []FailureMeansUnchanged
<1>1. Init => FateInv
  <2> SUFFICES ASSUME Init
               PROVE  FateInv
    OBVIOUS
  <2>1. /\ \A r \in Requests : req[r].op = "idle"
        /\ \A t \in Tabs : told[t] = 0
        /\ cred = 1 /\ minted = 1
    BY DEF Init, Idle
  <2>2. QED
    BY <2>1, InitType
    DEF FateInv, ChangesAreFresh, AllWereMinted, FailureMeansUnchanged
<1>2. FateInv /\ TypeOK' /\ [Next]_vars => FateInv'
  BY NextFate
<1>3. FateInv => FailureMeansUnchanged
  BY DEF FateInv
<1>4. QED
  BY <1>1, <1>2, <1>3, TypeCorrect, PTL DEF Spec
===============================================================================
