---------------------------- MODULE AccountKeys ----------------------------
(***************************************************************************)
(* The keys of one account: what its vault keys are sealed under.          *)
(*                                                                         *)
(* A Master Password change (settings.tsx, ChangePasswordAPI) replaces the *)
(* account's credentials and re-wraps every vault key under the new        *)
(* encryption key.  Credentials are abstracted to the change that minted   *)
(* them, a generation: the salt is fresh each time, so the auth key, the   *)
(* encryption key and everything sealed under it carry the same number.    *)
(* The server holds the current generation, one wrap per vault and the     *)
(* sessions; each tab holds an encryption key in its sessionStorage and    *)
(* the keyset its page was served with; tabs of a browser share a cookie.  *)
(*                                                                         *)
(* As in VaultMembership, a request reads and refuses at Begin and writes  *)
(* at Commit.  A definition marked (variant) is a plausible mistake.       *)
(***************************************************************************)
EXTENDS Naturals, FiniteSets

CONSTANTS
  Browsers,
  TabsPerBrowser,
  Vaults,               \* vaults this account may come to reach
  Sessions,             \* session ids; reused only once nobody holds them
  Requests,             \* requests in flight at one time
  NoSession, NoVault, NoTab,
  Junk,                 \* the key derived from mistyped secrets
  MaxGeneration,        \* bound: generations ever minted
  ResponsesMayBeLost    \* may the answer to a committed change get lost?

ASSUME NoneAssumption ==
  /\ NoSession \notin Sessions /\ NoVault \notin Vaults /\ Junk \notin Nat
  /\ NoTab \notin Browsers \X Nat

ASSUME BoundAssumption ==
  /\ TabsPerBrowser \in Nat \ {0}
  /\ MaxGeneration \in Nat \ {0}
  /\ ResponsesMayBeLost \in BOOLEAN

Tabs == Browsers \X (1..TabsPerBrowser)
Browser(t) == t[1]

VARIABLES
  cred,      \* generation of the stored auth key hash and KDF salt
  wrap,      \* wrap[v]: generation the access row's WrappedKey is sealed under
  auth,      \* auth[s]: generation session s was authenticated with, 0 if gone
  cookie,    \* cookie[b]: the session token browser b presents
  key,       \* key[t]: encKey in tab t's sessionStorage, 0 while locked
  page,      \* page[t]: the keyset tab t's page was served with
  minted,    \* generations minted so far
  told,      \* told[t]: generation whose change tab t's page says failed
  req        \* req[r]: what request r has read and is about to write

vars == <<cred, wrap, auth, cookie, key, page, minted, told, req>>

------------------------------------------------------------------------
Generation == 0..MaxGeneration          \* 0: none
Held == Generation \cup {Junk}

Keyset == [cred: Generation, wrap: [Vaults -> Held]]
BlankPage == [cred |-> 0, wrap |-> [v \in Vaults |-> 0]]

Op == {"idle", "login", "addVault", "changePassword", "changed"}
Request == [op: Op, tab: Tabs \cup {NoTab}, session: Sessions \cup {NoSession},
            key: Held, vault: Vaults \cup {NoVault},
            vaults: SUBSET Vaults, covers: SUBSET Vaults]

Idle == [op |-> "idle", tab |-> NoTab, session |-> NoSession, key |-> 0,
         vault |-> NoVault, vaults |-> {}, covers |-> {}]

Reachable == {v \in Vaults : wrap[v] # 0}
Listed(t) == {v \in Vaults : page[t].wrap[v] # 0}
Live(s) == s \in Sessions /\ auth[s] # 0
SignedIn(t) == Live(cookie[Browser(t)])
Free(r) == req[r].op = "idle"

\* A registered account that is signed out everywhere.
Init ==
  /\ cred = 1
  /\ \E v \in Vaults : wrap = [w \in Vaults |-> IF w = v THEN 1 ELSE 0]
  /\ auth = [s \in Sessions |-> 0]
  /\ cookie = [b \in Browsers |-> NoSession]
  /\ key = [t \in Tabs |-> 0]
  /\ page = [t \in Tabs |-> BlankPage]
  /\ minted = 1
  /\ told = [t \in Tabs |-> 0]
  /\ req = [r \in Requests |-> Idle]

Begin(r, record) == Free(r) /\ req' = [req EXCEPT ![r] = record]
Finish(r) == req' = [req EXCEPT ![r] = Idle]

\* Navigating replaces the page's keyset and any message on it.
Show(t, keyset) ==
  /\ page' = [page EXCEPT ![t] = keyset]
  /\ told' = [told EXCEPT ![t] = 0]

server == <<cred, wrap, auth>>
client == <<cookie, key, page, told>>

------------------------------------------------------------------------
(* Sessions.                                                               *)

\* LoginAPI up to the comparison with the stored hash, which succeeds when
\* the keys the tab derived are of the current generation.
BeginLogin(r, t) ==
  /\ Begin(r, [Idle EXCEPT !.op = "login", !.tab = t, !.key = cred])
  /\ UNCHANGED <<server, client, minted>>

\* createSession, and the login page stashing the key it derived.  The new
\* cookie replaces whatever the browser held.
CommitLogin(r, s) ==
  LET t == req[r].tab
  IN /\ req[r].op = "login"
     /\ ~Live(s)
     /\ \A b \in Browsers : cookie[b] # s
     /\ \A q \in Requests : req[q].session # s
     /\ auth' = [auth EXCEPT ![s] = req[r].key]
     /\ cookie' = [cookie EXCEPT ![Browser(t)] = s]
     /\ key' = [key EXCEPT ![t] = req[r].key]
     /\ Show(t, BlankPage)
     /\ Finish(r)
     /\ UNCHANGED <<cred, wrap, minted>>

\* LogoutAPI; the tab clears its key store first, its siblings do not.
Logout(t) ==
  /\ SignedIn(t)
  /\ auth' = [auth EXCEPT ![cookie[Browser(t)]] = 0]
  /\ cookie' = [cookie EXCEPT ![Browser(t)] = NoSession]
  /\ key' = [key EXCEPT ![t] = 0]
  /\ Show(t, BlankPage)
  /\ UNCHANGED <<cred, wrap, minted, req>>

\* RevokeSessionAPI, from any signed-in tab, and sessions expiring.
RevokeSession(s) ==
  /\ Live(s)
  /\ auth' = [auth EXCEPT ![s] = 0]
  /\ UNCHANGED <<cred, wrap, client, minted, req>>

------------------------------------------------------------------------
(* Pages, locking and unlocking.                                           *)

\* A full page load: RequireAuth hydrates the account into the page's keyset.
LoadPage(t) ==
  /\ SignedIn(t)
  /\ Show(t, [cred |-> cred, wrap |-> wrap])
  /\ UNCHANGED <<server, cookie, key, minted, req>>

\* "Lock now", the auto-lock, and the vault view dropping a key that opens
\* nothing.
Lock(t) ==
  /\ key[t] # 0
  /\ key' = [key EXCEPT ![t] = 0]
  /\ UNCHANGED <<server, cookie, page, minted, told, req>>

\* The lock screen with the right secrets: some wrap of the page's keyset
\* opens, or there is none to try.
Unlock(t) ==
  /\ key[t] = 0
  /\ page[t].cred # 0
  /\ Listed(t) = {} \/ \E v \in Listed(t) : page[t].wrap[v] = page[t].cred
  /\ key' = [key EXCEPT ![t] = page[t].cred]
  /\ UNCHANGED <<server, cookie, page, minted, told, req>>

\* The lock screen with mistyped secrets: no wrap opens, which is an error
\* only when the keyset lists a vault.  (The same mistake made twice derives
\* the same key again, so it may open what it sealed.)
UnlockMistyped(t) ==
  /\ key[t] = 0
  /\ page[t].cred # 0
  /\ Listed(t) = {} \/ \E v \in Listed(t) : page[t].wrap[v] = Junk
  /\ key' = [key EXCEPT ![t] = Junk]
  /\ UNCHANGED <<server, cookie, page, minted, told, req>>

------------------------------------------------------------------------
(* Gaining and losing vaults.                                              *)

\* (variant) Two ids passed in each other's place.
AddWithSwappedIds(r, t, v) ==
  /\ SignedIn(t)
  /\ key[t] # 0
  /\ v \notin Reachable
  /\ Begin(r, [Idle EXCEPT !.op = "addVault", !.tab = t, !.key = key[t],
                           !.vault = cookie[Browser(t)], !.session = v])
  /\ UNCHANGED <<server, client, minted>>

\* CreateVaultAPI or AcceptVaultInviteAPI: the tab seals the vault key under
\* the encryption key it holds, and the request is authenticated.
BeginAddVault(r, t, v) ==
  /\ SignedIn(t)
  /\ key[t] # 0
  /\ v \notin Reachable
  /\ Begin(r, [Idle EXCEPT !.op = "addVault", !.tab = t, !.key = key[t],
                           !.vault = v, !.session = cookie[Browser(t)]])
  /\ UNCHANGED <<server, client, minted>>

\* The access row is inserted as sent; the session is not looked at again.
CommitAddVault(r) ==
  /\ req[r].op = "addVault"
  /\ req[r].vault \notin Reachable
  /\ wrap' = [wrap EXCEPT ![req[r].vault] = req[r].key]
  /\ Finish(r)
  /\ UNCHANGED <<cred, auth, client, minted>>

\* The row goes: the vault is deleted, the member removed or leaves.
LoseVault(v) ==
  /\ v \in Reachable
  /\ wrap' = [wrap EXCEPT ![v] = 0]
  /\ UNCHANGED <<cred, auth, client, minted, req>>

------------------------------------------------------------------------
(* The Master Password change.                                             *)

\* What the form does before it posts: open every wrap of its page's keyset
\* with the keys of that page's salt, or stop.
RewrapsItsPage(t) ==
  /\ page[t].cred # 0
  /\ \A v \in Listed(t) : page[t].wrap[v] = page[t].cred

\* (variant) The set check lets a vault be missing.
ChangeWithMissingVault(r, t) ==
  /\ SignedIn(t)
  /\ minted < MaxGeneration
  /\ RewrapsItsPage(t)
  /\ page[t].cred = cred
  /\ Listed(t) \subseteq Reachable
  /\ minted' = minted + 1
  /\ Begin(r, [Idle EXCEPT !.op = "changePassword", !.tab = t,
                           !.key = minted + 1, !.covers = Listed(t),
                           !.vaults = Reachable, !.session = cookie[Browser(t)]])
  /\ UNCHANGED <<server, client>>

\* ChangePasswordAPI's checks: the current auth key, and a re-wrapped key set
\* that names each vault of the account exactly once.
BeginChangePassword(r, t) ==
  /\ SignedIn(t)
  /\ minted < MaxGeneration
  /\ RewrapsItsPage(t)
  /\ page[t].cred = cred
  /\ Listed(t) = Reachable
  /\ minted' = minted + 1
  /\ Begin(r, [Idle EXCEPT !.op = "changePassword", !.tab = t,
                           !.key = minted + 1, !.covers = Listed(t),
                           !.vaults = Reachable, !.session = cookie[Browser(t)]])
  /\ UNCHANGED <<server, client>>

\* (variant) The other sessions are left alone.
ChangeKeepingSessions(r) ==
  LET s == req[r].session
  IN /\ req[r].op = "changePassword"
     /\ req[r].covers \subseteq Reachable
     /\ cred' = req[r].key
     /\ wrap' = [v \in Vaults |-> IF v \in req[r].covers THEN req[r].key ELSE wrap[v]]
     /\ auth' = [q \in Sessions |-> IF q = s /\ Live(q) THEN req[r].key ELSE auth[q]]
     /\ req' = [req EXCEPT ![r].op = "changed"]
     /\ UNCHANGED <<client, minted>>

\* (variant) The re-wraps are no longer in the credentials' transaction, so
\* only some of them may have happened.
ChangeInPieces(r) ==
  LET s == req[r].session
  IN /\ req[r].op = "changePassword"
     /\ cred' = req[r].key
     /\ \E done \in SUBSET req[r].covers :
          wrap' = [v \in Vaults |-> IF v \in done \cap Reachable
                                      THEN req[r].key ELSE wrap[v]]
     /\ auth' = [q \in Sessions |-> IF q = s /\ Live(q) THEN req[r].key ELSE 0]
     /\ req' = [req EXCEPT ![r].op = "changed"]
     /\ UNCHANGED <<client, minted>>

\* One transaction: the credentials, every submitted wrap (a missing row
\* aborts it), and the deletion of the account's other sessions.
CommitChangePassword(r) ==
  LET s == req[r].session
  IN /\ req[r].op = "changePassword"
     /\ req[r].covers \subseteq Reachable
     /\ cred' = req[r].key
     /\ wrap' = [v \in Vaults |-> IF v \in req[r].covers THEN req[r].key ELSE wrap[v]]
     /\ auth' = [q \in Sessions |-> IF q = s /\ Live(q) THEN req[r].key ELSE 0]
     /\ req' = [req EXCEPT ![r].op = "changed"]
     /\ UNCHANGED <<client, minted>>

\* (variant) A failing notification fails the request that has committed.
ChangedButReportedFailed(r) ==
  LET t == req[r].tab
  IN /\ req[r].op = "changed"
     /\ told' = [told EXCEPT ![t] = req[r].key]
     /\ Finish(r)
     /\ UNCHANGED <<server, cookie, key, page, minted>>

\* The answer arrives: the tab keeps the new key and reloads.
AnswerChange(r) ==
  LET t == req[r].tab
  IN /\ req[r].op = "changed"
     /\ key' = [key EXCEPT ![t] = req[r].key]
     /\ Show(t, BlankPage)
     /\ Finish(r)
     /\ UNCHANGED <<server, cookie, minted>>

\* The answer is lost: the form's catch says "Nothing was changed."
LoseAnswer(r) ==
  /\ ResponsesMayBeLost
  /\ req[r].op = "changed"
  /\ told' = [told EXCEPT ![req[r].tab] = req[r].key]
  /\ Finish(r)
  /\ UNCHANGED <<server, cookie, key, page, minted>>

\* A refused, rolled-back or crashed request; the form reports a failure.
Abandon(r) ==
  /\ req[r].op \in {"login", "addVault", "changePassword"}
  /\ told' = IF req[r].op = "changePassword"
               THEN [told EXCEPT ![req[r].tab] = req[r].key] ELSE told
  /\ Finish(r)
  /\ UNCHANGED <<server, cookie, key, page, minted>>

------------------------------------------------------------------------
Next ==
  \/ \E r \in Requests :
       \/ \E t \in Tabs : BeginLogin(r, t)
       \/ \E s \in Sessions : CommitLogin(r, s)
       \/ \E t \in Tabs, v \in Vaults : BeginAddVault(r, t, v)
       \/ CommitAddVault(r)
       \/ \E t \in Tabs : BeginChangePassword(r, t)
       \/ CommitChangePassword(r)
       \/ AnswerChange(r)
       \/ LoseAnswer(r)
       \/ Abandon(r)
  \/ \E t \in Tabs :
       Logout(t) \/ LoadPage(t) \/ Lock(t) \/ Unlock(t) \/ UnlockMistyped(t)
  \/ \E s \in Sessions : RevokeSession(s)
  \/ \E v \in Vaults : LoseVault(v)

Spec == Init /\ [][Next]_vars

------------------------------------------------------------------------
\* Type correctness of the account's rows, the tabs and the requests.
TypeOK ==
  /\ cred \in Generation
  /\ wrap \in [Vaults -> Held]
  /\ auth \in [Sessions -> Generation]
  /\ cookie \in [Browsers -> Sessions \cup {NoSession}]
  /\ key \in [Tabs -> Held]
  /\ page \in [Tabs -> Keyset]
  /\ minted \in Generation
  /\ told \in [Tabs -> Generation]
  /\ req \in [Requests -> Request]

\* No vault key stays sealed under credentials that were replaced: the server
\* cannot re-wrap it, so its contents would be lost.  A key sealed under
\* mistyped secrets is another matter, see UnlockMistyped.
NoWrapUnderOldCredentials ==
  \A v \in Vaults : wrap[v] \in {0, cred, Junk}

\* A Master Password change revokes every other session: no live session was
\* opened with credentials that are no longer the account's.
SessionsMatchCredentials ==
  \A s \in Sessions : auth[s] \in {0, cred}

\* Whatever else is in flight, a change strands no vault the account had when
\* the change was checked: one that opened under the old credentials and does
\* not open under the new was added while the change was on its way.
ChangeStrandsOnlyNewcomers ==
  [][\A v \in Vaults :
       cred' # cred /\ wrap[v] = cred /\ wrap'[v] \notin {0, cred'}
         => \E r \in Requests : /\ req[r].op = "changePassword"
                                /\ req[r].key = cred'
                                /\ v \notin req[r].vaults]_vars

\* "Nothing was changed": a tab that was told its change did not happen is
\* right, as long as answers are not lost; nothing after the commit (the audit
\* row, the notification) may turn a change that happened into a failure.
FailureMeansUnchanged ==
  \A t \in Tabs : told[t] # 0 => told[t] # cred
============================================================================
