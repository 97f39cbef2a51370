-------------------------- MODULE VaultMembership --------------------------
(***************************************************************************)
(* Who can reach which vault.                                              *)
(*                                                                         *)
(* The tables vault3_user, vault3_vault, vault3_vault_access and           *)
(* vault3_vault_invite, and the handlers of runtime/vault_manage_view.go,  *)
(* register_view.go and account_view.go that write them.  PostgreSQL runs  *)
(* at READ COMMITTED, and a handler reads what it decides on before it     *)
(* opens its transaction, so each request is (at least) two steps: Begin,  *)
(* the reads and refusals; Commit, the transaction, which re-checks only   *)
(* what its WHERE clauses and the schema's constraints say.  Anything may  *)
(* happen between the two.                                                 *)
(*                                                                         *)
(* A definition marked (variant) is not the code: it is the plausible      *)
(* mistake that the property named beside it in PROJECT.json detects.      *)
(***************************************************************************)
EXTENDS Naturals, FiniteSets

CONSTANTS
  Users, Vaults, Invites,     \* row ids; each is minted at most once
  Requests,                   \* requests in flight at one time
  NoUser, NoVault, NoInvite,
  MaxMembersPerVault,
  MaxVaultsPerUser,
  MaxActiveInvitesPerVault

ASSUME NoneAssumption ==
  NoUser \notin Users /\ NoVault \notin Vaults /\ NoInvite \notin Invites

ASSUME LimitAssumption ==
  /\ MaxMembersPerVault \in Nat \ {0}
  /\ MaxVaultsPerUser \in Nat \ {0}
  /\ MaxActiveInvitesPerVault \in Nat \ {0}

ASSUME FiniteAssumption ==
  IsFiniteSet(Users) /\ IsFiniteSet(Requests)

VARIABLES
  account,    \* account[u]: "unborn", "active" or "deleted"
  vault,      \* vault[v]: "unborn", "live" or "deleted"
  owner,      \* owner[v]: Vault3VaultOwnerUserID of a live vault
  kind,       \* kind[v]: Vault3VaultKind of a live vault
  access,     \* access[v][u]: role of the access row, or "none"
  invite,     \* invite[i]: status, vault and whether its expiry has passed
  req,        \* req[r]: what request r has read and is about to write
  bumped      \* users whose revision the latest step bumped

vars == <<account, vault, owner, kind, access, invite, req, bumped>>

------------------------------------------------------------------------
Role == {"none", "owner", "member"}
InviteStatus == {"unborn", "pending", "accepted", "revoked", "deleted"}
Invite == [status: InviteStatus, vault: Vaults \cup {NoVault}, lapsed: BOOLEAN]

Op == {"idle", "createVault", "deleteVault", "createInvite", "revokeInvite",
       "acceptInvite", "removeMember", "removeMemberCounted", "deleteAccount"}

Request == [op: Op, user: Users \cup {NoUser}, vault: Vaults \cup {NoVault},
            invite: Invites \cup {NoInvite}, target: Users \cup {NoUser},
            audience: SUBSET Users, alone: BOOLEAN]

Idle == [op |-> "idle", user |-> NoUser, vault |-> NoVault,
         invite |-> NoInvite, target |-> NoUser, audience |-> {},
         alone |-> FALSE]

Members(v) == {u \in Users : access[v][u] # "none"}
VaultsOf(u) == {v \in Vaults : access[v][u] # "none"}

\* The WHERE clause shared by the preview, the claim and the pending count.
InviteIsLive(i) == invite[i].status = "pending" /\ ~invite[i].lapsed
LiveInvites(v) == {i \in Invites : invite[i].vault = v /\ InviteIsLive(i)}

InviteRows == {i \in Invites : invite[i].status \notin {"unborn", "deleted"}}

\* The row locks a member removal holds between its DELETE and its COMMIT.
RowLocked(v, u) ==
  \E r \in Requests : /\ req[r].op = "removeMemberCounted"
                      /\ req[r].vault = v
                      /\ req[r].target = u

Active(S) == \A u \in S : account[u] = "active"

Init ==
  /\ account = [u \in Users |-> "unborn"]
  /\ vault = [v \in Vaults |-> "unborn"]
  /\ owner = [v \in Vaults |-> NoUser]
  /\ kind = [v \in Vaults |-> "personal"]
  /\ access = [v \in Vaults |-> [u \in Users |-> "none"]]
  /\ invite = [i \in Invites |-> [status |-> "unborn", vault |-> NoVault,
                                  lapsed |-> FALSE]]
  /\ req = [r \in Requests |-> Idle]
  /\ bumped = {}

------------------------------------------------------------------------
(* Row-level effects the handlers share.                                   *)

\* (variant) The two role-like columns swapped in the INSERTs.
SwappedColumns(v, u) ==
  /\ vault' = [vault EXCEPT ![v] = "live"]
  /\ owner' = [owner EXCEPT ![v] = u]
  /\ kind' = [kind EXCEPT ![v] = "owner"]
  /\ access' = [access EXCEPT ![v][u] = "personal"]

\* InsertVault and InsertVaultAccess, as CreateVaultAPI and RegisterAPI
\* run them: a personal vault and its owner's access row.
InsertVault(v, u) ==
  /\ vault' = [vault EXCEPT ![v] = "live"]
  /\ owner' = [owner EXCEPT ![v] = u]
  /\ kind' = [kind EXCEPT ![v] = "personal"]
  /\ access' = [access EXCEPT ![v][u] = "owner"]

\* The schema's ON DELETE CASCADE from vault3_vault: the access rows and the
\* invites go with the vaults in S; the users in G lose their rows elsewhere.
CascadeRows(S, G) ==
  /\ vault' = [v \in Vaults |-> IF v \in S THEN "deleted" ELSE vault[v]]
  /\ access' = [v \in Vaults |-> [u \in Users |->
                  IF v \in S \/ u \in G THEN "none" ELSE access[v][u]]]
  /\ invite' = [i \in Invites |->
                  IF invite[i].vault \in S
                    THEN [invite[i] EXCEPT !.status = "deleted"]
                    ELSE invite[i]]
  /\ UNCHANGED <<owner, kind>>

Begin(r, record) ==
  /\ req[r] = Idle
  /\ req' = [req EXCEPT ![r] = record]
  /\ bumped' = {}
  /\ UNCHANGED <<account, vault, owner, kind, access, invite>>

Finish(r) == req' = [req EXCEPT ![r] = Idle]

------------------------------------------------------------------------
(* Accounts.                                                               *)

\* RegisterAPI: the account and its first vault in one transaction.
Register(u, v) ==
  /\ account[u] = "unborn"
  /\ vault[v] = "unborn"
  /\ account' = [account EXCEPT ![u] = "active"]
  /\ InsertVault(v, u)
  /\ bumped' = {}
  /\ UNCHANGED <<invite, req>>

\* DeleteAccountAPI, once the master password was re-checked.
BeginDeleteAccount(r, u) ==
  /\ account[u] = "active"
  /\ Begin(r, [Idle EXCEPT !.op = "deleteAccount", !.user = u])

\* DeleteUser: one statement and its cascades.  It waits for a removal that
\* holds one of the rows it cascades to.
CommitDeleteAccount(r) ==
  LET u == req[r].user
      owned == {v \in Vaults : vault[v] = "live" /\ owner[v] = u}
  IN /\ req[r].op = "deleteAccount"
     /\ account[u] = "active"
     /\ \A v \in Vaults, t \in Users :
          (v \in owned \/ t = u) => ~RowLocked(v, t)
     /\ account' = [account EXCEPT ![u] = "deleted"]
     /\ CascadeRows(owned, {u})
     /\ bumped' = {}
     /\ Finish(r)

------------------------------------------------------------------------
(* Creating and deleting vaults.                                           *)

BeginCreateVault(r, u) ==
  /\ account[u] = "active"
  /\ Cardinality(VaultsOf(u)) < MaxVaultsPerUser
  /\ Begin(r, [Idle EXCEPT !.op = "createVault", !.user = u])

CommitCreateVault(r, v) ==
  /\ req[r].op = "createVault"
  /\ account[req[r].user] = "active"
  /\ vault[v] = "unborn"
  /\ InsertVault(v, req[r].user)
  /\ bumped' = {req[r].user}
  /\ Finish(r)
  /\ UNCHANGED <<account, invite>>

\* (variant) The last-vault check off by one.
DeleteAnyVault(r, u, v) ==
  /\ account[u] = "active"
  /\ access[v][u] = "owner"
  /\ Cardinality(VaultsOf(u)) >= 1
  /\ Begin(r, [Idle EXCEPT !.op = "deleteVault", !.user = u, !.vault = v,
                           !.audience = Members(v)])

\* The owner check, the last-vault check and the audience are all read here.
BeginDeleteVault(r, u, v) ==
  /\ account[u] = "active"
  /\ access[v][u] = "owner"
  /\ Cardinality(VaultsOf(u)) > 1
  /\ Begin(r, [Idle EXCEPT !.op = "deleteVault", !.user = u, !.vault = v,
                           !.audience = Members(v)])

\* A user of the audience who is gone makes the bump fail and the whole
\* transaction roll back: the request can then only be abandoned.
CommitDeleteVault(r) ==
  /\ req[r].op = "deleteVault"
  /\ vault[req[r].vault] = "live"
  /\ \A t \in Users : ~RowLocked(req[r].vault, t)
  /\ Active(req[r].audience)
  /\ CascadeRows({req[r].vault}, {})
  /\ bumped' = req[r].audience
  /\ Finish(r)
  /\ UNCHANGED account

------------------------------------------------------------------------
(* Invites.                                                                *)

BeginCreateInvite(r, u, v) ==
  /\ account[u] = "active"
  /\ access[v][u] = "owner"
  /\ Cardinality(Members(v)) < MaxMembersPerVault
  /\ Cardinality(LiveInvites(v)) < MaxActiveInvitesPerVault
  /\ Begin(r, [Idle EXCEPT !.op = "createInvite", !.user = u, !.vault = v])

CommitCreateInvite(r, i) ==
  /\ req[r].op = "createInvite"
  /\ vault[req[r].vault] = "live"
  /\ account[req[r].user] = "active"
  /\ invite[i].status = "unborn"
  /\ invite' = [invite EXCEPT ![i] = [status |-> "pending",
                                      vault |-> req[r].vault,
                                      lapsed |-> FALSE]]
  /\ bumped' = {}
  /\ Finish(r)
  /\ UNCHANGED <<account, vault, owner, kind, access>>

BeginRevokeInvite(r, u, i) ==
  /\ account[u] = "active"
  /\ i \in InviteRows
  /\ access[invite[i].vault][u] = "owner"
  /\ Begin(r, [Idle EXCEPT !.op = "revokeInvite", !.user = u, !.invite = i])

\* (variant) The revoke's UPDATE without its AcceptedAt IS NULL.
RevokeAnyway(r) ==
  /\ req[r].op = "revokeInvite"
  /\ invite' = [i \in Invites |->
                  IF i = req[r].invite /\ i \in InviteRows
                    THEN [invite[i] EXCEPT !.status = "revoked"]
                    ELSE invite[i]]
  /\ bumped' = {}
  /\ Finish(r)
  /\ UNCHANGED <<account, vault, owner, kind, access>>

\* Idempotent: an invite already accepted, revoked or gone is left alone.
CommitRevokeInvite(r) ==
  /\ req[r].op = "revokeInvite"
  /\ invite' = [i \in Invites |->
                  IF i = req[r].invite /\ invite[i].status = "pending"
                    THEN [invite[i] EXCEPT !.status = "revoked"]
                    ELSE invite[i]]
  /\ bumped' = {}
  /\ Finish(r)
  /\ UNCHANGED <<account, vault, owner, kind, access>>

\* (variant) The member limit off by one.
AcceptIntoFullVault(r, u, i) ==
  /\ account[u] = "active"
  /\ InviteIsLive(i)
  /\ access[invite[i].vault][u] = "none"
  /\ Cardinality(VaultsOf(u)) < MaxVaultsPerUser
  /\ Cardinality(Members(invite[i].vault)) <= MaxMembersPerVault
  /\ Begin(r, [Idle EXCEPT !.op = "acceptInvite", !.user = u, !.invite = i,
                           !.vault = invite[i].vault])

BeginAcceptInvite(r, u, i) ==
  /\ account[u] = "active"
  /\ InviteIsLive(i)
  /\ access[invite[i].vault][u] = "none"
  /\ Cardinality(VaultsOf(u)) < MaxVaultsPerUser
  /\ Cardinality(Members(invite[i].vault)) < MaxMembersPerVault
  /\ Begin(r, [Idle EXCEPT !.op = "acceptInvite", !.user = u, !.invite = i,
                           !.vault = invite[i].vault])

\* (variant) The claim trusts the pre-check and updates by token alone.
ClaimByTokenAlone(r) ==
  LET u == req[r].user
      v == req[r].vault
      i == req[r].invite
  IN /\ req[r].op = "acceptInvite"
     /\ i \in InviteRows
     /\ account[u] = "active"
     /\ access[v][u] = "none"
     /\ invite' = [invite EXCEPT ![i].status = "accepted"]
     /\ access' = [access EXCEPT ![v][u] = "member"]
     /\ kind' = [kind EXCEPT ![v] = "shared"]
     /\ bumped' = Members(v) \cup {u}
     /\ Finish(r)
     /\ UNCHANGED <<account, vault, owner>>

\* (variant) The kind is not flipped when somebody joins.
JoinWithoutKind(r) ==
  LET u == req[r].user
      v == req[r].vault
      i == req[r].invite
  IN /\ req[r].op = "acceptInvite"
     /\ InviteIsLive(i)
     /\ account[u] = "active"
     /\ access[v][u] = "none"
     /\ invite' = [invite EXCEPT ![i].status = "accepted"]
     /\ access' = [access EXCEPT ![v][u] = "member"]
     /\ bumped' = Members(v) \cup {u}
     /\ Finish(r)
     /\ UNCHANGED <<account, vault, owner, kind>>

\* The claim's WHERE clause, then the unique (vault, user) row, then the kind;
\* the audience is resolved after the mutation, so it includes the acceptor.
CommitAcceptInvite(r) ==
  LET u == req[r].user
      v == req[r].vault
      i == req[r].invite
  IN /\ req[r].op = "acceptInvite"
     /\ InviteIsLive(i)
     /\ account[u] = "active"
     /\ access[v][u] = "none"
     /\ invite' = [invite EXCEPT ![i].status = "accepted"]
     /\ access' = [access EXCEPT ![v][u] = "member"]
     /\ kind' = [kind EXCEPT ![v] = "shared"]
     /\ bumped' = Members(v) \cup {u}
     /\ Finish(r)
     /\ UNCHANGED <<account, vault, owner>>

\* Time passing, and PurgeLapsedVaultInvites once the grace period is over.
LapseInvite(i) ==
  /\ InviteIsLive(i)
  /\ invite' = [invite EXCEPT ![i].lapsed = TRUE]
  /\ bumped' = {}
  /\ UNCHANGED <<account, vault, owner, kind, access, req>>

PurgeInvite(i) ==
  /\ i \in InviteRows
  /\ ~InviteIsLive(i)
  /\ invite' = [invite EXCEPT ![i].status = "deleted"]
  /\ bumped' = {}
  /\ UNCHANGED <<account, vault, owner, kind, access, req>>

------------------------------------------------------------------------
(* Removing a member, or leaving.                                          *)

\* (variant) The refusal to remove the owner is missing.
RemoveAnyone(r, u, v, t) ==
  /\ account[u] = "active"
  /\ access[v][u] # "none"
  /\ t = u \/ access[v][u] = "owner"
  /\ access[v][t] # "none"
  /\ Begin(r, [Idle EXCEPT !.op = "removeMember", !.user = u, !.vault = v,
                           !.target = t, !.audience = Members(v)])

BeginRemoveMember(r, u, v, t) ==
  /\ account[u] = "active"
  /\ access[v][u] # "none"
  /\ t = u \/ access[v][u] = "owner"
  /\ access[v][t] = "member"
  /\ Begin(r, [Idle EXCEPT !.op = "removeMember", !.user = u, !.vault = v,
                           !.target = t, !.audience = Members(v)])

\* Inside the transaction: DELETE the row (locked, not yet visible to anyone
\* else) and count the rows that this statement's snapshot still shows.
CountAfterRemove(r) ==
  LET v == req[r].vault
      t == req[r].target
  IN /\ req[r].op = "removeMember"
     /\ access[v][t] # "none"
     /\ ~RowLocked(v, t)
     /\ req' = [req EXCEPT ![r] =
                  [@ EXCEPT !.op = "removeMemberCounted",
                            !.alone = Cardinality(Members(v) \ {t}) <= 1]]
     /\ bumped' = {}
     /\ UNCHANGED <<account, vault, owner, kind, access, invite>>

\* (variant) The audience is resolved after the removal, as for other changes.
RemoveTellingTheRest(r) ==
  LET v == req[r].vault
      t == req[r].target
  IN /\ req[r].op = "removeMemberCounted"
     /\ Active(req[r].audience)
     /\ access' = [access EXCEPT ![v][t] = "none"]
     /\ kind' = [kind EXCEPT ![v] = IF req[r].alone THEN "personal" ELSE @]
     /\ bumped' = Members(v) \ {t}
     /\ Finish(r)
     /\ UNCHANGED <<account, vault, owner, invite>>

CommitRemoveMember(r) ==
  LET v == req[r].vault
      t == req[r].target
  IN /\ req[r].op = "removeMemberCounted"
     /\ Active(req[r].audience)
     /\ access' = [access EXCEPT ![v][t] = "none"]
     /\ kind' = [kind EXCEPT ![v] = IF req[r].alone THEN "personal" ELSE @]
     /\ bumped' = req[r].audience
     /\ Finish(r)
     /\ UNCHANGED <<account, vault, owner, invite>>

------------------------------------------------------------------------
\* A refused or rolled-back transaction, a cancelled request context or a
\* crash of the server: nothing of the request is left.
Abandon(r) ==
  /\ req[r].op # "idle"
  /\ Finish(r)
  /\ bumped' = {}
  /\ UNCHANGED <<account, vault, owner, kind, access, invite>>

Next ==
  \/ \E u \in Users, v \in Vaults : Register(u, v)
  \/ \E r \in Requests :
       \/ \E u \in Users : BeginDeleteAccount(r, u)
       \/ CommitDeleteAccount(r)
       \/ \E u \in Users : BeginCreateVault(r, u)
       \/ \E v \in Vaults : CommitCreateVault(r, v)
       \/ \E u \in Users, v \in Vaults : BeginDeleteVault(r, u, v)
       \/ CommitDeleteVault(r)
       \/ \E u \in Users, v \in Vaults : BeginCreateInvite(r, u, v)
       \/ \E i \in Invites : CommitCreateInvite(r, i)
       \/ \E u \in Users, i \in Invites : BeginRevokeInvite(r, u, i)
       \/ CommitRevokeInvite(r)
       \/ \E u \in Users, i \in Invites : BeginAcceptInvite(r, u, i)
       \/ CommitAcceptInvite(r)
       \/ \E u, t \in Users, v \in Vaults : BeginRemoveMember(r, u, v, t)
       \/ CountAfterRemove(r)
       \/ CommitRemoveMember(r)
       \/ Abandon(r)
  \/ \E i \in Invites : LapseInvite(i) \/ PurgeInvite(i)

Spec == Init /\ [][Next]_vars

------------------------------------------------------------------------
(* Properties of every instance.                                           *)

\* Type correctness of the four tables and of what requests in flight carry.
TypeOK ==
  /\ account \in [Users -> {"unborn", "active", "deleted"}]
  /\ vault \in [Vaults -> {"unborn", "live", "deleted"}]
  /\ owner \in [Vaults -> Users \cup {NoUser}]
  /\ kind \in [Vaults -> {"personal", "shared"}]
  /\ access \in [Vaults -> [Users -> Role]]
  /\ invite \in [Invites -> Invite]
  /\ req \in [Requests -> Request]
  /\ bumped \subseteq Users

\* A live vault has exactly one owner row, that of the active account its
\* OwnerUserID names, and a vault that is not live has no row at all: whatever
\* removals, account deletions, accepts and vault deletes overlap, nobody is
\* left holding a vault nobody owns (the write gate of every vault handler is
\* the owner role), and a deleted account reaches nothing.
EveryVaultHasItsOwner ==
  /\ \A v \in Vaults, u \in Users :
       (access[v][u] = "owner") <=> (vault[v] = "live" /\ owner[v] = u)
  /\ \A v \in Vaults : vault[v] = "live" => owner[v] \in Users
  /\ \A v \in Vaults, u \in Users :
       access[v][u] # "none" => vault[v] = "live" /\ account[u] = "active"

\* An invite is settled once: after it was accepted, revoked or had lapsed it
\* never becomes acceptable or accepted again, so an accept that passed its
\* pre-checks before a revoke (or a second accept) committed gains nothing.
SettledInviteStaysSettled ==
  [][\A i \in Invites :
       /\ invite[i].status \in {"accepted", "revoked", "deleted"}
            => invite'[i].status \in {invite[i].status, "deleted"}
       /\ invite[i].lapsed => invite'[i].status # "accepted" \/
                              invite[i].status = "accepted"]_vars

\* One claim, one member: a step that makes someone a member settles exactly
\* one invite, which was live and names that vault, and a step that settles
\* an invite as accepted makes exactly one member row.  A claim whose access
\* insert fails must not burn the invite, and no accept joins without a claim.
OneMemberPerClaim ==
  [][LET joined == {p \in Vaults \X Users :
                      access[p[1]][p[2]] = "none" /\ access'[p[1]][p[2]] = "member"}
         claimed == {i \in Invites :
                      invite[i].status # "accepted" /\ invite'[i].status = "accepted"}
     IN /\ Cardinality(joined) = Cardinality(claimed)
        /\ Cardinality(claimed) <= 1
        /\ \A p \in joined, i \in claimed :
             InviteIsLive(i) /\ invite[i].vault = p[1]]_vars

------------------------------------------------------------------------
(* What the code's comments promise; they hold only while requests do not  *)
(* overlap (Cardinality(Requests) = 1), see the runs.                      *)

\* config/constants.go: MaxMembersPerVault bounds access rows per vault.
MemberCap ==
  \A v \in Vaults : Cardinality(Members(v)) <= MaxMembersPerVault

\* A vault stored as 'personal' is reachable by its owner alone (UpdateVaultKind:
\* the stored kind always reflects reality), so the client never shows a
\* shared vault as a private one.
PersonalVaultIsPrivate ==
  \A v \in Vaults : vault[v] = "live" /\ kind[v] = "personal"
                      => Members(v) = {owner[v]}

\* DeleteVaultAPI is forbidden on the account's last vault: deleting a vault
\* never leaves the owner who asked for it without any.
DeleteKeepsALastVault ==
  [][\A r \in Requests :
       req[r].op = "deleteVault" /\ vault[req[r].vault] = "live"
         /\ vault'[req[r].vault] = "deleted" /\ account'[req[r].user] = "active"
       => \E v \in Vaults : access'[v][req[r].user] # "none"]_vars

\* A mutation in a shared vault must reach every member's devices, not just
\* the actor's: a step that takes a vault away from a user bumps that user's
\* revision, although it also removes the row that named them.  The exception is
\* the owner's account going with all its vaults: DeleteAccountAPI signals nobody.
LossIsSignalled ==
  [][\A v \in Vaults, u \in Users :
       (access[v][u] # "none" /\ access'[v][u] = "none"
          /\ account'[u] = "active" /\ account'[owner[v]] = "active")
         => u \in bumped']_vars
============================================================================
