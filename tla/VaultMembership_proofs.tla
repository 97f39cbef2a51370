----------------------- MODULE VaultMembership_proofs -----------------------
(***************************************************************************)
(* Proofs about VaultMembership, for every set of users, vaults, invites   *)
(* and request slots and every limit.                                      *)
(***************************************************************************)
EXTENDS VaultMembership, FiniteSetTheorems, TLAPS

------------------------------------------------------------------------
(* The inductive invariant.  EveryVaultHasItsOwner is not inductive alone: *)
(* a removal that commits deletes whatever row its request names, so one   *)
(* must know that the request names a row that is not the owner's, which   *)
(* was established at Begin and stays true because a vault never changes   *)
(* owner.  Likewise an accept inserts a row into the vault its request     *)
(* names, so one must know that this is the invite's vault, and that the   *)
(* vault of a row in the invite table is live.                             *)

Removal == {"removeMember", "removeMemberCounted"}

InviteRowsHaveAVault ==
  \A i \in InviteRows : /\ invite[i].vault \in Vaults
                        /\ vault[invite[i].vault] = "live"

Addressed(q) ==
  /\ q.op # "idle" => q.user \in Users
  /\ q.op \in Removal \cup {"deleteVault", "createInvite", "acceptInvite"}
       => q.vault \in Vaults
  /\ q.op = "acceptInvite"
       => /\ q.invite \in Invites
          /\ invite[q.invite].status # "unborn"
          /\ invite[q.invite].vault = q.vault
  /\ q.op \in Removal
       => /\ q.target \in Users
          /\ vault[q.vault] # "unborn"
          /\ owner[q.vault] # q.target

RequestsAreAddressed == \A r \in Requests : Addressed(req[r])

IInv ==
  /\ TypeOK
  /\ EveryVaultHasItsOwner
  /\ InviteRowsHaveAVault
  /\ RequestsAreAddressed

------------------------------------------------------------------------
(* Type correctness.                                                       *)

\* A free slot is a well-typed, addressed request.
LEMMA IdleIsARequest == Idle \in Request /\ Addressed(Idle)
  BY DEF Idle, Request, Op, Addressed, Removal

\* What the Begin steps have in common: they write one well-typed request.
LEMMA BeginType ==
  ASSUME TypeOK, NEW r \in Requests, NEW q \in Request, Begin(r, q)
  PROVE  TypeOK'
  BY DEF TypeOK, Begin

\* Freeing a slot leaves well-typed requests.
LEMMA FinishType ==
  ASSUME TypeOK, NEW r \in Requests, Finish(r)
  PROVE  req' \in [Requests -> Request]
  BY IdleIsARequest DEF TypeOK, Finish

\* The schema's cascades keep the tables well typed.
LEMMA CascadeType ==
  ASSUME TypeOK, NEW S, NEW G, CascadeRows(S, G)
  PROVE  /\ vault' \in [Vaults -> {"unborn", "live", "deleted"}]
         /\ owner' \in [Vaults -> Users \cup {NoUser}]
         /\ kind' \in [Vaults -> {"personal", "shared"}]
         /\ access' \in [Vaults -> [Users -> Role]]
         /\ invite' \in [Invites -> Invite]
<1>1. invite' \in [Invites -> Invite]
  <2>1. \A i \in Invites : [invite[i] EXCEPT !.status = "deleted"] \in Invite
    BY DEF TypeOK, Invite, InviteStatus
  <2>2. QED
    BY <2>1 DEF TypeOK, CascadeRows
<1>2. access' \in [Vaults -> [Users -> Role]]
  <2>1. \A v \in Vaults, u \in Users : access[v][u] \in Role /\ "none" \in Role
    BY DEF TypeOK, Role
  <2>2. \A v \in Vaults : access'[v] \in [Users -> Role]
    BY <2>1 DEF CascadeRows
  <2>3. QED
    BY <2>2 DEF CascadeRows
<1>3. QED
  BY <1>1, <1>2 DEF TypeOK, CascadeRows

\* So does minting a vault.
LEMMA InsertVaultType ==
  ASSUME TypeOK, NEW v \in Vaults, NEW u \in Users, InsertVault(v, u)
  PROVE  /\ vault' \in [Vaults -> {"unborn", "live", "deleted"}]
         /\ owner' \in [Vaults -> Users \cup {NoUser}]
         /\ kind' \in [Vaults -> {"personal", "shared"}]
         /\ access' \in [Vaults -> [Users -> Role]]
  BY DEF TypeOK, InsertVault, Role

\* Revoking an invite keeps the state typed.
LEMMA CommitRevokeType ==
  ASSUME TypeOK, NEW r \in Requests, CommitRevokeInvite(r)
  PROVE  TypeOK'
<1>1. \A i \in Invites : [invite[i] EXCEPT !.status = "revoked"] \in Invite
  BY DEF TypeOK, Invite, InviteStatus
<1>2. invite' \in [Invites -> Invite]
  BY <1>1 DEF TypeOK, CommitRevokeInvite
<1>3. QED
  BY <1>2, FinishType DEF TypeOK, CommitRevokeInvite

\* Accepting an invite does, because the request names a user, a vault
\* and an invite.
LEMMA CommitAcceptType ==
  ASSUME TypeOK, RequestsAreAddressed, NEW r \in Requests, CommitAcceptInvite(r)
  PROVE  TypeOK'
<1>1. /\ req[r].user \in Users
      /\ req[r].vault \in Vaults
      /\ req[r].invite \in Invites
  BY DEF RequestsAreAddressed, Addressed, CommitAcceptInvite
<1>2. invite' \in [Invites -> Invite]
  BY <1>1 DEF TypeOK, CommitAcceptInvite, Invite, InviteStatus
<1>3. access' \in [Vaults -> [Users -> Role]]
  BY <1>1 DEF TypeOK, CommitAcceptInvite, Role
<1>4. QED
  BY <1>1, <1>2, <1>3, FinishType DEF TypeOK, CommitAcceptInvite, Members

\* Counting the rows left does.
LEMMA CountAfterRemoveType ==
  ASSUME TypeOK, NEW r \in Requests, CountAfterRemove(r)
  PROVE  TypeOK'
<1>1. \A b \in BOOLEAN :
        [req[r] EXCEPT !.op = "removeMemberCounted", !.alone = b] \in Request
  <2>1. req[r] \in Request
    BY DEF TypeOK
  <2>2. /\ [req[r] EXCEPT !.op = "removeMemberCounted", !.alone = TRUE] \in Request
        /\ [req[r] EXCEPT !.op = "removeMemberCounted", !.alone = FALSE] \in Request
    BY <2>1 DEF Request, Op
  <2>3. QED
    BY <2>2
<1>2. (Cardinality(Members(req[r].vault) \ {req[r].target}) <= 1) \in BOOLEAN
  OBVIOUS
<1>3. req' \in [Requests -> Request]
  BY <1>1, <1>2 DEF TypeOK, CountAfterRemove
<1>4. QED
  BY <1>3 DEF TypeOK, CountAfterRemove

\* Committing a removal does.
LEMMA CommitRemoveType ==
  ASSUME TypeOK, RequestsAreAddressed, NEW r \in Requests, CommitRemoveMember(r)
  PROVE  TypeOK'
<1>1. req[r].vault \in Vaults /\ req[r].target \in Users
  BY DEF RequestsAreAddressed, Addressed, CommitRemoveMember, Removal
<1>2. access' \in [Vaults -> [Users -> Role]]
  BY <1>1 DEF TypeOK, CommitRemoveMember, Role
<1>3. kind' \in [Vaults -> {"personal", "shared"}]
  BY <1>1 DEF TypeOK, CommitRemoveMember
<1>4. req[r].audience \subseteq Users
  BY DEF TypeOK, Request
<1>5. QED
  BY <1>2, <1>3, <1>4, FinishType DEF TypeOK, CommitRemoveMember

\* A step of a typed state leads to a typed state.
LEMMA NextType == TypeOK /\ RequestsAreAddressed /\ [Next]_vars => TypeOK'
<1> SUFFICES ASSUME TypeOK, RequestsAreAddressed, [Next]_vars
             PROVE  TypeOK'
  OBVIOUS
<1>1. ASSUME NEW u \in Users, NEW v \in Vaults, Register(u, v)
      PROVE  TypeOK'
  BY <1>1, InsertVaultType DEF TypeOK, Register
<1>2. ASSUME NEW r \in Requests, NEW u \in Users, BeginDeleteAccount(r, u)
      PROVE  TypeOK'
  <2>1. [Idle EXCEPT !.op = "deleteAccount", !.user = u] \in Request
    BY DEF Idle, Request, Op
  <2>2. QED
    BY <1>2, <2>1, BeginType DEF BeginDeleteAccount
<1>3. ASSUME NEW r \in Requests, CommitDeleteAccount(r)
      PROVE  TypeOK'
  <2>1. req[r].user \in Users
    BY <1>3 DEF CommitDeleteAccount, RequestsAreAddressed, Addressed
  <2>2. CascadeRows({v \in Vaults : vault[v] = "live" /\ owner[v] = req[r].user},
                    {req[r].user})
    BY <1>3 DEF CommitDeleteAccount
  <2>3. account' \in [Users -> {"unborn", "active", "deleted"}]
    BY <1>3, <2>1 DEF CommitDeleteAccount, TypeOK
  <2>4. QED
    BY <1>3, <2>2, <2>3, CascadeType, FinishType DEF CommitDeleteAccount, TypeOK
<1>4. ASSUME NEW r \in Requests, NEW u \in Users, BeginCreateVault(r, u)
      PROVE  TypeOK'
  <2>1. [Idle EXCEPT !.op = "createVault", !.user = u] \in Request
    BY DEF Idle, Request, Op
  <2>2. QED
    BY <1>4, <2>1, BeginType DEF BeginCreateVault
<1>5. ASSUME NEW r \in Requests, NEW v \in Vaults, CommitCreateVault(r, v)
      PROVE  TypeOK'
  <2>1. req[r].user \in Users
    BY <1>5 DEF CommitCreateVault, RequestsAreAddressed, Addressed
  <2>2. QED
    BY <1>5, <2>1, InsertVaultType, FinishType DEF CommitCreateVault, TypeOK
<1>6. ASSUME NEW r \in Requests, NEW u \in Users, NEW v \in Vaults,
             BeginDeleteVault(r, u, v)
      PROVE  TypeOK'
  <2>1. [Idle EXCEPT !.op = "deleteVault", !.user = u, !.vault = v,
                     !.audience = Members(v)] \in Request
    BY DEF Idle, Request, Op, Members
  <2>2. QED
    BY <1>6, <2>1, BeginType DEF BeginDeleteVault
<1>7. ASSUME NEW r \in Requests, CommitDeleteVault(r)
      PROVE  TypeOK'
  <2>1. req[r].audience \subseteq Users
    BY DEF TypeOK, Request
  <2>2. QED
    BY <1>7, <2>1, CascadeType, FinishType DEF CommitDeleteVault, TypeOK
<1>8. ASSUME NEW r \in Requests, NEW u \in Users, NEW v \in Vaults,
             BeginCreateInvite(r, u, v)
      PROVE  TypeOK'
  <2>1. [Idle EXCEPT !.op = "createInvite", !.user = u, !.vault = v] \in Request
    BY DEF Idle, Request, Op
  <2>2. QED
    BY <1>8, <2>1, BeginType DEF BeginCreateInvite
<1>9. ASSUME NEW r \in Requests, NEW i \in Invites, CommitCreateInvite(r, i)
      PROVE  TypeOK'
  <2>1. req[r].vault \in Vaults
    BY <1>9 DEF CommitCreateInvite, RequestsAreAddressed, Addressed
  <2>2. QED
    BY <1>9, <2>1, FinishType
    DEF CommitCreateInvite, TypeOK, Invite, InviteStatus
<1>10. ASSUME NEW r \in Requests, NEW u \in Users, NEW i \in Invites,
              BeginRevokeInvite(r, u, i)
       PROVE  TypeOK'
  <2>1. [Idle EXCEPT !.op = "revokeInvite", !.user = u, !.invite = i] \in Request
    BY DEF Idle, Request, Op
  <2>2. QED
    BY <1>10, <2>1, BeginType DEF BeginRevokeInvite
<1>11. ASSUME NEW r \in Requests, NEW u \in Users, NEW i \in Invites,
              BeginAcceptInvite(r, u, i)
       PROVE  TypeOK'
  <2>1. invite[i].vault \in Vaults \cup {NoVault}
    BY DEF TypeOK, Invite
  <2>2. [Idle EXCEPT !.op = "acceptInvite", !.user = u, !.invite = i,
                     !.vault = invite[i].vault] \in Request
    BY <2>1 DEF Idle, Request, Op
  <2>3. QED
    BY <1>11, <2>2, BeginType DEF BeginAcceptInvite
<1>12. ASSUME NEW r \in Requests, NEW u \in Users, NEW t \in Users,
              NEW v \in Vaults, BeginRemoveMember(r, u, v, t)
       PROVE  TypeOK'
  <2>1. [Idle EXCEPT !.op = "removeMember", !.user = u, !.vault = v,
                     !.target = t, !.audience = Members(v)] \in Request
    BY DEF Idle, Request, Op, Members
  <2>2. QED
    BY <1>12, <2>1, BeginType DEF BeginRemoveMember
<1>13. ASSUME NEW r \in Requests, Abandon(r)
       PROVE  TypeOK'
  BY <1>13, FinishType DEF Abandon, TypeOK
<1>14. ASSUME NEW i \in Invites, LapseInvite(i) \/ PurgeInvite(i)
       PROVE  TypeOK'
  <2>1. /\ [invite[i] EXCEPT !.lapsed = TRUE] \in Invite
        /\ [invite[i] EXCEPT !.status = "deleted"] \in Invite
    BY DEF TypeOK, Invite, InviteStatus
  <2>2. invite' \in [Invites -> Invite]
    BY <1>14, <2>1 DEF LapseInvite, PurgeInvite, TypeOK
  <2>3. QED
    BY <1>14, <2>2 DEF LapseInvite, PurgeInvite, TypeOK
<1>15. CASE UNCHANGED vars
  BY <1>15 DEF vars, TypeOK
<1>16. QED
  BY <1>1, <1>2, <1>3, <1>4, <1>5, <1>6, <1>7, <1>8, <1>9, <1>10, <1>11,
     <1>12, <1>13, <1>14, <1>15, CommitRevokeType, CommitAcceptType,
     CountAfterRemoveType, CommitRemoveType
  DEF Next

------------------------------------------------------------------------
(* Requests in flight stay addressed.                                      *)

\* Rows keep their identity: a vault id is never minted twice and never
\* changes owner, an invite never changes vault.
RowsKeepIdentity ==
  /\ \A v \in Vaults : vault[v] # "unborn"
       => vault'[v] # "unborn" /\ owner'[v] = owner[v]
  /\ \A i \in Invites : invite[i].status # "unborn"
       => invite'[i].status # "unborn" /\ invite'[i].vault = invite[i].vault

\* A step that only moves statuses forward keeps identities.
LEMMA IdentityFromStatus ==
  ASSUME UNCHANGED <<vault, owner>>,
         \A i \in Invites :
           /\ invite'[i].vault = invite[i].vault
           /\ invite[i].status # "unborn" => invite'[i].status # "unborn"
  PROVE  RowsKeepIdentity
  BY DEF RowsKeepIdentity

\* Every step keeps identities.
LEMMA NextKeepsIdentity ==
  TypeOK /\ RequestsAreAddressed /\ [Next]_vars => RowsKeepIdentity
<1> SUFFICES ASSUME TypeOK, RequestsAreAddressed, [Next]_vars
             PROVE  RowsKeepIdentity
  OBVIOUS
<1>0. \A i \in Invites : invite[i] \in Invite
  BY DEF TypeOK
<1>1. ASSUME NEW v \in Vaults, NEW u, vault[v] = "unborn", InsertVault(v, u),
             UNCHANGED invite
      PROVE  RowsKeepIdentity
  BY <1>1 DEF InsertVault, RowsKeepIdentity, TypeOK
<1>2. ASSUME NEW S, NEW G, CascadeRows(S, G)
      PROVE  RowsKeepIdentity
  BY <1>0, <1>2 DEF CascadeRows, RowsKeepIdentity, Invite
<1>3. ASSUME UNCHANGED <<vault, owner, invite>>
      PROVE  RowsKeepIdentity
  BY <1>3 DEF RowsKeepIdentity
<1>4. ASSUME NEW r \in Requests, NEW i \in Invites, CommitCreateInvite(r, i)
      PROVE  RowsKeepIdentity
  BY <1>4 DEF CommitCreateInvite, RowsKeepIdentity, TypeOK
<1>5. ASSUME NEW r \in Requests, CommitRevokeInvite(r)
      PROVE  RowsKeepIdentity
  BY <1>0, <1>5 DEF CommitRevokeInvite, RowsKeepIdentity, Invite
<1>6. ASSUME NEW r \in Requests, CommitAcceptInvite(r)
      PROVE  RowsKeepIdentity
  <2>1. req[r].invite \in Invites
    BY <1>6 DEF CommitAcceptInvite, RequestsAreAddressed, Addressed
  <2>2. \A i \in Invites :
          /\ invite'[i].vault = invite[i].vault
          /\ invite[i].status # "unborn" => invite'[i].status # "unborn"
    BY <1>0, <1>6, <2>1 DEF CommitAcceptInvite, Invite, TypeOK
  <2>3. QED
    BY <1>6, <2>2, IdentityFromStatus DEF CommitAcceptInvite
<1>7. ASSUME NEW i \in Invites, LapseInvite(i) \/ PurgeInvite(i)
      PROVE  RowsKeepIdentity
  <2>1. \A j \in Invites :
          /\ invite'[j].vault = invite[j].vault
          /\ invite[j].status # "unborn" => invite'[j].status # "unborn"
    <3>1. CASE LapseInvite(i)
      BY <1>0, <3>1 DEF LapseInvite, Invite, TypeOK
    <3>2. CASE PurgeInvite(i)
      BY <1>0, <3>2 DEF PurgeInvite, Invite, TypeOK
    <3>3. QED
      BY <1>7, <3>1, <3>2
  <2>2. QED
    BY <1>7, <2>1, IdentityFromStatus DEF LapseInvite, PurgeInvite
<1>8. CASE \E u \in Users, v \in Vaults : Register(u, v)
  BY <1>1, <1>8 DEF Register
<1>9. CASE \E i \in Invites : LapseInvite(i) \/ PurgeInvite(i)
  BY <1>7, <1>9
<1>10. ASSUME NEW r \in Requests,
              \/ CommitDeleteAccount(r)
              \/ \E v \in Vaults : CommitCreateVault(r, v)
              \/ CommitDeleteVault(r)
       PROVE  RowsKeepIdentity
  BY <1>1, <1>2, <1>10
  DEF CommitDeleteAccount, CommitCreateVault, CommitDeleteVault
<1>11. ASSUME NEW r \in Requests,
              \/ CountAfterRemove(r)
              \/ CommitRemoveMember(r)
              \/ Abandon(r)
       PROVE  RowsKeepIdentity
  BY <1>3, <1>11 DEF CountAfterRemove, CommitRemoveMember, Abandon
<1>12. ASSUME NEW r \in Requests, NEW q, Begin(r, q)
       PROVE  RowsKeepIdentity
  BY <1>3, <1>12 DEF Begin
<1>13. CASE UNCHANGED vars
  BY <1>3, <1>13 DEF vars
<1>14. QED
  BY <1>4, <1>5, <1>6, <1>8, <1>9, <1>10, <1>11, <1>12, <1>13
  DEF Next, BeginDeleteAccount, BeginCreateVault, BeginDeleteVault,
      BeginCreateInvite, BeginRevokeInvite, BeginAcceptInvite,
      BeginRemoveMember

\* What a request knows of the rows it names stays true.
LEMMA AddressedStays ==
  ASSUME NEW q, Addressed(q), RowsKeepIdentity
  PROVE  Addressed(q)'
  BY DEF Addressed, RowsKeepIdentity, Removal

\* A step that leaves every other request alone and makes r addressed.
LEMMA OneRequestMoves ==
  ASSUME TypeOK, RequestsAreAddressed, RowsKeepIdentity,
         NEW r \in Requests, NEW q, Addressed(q),
         req' = [req EXCEPT ![r] = q]
  PROVE  RequestsAreAddressed'
<1>1. Addressed(q)'
  BY AddressedStays
<1>2. ASSUME NEW s \in Requests
      PROVE  Addressed(req[s])'
  <2>1. CASE s = r
    <3>1. req'[s] = q
      BY <2>1 DEF TypeOK
    <3>2. QED
      BY <1>1, <3>1 DEF Addressed
  <2>2. CASE s # r
    <3>1. req'[s] = req[s]
      BY <2>2 DEF TypeOK
    <3>2. Addressed(req[s])
      BY DEF RequestsAreAddressed
    <3>3. QED
      BY <3>1, <3>2 DEF Addressed, RowsKeepIdentity, Removal
  <2>3. QED
    BY <2>1, <2>2
<1>3. QED
  BY <1>2 DEF RequestsAreAddressed

\* Every step leaves the requests in flight addressed.
LEMMA NextAddressed ==
  TypeOK /\ RequestsAreAddressed /\ EveryVaultHasItsOwner
    /\ InviteRowsHaveAVault /\ [Next]_vars
  => RequestsAreAddressed'
<1> SUFFICES ASSUME TypeOK, RequestsAreAddressed, EveryVaultHasItsOwner,
                    InviteRowsHaveAVault, [Next]_vars
             PROVE  RequestsAreAddressed'
  OBVIOUS
<1>1. RowsKeepIdentity
  BY NextKeepsIdentity
<1>2. ASSUME NEW r \in Requests, NEW q, Addressed(q), Begin(r, q)
      PROVE  RequestsAreAddressed'
  BY <1>1, <1>2, OneRequestMoves DEF Begin
<1>3. ASSUME NEW r \in Requests, Finish(r)
      PROVE  RequestsAreAddressed'
  BY <1>1, <1>3, IdleIsARequest, OneRequestMoves DEF Finish
<1>4. ASSUME UNCHANGED req
      PROVE  RequestsAreAddressed'
  <2>1. \A r \in Requests : Addressed(req[r])'
    BY <1>1, <1>4 DEF RequestsAreAddressed, Addressed, RowsKeepIdentity, Removal
  <2>2. QED
    BY <2>1 DEF RequestsAreAddressed
<1>5. ASSUME NEW r \in Requests, NEW u \in Users,
             BeginDeleteAccount(r, u) \/ BeginCreateVault(r, u)
      PROVE  RequestsAreAddressed'
  <2>1. /\ Addressed([Idle EXCEPT !.op = "deleteAccount", !.user = u])
        /\ Addressed([Idle EXCEPT !.op = "createVault", !.user = u])
    BY DEF Idle, Addressed, Removal
  <2>2. QED
    BY <1>2, <1>5, <2>1 DEF BeginDeleteAccount, BeginCreateVault
<1>6. ASSUME NEW r \in Requests, NEW u \in Users, NEW v \in Vaults,
             BeginDeleteVault(r, u, v) \/ BeginCreateInvite(r, u, v)
      PROVE  RequestsAreAddressed'
  <2>1. /\ Addressed([Idle EXCEPT !.op = "deleteVault", !.user = u, !.vault = v,
                                  !.audience = Members(v)])
        /\ Addressed([Idle EXCEPT !.op = "createInvite", !.user = u, !.vault = v])
    BY DEF Idle, Addressed, Removal
  <2>2. QED
    BY <1>2, <1>6, <2>1 DEF BeginDeleteVault, BeginCreateInvite
<1>7. ASSUME NEW r \in Requests, NEW u \in Users, NEW i \in Invites,
             BeginRevokeInvite(r, u, i)
      PROVE  RequestsAreAddressed'
  <2>1. Addressed([Idle EXCEPT !.op = "revokeInvite", !.user = u, !.invite = i])
    BY DEF Idle, Addressed, Removal
  <2>2. QED
    BY <1>2, <1>7, <2>1 DEF BeginRevokeInvite
<1>8. ASSUME NEW r \in Requests, NEW u \in Users, NEW i \in Invites,
             BeginAcceptInvite(r, u, i)
      PROVE  RequestsAreAddressed'
  <2>1. invite[i].status = "pending" /\ invite[i].vault \in Vaults
    BY <1>8 DEF BeginAcceptInvite, InviteIsLive, InviteRowsHaveAVault, InviteRows
  <2>2. Addressed([Idle EXCEPT !.op = "acceptInvite", !.user = u, !.invite = i,
                               !.vault = invite[i].vault])
    BY <2>1 DEF Idle, Addressed, Removal
  <2>3. QED
    BY <1>2, <1>8, <2>2 DEF BeginAcceptInvite
<1>9. ASSUME NEW r \in Requests, NEW u \in Users, NEW t \in Users,
             NEW v \in Vaults, BeginRemoveMember(r, u, v, t)
      PROVE  RequestsAreAddressed'
  <2>1. vault[v] = "live" /\ owner[v] # t
    BY <1>9 DEF BeginRemoveMember, EveryVaultHasItsOwner
  <2>2. Addressed([Idle EXCEPT !.op = "removeMember", !.user = u, !.vault = v,
                               !.target = t, !.audience = Members(v)])
    BY <2>1 DEF Idle, Addressed, Removal
  <2>3. QED
    BY <1>2, <1>9, <2>2 DEF BeginRemoveMember
<1>10. ASSUME NEW r \in Requests, CountAfterRemove(r)
       PROVE  RequestsAreAddressed'
  <2>1. req[r] \in Request /\ Addressed(req[r])
    BY DEF TypeOK, RequestsAreAddressed
  <2>2. PICK b : req' = [req EXCEPT ![r] =
                           [req[r] EXCEPT !.op = "removeMemberCounted", !.alone = b]]
    BY <1>10 DEF CountAfterRemove, TypeOK
  <2>3. Addressed([req[r] EXCEPT !.op = "removeMemberCounted", !.alone = b])
    BY <1>10, <2>1 DEF CountAfterRemove, Addressed, Removal, Request
  <2>4. QED
    BY <1>1, <2>2, <2>3, OneRequestMoves
<1>11. CASE \E u \in Users, v \in Vaults : Register(u, v)
  BY <1>4, <1>11 DEF Register
<1>12. CASE \E i \in Invites : LapseInvite(i) \/ PurgeInvite(i)
  BY <1>4, <1>12 DEF LapseInvite, PurgeInvite
<1>13. CASE UNCHANGED vars
  BY <1>4, <1>13 DEF vars
<1>14. ASSUME NEW r \in Requests,
              \/ CommitDeleteAccount(r)
              \/ \E v \in Vaults : CommitCreateVault(r, v)
              \/ CommitDeleteVault(r)
              \/ \E i \in Invites : CommitCreateInvite(r, i)
              \/ CommitRevokeInvite(r)
              \/ CommitAcceptInvite(r)
              \/ CommitRemoveMember(r)
              \/ Abandon(r)
       PROVE  RequestsAreAddressed'
  BY <1>3, <1>14
  DEF CommitDeleteAccount, CommitCreateVault, CommitDeleteVault,
      CommitCreateInvite, CommitRevokeInvite, CommitAcceptInvite,
      CommitRemoveMember, Abandon
<1>15. QED
  BY <1>5, <1>6, <1>7, <1>8, <1>9, <1>10, <1>11, <1>12, <1>13, <1>14 DEF Next

------------------------------------------------------------------------
(* A row of the invite table has a live vault, and every vault its owner.  *)

\* No step leaves an invite row whose vault is gone.
LEMMA NextInviteRows ==
  IInv /\ [Next]_vars => InviteRowsHaveAVault'
<1> SUFFICES ASSUME IInv, [Next]_vars,
                    NEW i \in Invites, invite'[i].status \notin {"unborn", "deleted"}
             PROVE  invite'[i].vault \in Vaults /\ vault'[invite'[i].vault] = "live"
  BY DEF InviteRowsHaveAVault, InviteRows
<1> USE DEF IInv
<1>0. \A j \in Invites : invite[j] \in Invite
  BY DEF TypeOK
<1>1. ASSUME NEW v \in Vaults, NEW u, vault[v] = "unborn", InsertVault(v, u),
             UNCHANGED invite
      PROVE  invite'[i].vault \in Vaults /\ vault'[invite'[i].vault] = "live"
  BY <1>1 DEF InsertVault, InviteRowsHaveAVault, InviteRows, TypeOK
<1>2. ASSUME NEW S, NEW G, CascadeRows(S, G)
      PROVE  invite'[i].vault \in Vaults /\ vault'[invite'[i].vault] = "live"
  <2>1. invite[i].vault \notin S /\ invite'[i] = invite[i]
    BY <1>0, <1>2 DEF CascadeRows, Invite
  <2>2. QED
    BY <1>2, <2>1 DEF CascadeRows, InviteRowsHaveAVault, InviteRows
<1>3. ASSUME UNCHANGED vault,
             invite'[i].vault = invite[i].vault,
             invite[i].status \notin {"unborn", "deleted"}
      PROVE  invite'[i].vault \in Vaults /\ vault'[invite'[i].vault] = "live"
  BY <1>3 DEF InviteRowsHaveAVault, InviteRows
<1>4. ASSUME UNCHANGED <<vault, invite>>
      PROVE  invite'[i].vault \in Vaults /\ vault'[invite'[i].vault] = "live"
  BY <1>4, <1>3
<1>5. ASSUME NEW r \in Requests, NEW j \in Invites, CommitCreateInvite(r, j)
      PROVE  invite'[i].vault \in Vaults /\ vault'[invite'[i].vault] = "live"
  <2>1. req[r].vault \in Vaults
    BY <1>5 DEF CommitCreateInvite, RequestsAreAddressed, Addressed
  <2>2. QED
    BY <1>5, <2>1, <1>3 DEF CommitCreateInvite, TypeOK
<1>6. ASSUME NEW r \in Requests, CommitRevokeInvite(r)
      PROVE  invite'[i].vault \in Vaults /\ vault'[invite'[i].vault] = "live"
  BY <1>0, <1>3, <1>6 DEF CommitRevokeInvite, Invite
<1>7. ASSUME NEW r \in Requests, CommitAcceptInvite(r)
      PROVE  invite'[i].vault \in Vaults /\ vault'[invite'[i].vault] = "live"
  <2>1. req[r].invite \in Invites
    BY <1>7 DEF CommitAcceptInvite, RequestsAreAddressed, Addressed
  <2>2. CASE i = req[r].invite
    BY <1>0, <1>3, <1>7, <2>1, <2>2
    DEF CommitAcceptInvite, InviteIsLive, Invite, TypeOK
  <2>3. CASE i # req[r].invite
    BY <1>3, <1>7, <2>3 DEF CommitAcceptInvite, TypeOK
  <2>4. QED
    BY <2>2, <2>3
<1>8. ASSUME NEW j \in Invites, LapseInvite(j) \/ PurgeInvite(j)
      PROVE  invite'[i].vault \in Vaults /\ vault'[invite'[i].vault] = "live"
  <2>1. CASE LapseInvite(j)
    BY <1>0, <1>3, <2>1 DEF LapseInvite, InviteIsLive, Invite, TypeOK
  <2>2. CASE PurgeInvite(j)
    BY <1>0, <1>3, <2>2 DEF PurgeInvite, Invite, TypeOK
  <2>3. QED
    BY <1>8, <2>1, <2>2
<1>9. CASE \E u \in Users, v \in Vaults : Register(u, v)
  BY <1>1, <1>9 DEF Register
<1>10. ASSUME NEW r \in Requests,
              \/ CommitDeleteAccount(r)
              \/ \E v \in Vaults : CommitCreateVault(r, v)
              \/ CommitDeleteVault(r)
       PROVE  invite'[i].vault \in Vaults /\ vault'[invite'[i].vault] = "live"
  BY <1>1, <1>2, <1>10
  DEF CommitDeleteAccount, CommitCreateVault, CommitDeleteVault
<1>11. ASSUME NEW r \in Requests,
              \/ CountAfterRemove(r)
              \/ CommitRemoveMember(r)
              \/ Abandon(r)
       PROVE  invite'[i].vault \in Vaults /\ vault'[invite'[i].vault] = "live"
  BY <1>4, <1>11 DEF CountAfterRemove, CommitRemoveMember, Abandon
<1>12. ASSUME NEW r \in Requests, NEW q, Begin(r, q)
       PROVE  invite'[i].vault \in Vaults /\ vault'[invite'[i].vault] = "live"
  BY <1>4, <1>12 DEF Begin
<1>13. CASE UNCHANGED vars
  BY <1>4, <1>13 DEF vars
<1>14. CASE \E j \in Invites : LapseInvite(j) \/ PurgeInvite(j)
  BY <1>8, <1>14
<1>15. QED
  BY <1>5, <1>6, <1>7, <1>9, <1>10, <1>11, <1>12, <1>13, <1>14
  DEF Next, BeginDeleteAccount, BeginCreateVault, BeginDeleteVault,
      BeginCreateInvite, BeginRevokeInvite, BeginAcceptInvite,
      BeginRemoveMember

\* Minting a vault for an active account gives it one row, its owner's.
LEMMA InsertOwner ==
  ASSUME TypeOK, EveryVaultHasItsOwner,
         NEW v \in Vaults, NEW u \in Users,
         vault[v] = "unborn", InsertVault(v, u),
         account'[u] = "active",
         \A t \in Users : account[t] = "active" => account'[t] = "active"
  PROVE  EveryVaultHasItsOwner'
<1>1. \A t \in Users : access[v][t] = "none"
  BY DEF EveryVaultHasItsOwner
<1>2. /\ vault'[v] = "live" /\ owner'[v] = u
      /\ \A t \in Users : access'[v][t] = IF t = u THEN "owner" ELSE "none"
  BY <1>1 DEF InsertVault, TypeOK
<1>3. \A w \in Vaults : w # v => /\ vault'[w] = vault[w]
                                /\ owner'[w] = owner[w]
                                /\ access'[w] = access[w]
  BY DEF InsertVault, TypeOK
<1>4. QED
  BY <1>2, <1>3 DEF EveryVaultHasItsOwner

\* A cascade that takes the vaults the leaving users own keeps every other
\* vault with its owner.
LEMMA CascadeOwner ==
  ASSUME TypeOK, EveryVaultHasItsOwner, NEW S \in SUBSET Vaults, NEW G,
         CascadeRows(S, G),
         \A v \in Vaults \ S : vault[v] = "live" => owner[v] \notin G,
         \A u \in Users \ G : account'[u] = account[u]
  PROVE  EveryVaultHasItsOwner'
<1>1. \A v \in S : vault'[v] = "deleted" /\ \A u \in Users : access'[v][u] = "none"
  BY DEF CascadeRows
<1>2. \A v \in Vaults \ S :
        /\ vault'[v] = vault[v] /\ owner'[v] = owner[v]
        /\ \A u \in Users : access'[v][u] = IF u \in G THEN "none" ELSE access[v][u]
  BY DEF CascadeRows
<1>3. QED
  BY <1>1, <1>2 DEF EveryVaultHasItsOwner

\* An accept gives a member row in a live vault to an active account that had
\* none, so no owner row appears or disappears.
LEMMA AcceptOwner ==
  ASSUME IInv, NEW r \in Requests, CommitAcceptInvite(r)
  PROVE  EveryVaultHasItsOwner'
<1> DEFINE v == req[r].vault
           u == req[r].user
<1>1. /\ v \in Vaults /\ u \in Users /\ req[r].invite \in Invites
      /\ invite[req[r].invite].vault = v
  BY DEF IInv, CommitAcceptInvite, RequestsAreAddressed, Addressed
<1>2. vault[v] = "live"
  BY <1>1 DEF IInv, CommitAcceptInvite, InviteIsLive, InviteRowsHaveAVault, InviteRows
<1>3. /\ access[v][u] = "none" /\ account[u] = "active"
      /\ access' = [access EXCEPT ![v][u] = "member"]
      /\ UNCHANGED <<account, vault, owner>>
  BY DEF CommitAcceptInvite
<1>4. \A w \in Vaults, t \in Users :
        access'[w][t] = IF w = v /\ t = u THEN "member" ELSE access[w][t]
  BY <1>1, <1>3 DEF IInv, TypeOK
<1>5. QED
  BY <1>1, <1>2, <1>3, <1>4 DEF IInv, EveryVaultHasItsOwner

\* A removal deletes a row that is not its vault's owner's.
LEMMA RemoveOwner ==
  ASSUME IInv, NEW r \in Requests, CommitRemoveMember(r)
  PROVE  EveryVaultHasItsOwner'
<1> DEFINE v == req[r].vault
           t == req[r].target
<1>1. v \in Vaults /\ t \in Users /\ owner[v] # t
  BY DEF IInv, CommitRemoveMember, RequestsAreAddressed, Addressed, Removal
<1>2. \A w \in Vaults, s \in Users :
        access'[w][s] = IF w = v /\ s = t THEN "none" ELSE access[w][s]
  BY <1>1 DEF IInv, TypeOK, CommitRemoveMember
<1>3. QED
  BY <1>1, <1>2 DEF IInv, EveryVaultHasItsOwner, CommitRemoveMember

\* No step separates a vault from its owner.
LEMMA NextOwner == IInv /\ [Next]_vars => EveryVaultHasItsOwner'
<1> SUFFICES ASSUME IInv, [Next]_vars
             PROVE  EveryVaultHasItsOwner'
  OBVIOUS
<1>1. ASSUME UNCHANGED <<account, vault, owner, access>>
      PROVE  EveryVaultHasItsOwner'
  BY <1>1 DEF IInv, EveryVaultHasItsOwner
<1>2. ASSUME NEW u \in Users, NEW v \in Vaults, Register(u, v)
      PROVE  EveryVaultHasItsOwner'
  <2>1. account'[u] = "active" /\ \A t \in Users : t # u => account'[t] = account[t]
    BY <1>2 DEF Register, IInv, TypeOK
  <2>2. QED
    BY <1>2, <2>1, InsertOwner DEF Register, IInv
<1>3. ASSUME NEW r \in Requests, CommitDeleteAccount(r)
      PROVE  EveryVaultHasItsOwner'
  <2> DEFINE u == req[r].user
             owned == {v \in Vaults : vault[v] = "live" /\ owner[v] = u}
  <2>1. CascadeRows(owned, {u}) /\ account' = [account EXCEPT ![u] = "deleted"]
    BY <1>3 DEF CommitDeleteAccount
  <2>2. \A t \in Users \ {u} : account'[t] = account[t]
    BY <2>1 DEF IInv, TypeOK
  <2>3. QED
    BY <2>1, <2>2, CascadeOwner DEF IInv
<1>4. ASSUME NEW r \in Requests, NEW v \in Vaults, CommitCreateVault(r, v)
      PROVE  EveryVaultHasItsOwner'
  <2>1. req[r].user \in Users
    BY <1>4 DEF CommitCreateVault, IInv, RequestsAreAddressed, Addressed
  <2>2. QED
    BY <1>4, <2>1, InsertOwner DEF CommitCreateVault, IInv
<1>5. ASSUME NEW r \in Requests, CommitDeleteVault(r)
      PROVE  EveryVaultHasItsOwner'
  <2>1. req[r].vault \in Vaults
    BY <1>5 DEF CommitDeleteVault, IInv, RequestsAreAddressed, Addressed
  <2>2. QED
    BY <1>5, <2>1, CascadeOwner DEF CommitDeleteVault, IInv
<1>6. ASSUME NEW r \in Requests,
             \/ \E i \in Invites : CommitCreateInvite(r, i)
             \/ CommitRevokeInvite(r)
             \/ CountAfterRemove(r)
             \/ Abandon(r)
      PROVE  EveryVaultHasItsOwner'
  BY <1>1, <1>6 DEF CommitCreateInvite, CommitRevokeInvite, CountAfterRemove, Abandon
<1>7. ASSUME NEW r \in Requests, NEW q, Begin(r, q)
      PROVE  EveryVaultHasItsOwner'
  BY <1>1, <1>7 DEF Begin
<1>8. CASE \E i \in Invites : LapseInvite(i) \/ PurgeInvite(i)
  BY <1>1, <1>8 DEF LapseInvite, PurgeInvite
<1>9. CASE UNCHANGED vars
  BY <1>1, <1>9 DEF vars
<1>10. QED
  BY <1>2, <1>3, <1>4, <1>5, <1>6, <1>7, <1>8, <1>9, AcceptOwner, RemoveOwner
  DEF Next, BeginDeleteAccount, BeginCreateVault, BeginDeleteVault,
      BeginCreateInvite, BeginRevokeInvite, BeginAcceptInvite,
      BeginRemoveMember

------------------------------------------------------------------------
(* Theorems of the specification.                                          *)

\* The empty database satisfies the inductive invariant.
LEMMA InitInvariant == Init => IInv
<1> SUFFICES ASSUME Init PROVE IInv
  OBVIOUS
<1>1. TypeOK
  <2>1. [status |-> "unborn", vault |-> NoVault, lapsed |-> FALSE] \in Invite
    BY DEF Invite, InviteStatus
  <2>2. QED
    BY <2>1, IdleIsARequest DEF Init, TypeOK, Role
<1>2. EveryVaultHasItsOwner
  BY DEF Init, EveryVaultHasItsOwner
<1>3. InviteRowsHaveAVault
  BY DEF Init, InviteRowsHaveAVault, InviteRows
<1>4. RequestsAreAddressed
  BY IdleIsARequest DEF Init, RequestsAreAddressed
<1>5. QED
  BY <1>1, <1>2, <1>3, <1>4 DEF IInv

\* Every step of every handler preserves the inductive invariant.
THEOREM Invariant == Spec => []IInv
<1>1. IInv /\ [Next]_vars => IInv'
  BY NextType, NextOwner, NextInviteRows, NextAddressed DEF IInv
<1>2. QED
  BY <1>1, InitInvariant, PTL DEF Spec

\* The tables and the requests in flight keep their types.
THEOREM TypeCorrect == Spec => []TypeOK
<1>1. IInv => TypeOK
  BY DEF IInv
<1>2. QED
  BY <1>1, Invariant, PTL

\* Whatever overlaps, every live vault is held by the active account that
\* owns it, and nothing that was deleted is reachable.
THEOREM Ownership == Spec => []EveryVaultHasItsOwner
<1>1. IInv => EveryVaultHasItsOwner
  BY DEF IInv
<1>2. QED
  BY <1>1, Invariant, PTL

\* What SettledInviteStaysSettled says of one invite in one step.
Settles(i) ==
  /\ invite[i].status \in {"accepted", "revoked", "deleted"}
       => invite'[i].status \in {invite[i].status, "deleted"}
  /\ invite[i].lapsed => invite'[i].status # "accepted" \/
                         invite[i].status = "accepted"

\* No step resurrects an invite: each handler that writes the status column
\* writes it under a WHERE that a settled row fails, or deletes the row.
LEMMA NextSettles == IInv /\ [Next]_vars => \A i \in Invites : Settles(i)
<1> SUFFICES ASSUME IInv, [Next]_vars, NEW i \in Invites
             PROVE  Settles(i)
  OBVIOUS
<1>0. \A j \in Invites : invite[j] \in Invite
  BY DEF IInv, TypeOK
<1>1. ASSUME invite'[i].status \in {invite[i].status, "deleted"}
      PROVE  Settles(i)
  BY <1>1 DEF Settles
<1>2. ASSUME UNCHANGED invite
      PROVE  Settles(i)
  BY <1>1, <1>2
<1>3. ASSUME NEW S, NEW G, CascadeRows(S, G)
      PROVE  Settles(i)
  <2>1. invite'[i] \in {invite[i], [invite[i] EXCEPT !.status = "deleted"]}
    BY <1>3 DEF CascadeRows
  <2>2. QED
    BY <1>0, <1>1, <2>1 DEF Invite
<1>4. ASSUME NEW r \in Requests, NEW j \in Invites, CommitCreateInvite(r, j)
      PROVE  Settles(i)
  BY <1>2, <1>4 DEF CommitCreateInvite, Settles, IInv, TypeOK
<1>5. ASSUME NEW r \in Requests, CommitRevokeInvite(r)
      PROVE  Settles(i)
  BY <1>0, <1>5 DEF CommitRevokeInvite, Settles, Invite
<1>6. ASSUME NEW r \in Requests, CommitAcceptInvite(r)
      PROVE  Settles(i)
  <2>1. req[r].invite \in Invites
    BY <1>6 DEF CommitAcceptInvite, IInv, RequestsAreAddressed, Addressed
  <2>2. CASE i = req[r].invite
    BY <1>6, <2>2 DEF CommitAcceptInvite, InviteIsLive, Settles
  <2>3. CASE i # req[r].invite
    BY <1>1, <1>6, <2>3 DEF CommitAcceptInvite, IInv, TypeOK
  <2>4. QED
    BY <2>2, <2>3
<1>7. ASSUME NEW j \in Invites, LapseInvite(j) \/ PurgeInvite(j)
      PROVE  Settles(i)
  <2>1. CASE LapseInvite(j)
    BY <1>0, <1>1, <2>1 DEF LapseInvite, Invite, IInv, TypeOK
  <2>2. CASE PurgeInvite(j)
    BY <1>0, <1>1, <2>2 DEF PurgeInvite, Invite, IInv, TypeOK
  <2>3. QED
    BY <1>7, <2>1, <2>2
<1>8. ASSUME NEW r \in Requests,
             \/ CommitDeleteAccount(r)
             \/ \E v \in Vaults : CommitCreateVault(r, v)
             \/ CommitDeleteVault(r)
             \/ CountAfterRemove(r)
             \/ CommitRemoveMember(r)
             \/ Abandon(r)
             \/ \E q : Begin(r, q)
      PROVE  Settles(i)
  BY <1>2, <1>3, <1>8
  DEF CommitDeleteAccount, CommitCreateVault, CommitDeleteVault,
      CountAfterRemove, CommitRemoveMember, Abandon, Begin
<1>9. CASE \E u \in Users, v \in Vaults : Register(u, v)
  BY <1>2, <1>9 DEF Register
<1>10. CASE \E j \in Invites : LapseInvite(j) \/ PurgeInvite(j)
  BY <1>7, <1>10
<1>11. CASE UNCHANGED vars
  BY <1>2, <1>11 DEF vars
<1>12. QED
  BY <1>4, <1>5, <1>6, <1>8, <1>9, <1>10, <1>11
  DEF Next, BeginDeleteAccount, BeginCreateVault, BeginDeleteVault,
      BeginCreateInvite, BeginRevokeInvite, BeginAcceptInvite,
      BeginRemoveMember

\* A settled invite stays settled, for any number of overlapping accepts,
\* revokes and purges.
THEOREM InvitesSettleOnce == Spec => SettledInviteStaysSettled
<1>1. IInv /\ [Next]_vars =>
        [\A i \in Invites :
           /\ invite[i].status \in {"accepted", "revoked", "deleted"}
                => invite'[i].status \in {invite[i].status, "deleted"}
           /\ invite[i].lapsed => invite'[i].status # "accepted" \/
                                  invite[i].status = "accepted"]_vars
  BY NextSettles DEF Settles
<1>2. QED
  BY <1>1, Invariant, PTL DEF Spec, SettledInviteStaysSettled

\* Who joins, and which invite is claimed, in the current step.
Joined == {p \in Vaults \X Users :
             access[p[1]][p[2]] = "none" /\ access'[p[1]][p[2]] = "member"}
Claimed == {i \in Invites :
             invite[i].status # "accepted" /\ invite'[i].status = "accepted"}
PairsUp ==
  /\ Cardinality(Joined) = Cardinality(Claimed)
  /\ Cardinality(Claimed) <= 1
  /\ \A p \in Joined, i \in Claimed : InviteIsLive(i) /\ invite[i].vault = p[1]

\* A step that neither inserts a member row nor claims an invite pairs up.
LEMMA NothingPairs ==
  ASSUME \A v \in Vaults, u \in Users :
           access'[v][u] = "member" => access[v][u] # "none",
         \A i \in Invites :
           invite'[i].status = "accepted" => invite[i].status = "accepted"
  PROVE  PairsUp
<1>1. Joined = {} /\ Claimed = {}
  BY DEF Joined, Claimed
<1>2. QED
  BY <1>1, FS_EmptySet DEF PairsUp

\* An accept's claim and its access insert commit together, once each.
LEMMA AcceptPairs ==
  ASSUME IInv, NEW r \in Requests, CommitAcceptInvite(r)
  PROVE  PairsUp
<1> DEFINE v == req[r].vault
           u == req[r].user
           i == req[r].invite
<1>1. v \in Vaults /\ u \in Users /\ i \in Invites /\ invite[i].vault = v
  BY DEF IInv, CommitAcceptInvite, RequestsAreAddressed, Addressed
<1>2. /\ InviteIsLive(i) /\ access[v][u] = "none"
      /\ invite' = [invite EXCEPT ![i].status = "accepted"]
      /\ access' = [access EXCEPT ![v][u] = "member"]
  BY DEF CommitAcceptInvite
<1>3. Joined = {<<v, u>>}
  <2>1. \A w \in Vaults, t \in Users :
          access'[w][t] = IF w = v /\ t = u THEN "member" ELSE access[w][t]
    BY <1>1, <1>2 DEF IInv, TypeOK
  <2>2. \A p \in Joined : p[1] = v /\ p[2] = u
    BY <2>1 DEF Joined
  <2>3. <<v, u>> \in Joined
    BY <1>1, <1>2, <2>1 DEF Joined
  <2>4. \A p \in Joined : p = <<v, u>>
    BY <2>2 DEF Joined
  <2>5. QED
    BY <2>3, <2>4
<1>4. Claimed = {i}
  <2>1. \A j \in Invites : invite[j] \in Invite
    BY DEF IInv, TypeOK
  <2>2. \A j \in Invites :
          invite'[j].status = IF j = i THEN "accepted" ELSE invite[j].status
    BY <1>1, <1>2, <2>1 DEF IInv, TypeOK, Invite
  <2>3. QED
    BY <1>1, <1>2, <2>2 DEF Claimed, InviteIsLive
<1>5. Cardinality(Joined) = 1 /\ Cardinality(Claimed) = 1
  <2>1. \A x : Cardinality({x}) = 1
    BY FS_Singleton
  <2>2. QED
    BY <1>3, <1>4, <2>1
<1>6. \A p \in Joined, j \in Claimed : InviteIsLive(j) /\ invite[j].vault = p[1]
  BY <1>1, <1>2, <1>3, <1>4
<1>7. QED
  BY <1>5, <1>6 DEF PairsUp

\* Every step pairs memberships with claims.
LEMMA NextPairs == IInv /\ [Next]_vars => PairsUp
<1> SUFFICES ASSUME IInv, [Next]_vars
             PROVE  PairsUp
  OBVIOUS
<1>0. \A i \in Invites : invite[i] \in Invite
  BY DEF IInv, TypeOK
<1>1. ASSUME UNCHANGED <<access, invite>>
      PROVE  PairsUp
  BY <1>1, NothingPairs
<1>2. ASSUME NEW v \in Vaults, NEW u \in Users, InsertVault(v, u), UNCHANGED invite
      PROVE  PairsUp
  <2>1. \A w \in Vaults, t \in Users :
          access'[w][t] = IF w = v /\ t = u THEN "owner" ELSE access[w][t]
    BY <1>2 DEF IInv, TypeOK, InsertVault
  <2>2. QED
    BY <1>2, <2>1, NothingPairs
<1>3. ASSUME NEW S, NEW G, CascadeRows(S, G)
      PROVE  PairsUp
  <2>1. \A i \in Invites :
          invite'[i] \in {invite[i], [invite[i] EXCEPT !.status = "deleted"]}
    BY <1>3 DEF CascadeRows
  <2>2. \A i \in Invites :
          invite'[i].status = "accepted" => invite[i].status = "accepted"
    BY <1>0, <2>1 DEF Invite
  <2>3. \A v \in Vaults, u \in Users :
          access'[v][u] = "member" => access[v][u] # "none"
    BY <1>3 DEF CascadeRows
  <2>4. QED
    BY <2>2, <2>3, NothingPairs
<1>4. ASSUME NEW r \in Requests, CommitRemoveMember(r)
      PROVE  PairsUp
  <2>1. req[r].vault \in Vaults /\ req[r].target \in Users
    BY <1>4 DEF CommitRemoveMember, IInv, RequestsAreAddressed, Addressed, Removal
  <2>2. \A w \in Vaults, t \in Users : access'[w][t] \in {"none", access[w][t]}
    BY <1>4, <2>1 DEF CommitRemoveMember, IInv, TypeOK
  <2>3. QED
    BY <1>4, <2>2, NothingPairs DEF CommitRemoveMember
<1>5. ASSUME UNCHANGED access,
             \/ \E r \in Requests, i \in Invites : CommitCreateInvite(r, i)
             \/ \E r \in Requests : CommitRevokeInvite(r)
             \/ \E i \in Invites : LapseInvite(i) \/ PurgeInvite(i)
      PROVE  PairsUp
  <2>1. \A i \in Invites :
          invite'[i].status = "accepted" => invite[i].status = "accepted"
    BY <1>0, <1>5
    DEF CommitCreateInvite, CommitRevokeInvite, LapseInvite, PurgeInvite,
        IInv, TypeOK, Invite
  <2>2. QED
    BY <1>5, <2>1, NothingPairs
<1>6. CASE \E u \in Users, v \in Vaults : Register(u, v)
  BY <1>2, <1>6 DEF Register
<1>7. CASE \E i \in Invites : LapseInvite(i) \/ PurgeInvite(i)
  BY <1>5, <1>7 DEF LapseInvite, PurgeInvite
<1>8. ASSUME NEW r \in Requests,
             \/ CountAfterRemove(r)
             \/ Abandon(r)
             \/ \E q : Begin(r, q)
      PROVE  PairsUp
  BY <1>1, <1>8 DEF CountAfterRemove, Abandon, Begin
<1>9. ASSUME NEW r \in Requests,
             \/ CommitRevokeInvite(r)
             \/ \E i \in Invites : CommitCreateInvite(r, i)
      PROVE  PairsUp
  BY <1>5, <1>9 DEF CommitRevokeInvite, CommitCreateInvite
<1>10. ASSUME NEW r \in Requests, NEW v \in Vaults, CommitCreateVault(r, v)
       PROVE  PairsUp
  BY <1>2, <1>10 DEF CommitCreateVault, IInv, RequestsAreAddressed, Addressed
<1>11. ASSUME NEW r \in Requests, CommitDeleteAccount(r) \/ CommitDeleteVault(r)
       PROVE  PairsUp
  BY <1>3, <1>11 DEF CommitDeleteAccount, CommitDeleteVault
<1>12. CASE UNCHANGED vars
  BY <1>1, <1>12 DEF vars
<1>13. QED
  BY <1>4, <1>6, <1>7, <1>8, <1>9, <1>10, <1>11, <1>12, AcceptPairs
  DEF Next, BeginDeleteAccount, BeginCreateVault, BeginDeleteVault,
      BeginCreateInvite, BeginRevokeInvite, BeginAcceptInvite,
      BeginRemoveMember

\* One member row per claimed invite and one claimed invite per member row,
\* however many accepts of the same link overlap.
THEOREM ClaimsArePaired == Spec => OneMemberPerClaim
<1>1. IInv /\ [Next]_vars =>
        [LET joined == {p \in Vaults \X Users :
                          access[p[1]][p[2]] = "none" /\ access'[p[1]][p[2]] = "member"}
             claimed == {i \in Invites :
                          invite[i].status # "accepted" /\ invite'[i].status = "accepted"}
         IN /\ Cardinality(joined) = Cardinality(claimed)
            /\ Cardinality(claimed) <= 1
            /\ \A p \in joined, i \in claimed :
                 InviteIsLive(i) /\ invite[i].vault = p[1]]_vars
  BY NextPairs DEF PairsUp, Joined, Claimed
<1>2. QED
  BY <1>1, Invariant, PTL DEF Spec, OneMemberPerClaim

------------------------------------------------------------------------
(* One request at a time.  What a handler reads before its transaction is  *)
(* then still so when the transaction runs, except that other accounts and *)
(* their first vaults may have come into being.                            *)

Serial == \A r, q \in Requests : r = q

\* What the request in flight still knows of the tables.
Knows(q) ==
  /\ q.op \in Removal \cup {"deleteVault", "acceptInvite"} => vault[q.vault] # "unborn"
  /\ q.op \in Removal \cup {"deleteVault"} => Members(q.vault) \subseteq q.audience
  /\ q.op = "acceptInvite" => Cardinality(Members(q.vault)) < MaxMembersPerVault
  /\ q.op = "removeMemberCounted" /\ q.alone = TRUE
       => Cardinality(Members(q.vault) \ {q.target}) <= 1

SerialInv ==
  /\ IInv /\ MemberCap /\ PersonalVaultIsPrivate
  /\ \A r \in Requests : Knows(req[r])

LEMMA KnowsNothing == Knows(Idle) /\ Knows(Idle)'
BY DEF Knows, Idle, Removal

\* The members of a vault are finitely many; its owner is one of them.
LEMMA MembersOf ==
  ASSUME IInv, NEW v \in Vaults
  PROVE  /\ IsFiniteSet(Members(v)) /\ Cardinality(Members(v)) \in Nat
         /\ vault[v] = "live" => owner[v] \in Members(v)
         /\ vault[v] # "live" => Members(v) = {}
<1>1. Members(v) \in SUBSET Users
  BY DEF Members
<1>2. IsFiniteSet(Members(v))
  BY <1>1, FiniteAssumption, FS_Subset
<1>3. Cardinality(Members(v)) \in Nat
  BY <1>2, FS_CardinalityType
<1>4. vault[v] = "live" => owner[v] \in Members(v)
  BY DEF Members, IInv, EveryVaultHasItsOwner
<1>5. vault[v] # "live" => Members(v) = {}
  BY DEF Members, IInv, EveryVaultHasItsOwner
<1> QED  BY <1>2, <1>3, <1>4, <1>5

\* A new vault has its owner alone.
LEMMA InsertMembers ==
  ASSUME IInv, NEW v \in Vaults, NEW u \in Users, vault[v] = "unborn", InsertVault(v, u)
  PROVE  \A w \in Vaults : Members(w)' = IF w = v THEN {u} ELSE Members(w)
<1>1. \A t \in Users : access[v][t] = "none"
  BY DEF IInv, EveryVaultHasItsOwner
<1>2. \A w \in Vaults, t \in Users :
        access'[w][t] = IF w = v /\ t = u THEN "owner" ELSE access[w][t]
  BY DEF InsertVault, IInv, TypeOK
<1> QED  BY <1>1, <1>2 DEF Members

\* A cascade takes members, and all of them with their vault.
LEMMA CascadeMembers ==
  ASSUME NEW S, NEW G, CascadeRows(S, G)
  PROVE  \A w \in Vaults : Members(w)' = IF w \in S THEN {} ELSE Members(w) \ G
BY DEF CascadeRows, Members

\* An accept adds one, to a live vault.
LEMMA AcceptMembers ==
  ASSUME IInv, NEW r \in Requests, CommitAcceptInvite(r)
  PROVE  /\ req[r].vault \in Vaults /\ req[r].user \in Users
         /\ \A w \in Vaults :
              Members(w)' = IF w = req[r].vault THEN Members(w) \cup {req[r].user} ELSE Members(w)
<1>1. req[r].vault \in Vaults /\ req[r].user \in Users
  BY DEF IInv, CommitAcceptInvite, RequestsAreAddressed, Addressed
<1>2. \A w \in Vaults, t \in Users :
        access'[w][t] = IF w = req[r].vault /\ t = req[r].user THEN "member" ELSE access[w][t]
  BY <1>1 DEF IInv, TypeOK, CommitAcceptInvite
<1> QED  BY <1>1, <1>2 DEF Members

\* A removal takes one who is not the owner.
LEMMA RemoveMembers ==
  ASSUME IInv, NEW r \in Requests, CommitRemoveMember(r)
  PROVE  /\ req[r].vault \in Vaults /\ owner[req[r].vault] # req[r].target
         /\ \A w \in Vaults :
              Members(w)' = IF w = req[r].vault THEN Members(w) \ {req[r].target} ELSE Members(w)
<1>1. req[r].vault \in Vaults /\ req[r].target \in Users /\ owner[req[r].vault] # req[r].target
  BY DEF IInv, CommitRemoveMember, RequestsAreAddressed, Addressed, Removal
<1>2. \A w \in Vaults, t \in Users :
        access'[w][t] = IF w = req[r].vault /\ t = req[r].target THEN "none" ELSE access[w][t]
  BY <1>1 DEF IInv, TypeOK, CommitRemoveMember
<1> QED  BY <1>1, <1>2 DEF Members

\* The steps that touch no row of vault3_vault_access.
LEMMA RowsAlone ==
  ASSUME UNCHANGED access
  PROVE  \A w \in Vaults : Members(w)' = Members(w)
BY DEF Members

\* The steps that do, by what they do to the tables.
LEMMA AccessSteps ==
  ASSUME IInv, [Next]_vars
  PROVE  \/ UNCHANGED <<vault, owner, kind, access>>
         \/ \E v \in Vaults, u \in Users : vault[v] = "unborn" /\ InsertVault(v, u)
         \/ \E r \in Requests :
              CascadeRows({v \in Vaults : vault[v] = "live" /\ owner[v] = req[r].user}, {req[r].user})
         \/ \E r \in Requests : CascadeRows({req[r].vault}, {})
         \/ \E r \in Requests : CommitAcceptInvite(r)
         \/ \E r \in Requests : CommitRemoveMember(r)
<1>1. CASE UNCHANGED vars
  BY <1>1 DEF vars
<1>2. ASSUME NEW u \in Users, NEW v \in Vaults, Register(u, v)
      PROVE  vault[v] = "unborn" /\ InsertVault(v, u)
  BY <1>2 DEF Register
<1>3. ASSUME NEW r \in Requests, NEW v \in Vaults, CommitCreateVault(r, v)
      PROVE  vault[v] = "unborn" /\ InsertVault(v, req[r].user) /\ req[r].user \in Users
  BY <1>3 DEF CommitCreateVault, IInv, RequestsAreAddressed, Addressed
<1>4. ASSUME NEW r \in Requests, CommitDeleteAccount(r)
      PROVE  CascadeRows({v \in Vaults : vault[v] = "live" /\ owner[v] = req[r].user}, {req[r].user})
  BY <1>4 DEF CommitDeleteAccount
<1>5. ASSUME NEW r \in Requests, CommitDeleteVault(r)
      PROVE  CascadeRows({req[r].vault}, {})
  BY <1>5 DEF CommitDeleteVault
<1>6. ASSUME NEW r \in Requests,
             \/ \E u \in Users : BeginDeleteAccount(r, u) \/ BeginCreateVault(r, u)
             \/ \E u \in Users, v \in Vaults : BeginDeleteVault(r, u, v) \/ BeginCreateInvite(r, u, v)
             \/ \E u \in Users, i \in Invites : BeginRevokeInvite(r, u, i) \/ BeginAcceptInvite(r, u, i)
             \/ \E u, t \in Users, v \in Vaults : BeginRemoveMember(r, u, v, t)
             \/ \E i \in Invites : CommitCreateInvite(r, i)
             \/ CommitRevokeInvite(r) \/ CountAfterRemove(r) \/ Abandon(r)
      PROVE  UNCHANGED <<vault, owner, kind, access>>
  BY <1>6 DEF BeginDeleteAccount, BeginCreateVault, BeginDeleteVault, BeginCreateInvite,
     BeginRevokeInvite, BeginAcceptInvite, BeginRemoveMember, Begin, CommitCreateInvite,
     CommitRevokeInvite, CountAfterRemove, Abandon
<1>7. ASSUME NEW i \in Invites, LapseInvite(i) \/ PurgeInvite(i)
      PROVE  UNCHANGED <<vault, owner, kind, access>>
  BY <1>7 DEF LapseInvite, PurgeInvite
<1>8. ASSUME NEW r \in Requests, NEW u \in Users,
             \/ BeginDeleteAccount(r, u) \/ BeginCreateVault(r, u)
      PROVE  UNCHANGED <<vault, owner, kind, access>>
  BY <1>6, <1>8
<1>9. CASE Next
  BY <1>2, <1>3, <1>4, <1>5, <1>6, <1>7, <1>9 DEF Next
<1> QED  BY <1>1, <1>9

\* The cap on members.
LEMMA NextCap ==
  ASSUME SerialInv, [Next]_vars
  PROVE  MemberCap'
<1> SUFFICES ASSUME NEW w \in Vaults
             PROVE  Cardinality(Members(w)') <= MaxMembersPerVault
  BY DEF MemberCap, Members
<1>1. /\ IInv /\ Cardinality(Members(w)) <= MaxMembersPerVault
      /\ IsFiniteSet(Members(w)) /\ Cardinality(Members(w)) \in Nat
      /\ MaxMembersPerVault \in Nat \ {0}
  BY MembersOf, LimitAssumption DEF SerialInv, MemberCap
<1>2. ASSUME Members(w)' \subseteq Members(w)
      PROVE  Cardinality(Members(w)') <= MaxMembersPerVault
  <2>1. Cardinality(Members(w)') \in Nat /\ Cardinality(Members(w)') <= Cardinality(Members(w))
    BY <1>1, <1>2, FS_Subset, FS_CardinalityType
  <2> QED  BY <1>1, <2>1
<1>3. CASE UNCHANGED <<vault, owner, kind, access>>
  BY <1>2, <1>3, RowsAlone
<1>4. ASSUME NEW v \in Vaults, NEW u \in Users, vault[v] = "unborn", InsertVault(v, u)
      PROVE  Cardinality(Members(w)') <= MaxMembersPerVault
  <2>1. Members(w)' = {u} \/ Members(w)' = Members(w)
    BY <1>1, <1>4, InsertMembers
  <2>2. Cardinality({u}) = 1
    BY FS_Singleton
  <2> QED  BY <1>1, <2>1, <2>2
<1>5. ASSUME NEW S, NEW G, CascadeRows(S, G)
      PROVE  Cardinality(Members(w)') <= MaxMembersPerVault
  BY <1>2, <1>5, CascadeMembers
<1>6. ASSUME NEW r \in Requests, CommitAcceptInvite(r)
      PROVE  Cardinality(Members(w)') <= MaxMembersPerVault
  <2>1. req[r].op = "acceptInvite" /\ Knows(req[r])
    BY <1>6 DEF SerialInv, CommitAcceptInvite
  <2>2. \/ Members(w)' = Members(w)
        \/ /\ Members(w)' = Members(w) \cup {req[r].user}
           /\ Cardinality(Members(w)) < MaxMembersPerVault
    BY <1>1, <1>6, <2>1, AcceptMembers DEF Knows
  <2>3. /\ Cardinality(Members(w) \cup {req[r].user}) <= Cardinality(Members(w)) + 1
        /\ Cardinality(Members(w) \cup {req[r].user}) \in Nat
    <3>1. IsFiniteSet(Members(w)) /\ Cardinality(Members(w)) \in Nat
      BY <1>1
    <3> DEFINE old == Members(w)
               u == req[r].user
    <3>2. Cardinality(old \cup {u}) = IF u \in old THEN Cardinality(old) ELSE Cardinality(old) + 1
      <4> HIDE DEF old, u
      <4>1. IsFiniteSet(old)
        BY <3>1 DEF old
      <4> QED  BY ONLY <4>1, FS_AddElement
    <3> HIDE DEF old, u
    <3>3. Cardinality(old) \in Nat
      BY <3>1 DEF old
    <3>4. Cardinality(old \cup {u}) <= Cardinality(old) + 1 /\ Cardinality(old \cup {u}) \in Nat
      BY ONLY <3>2, <3>3
    <3> QED  BY <3>4 DEF old, u
  <2>4. CASE Members(w)' = Members(w)
    BY <1>1, <2>4
  <2>5. CASE /\ Members(w)' = Members(w) \cup {req[r].user}
             /\ Cardinality(Members(w)) < MaxMembersPerVault
    <3>1. \A c, n, m \in Nat : c <= n + 1 /\ n < m => c <= m
      OBVIOUS
    <3> QED  BY <1>1, <2>3, <2>5, <3>1
  <2> QED  BY <2>2, <2>4, <2>5
<1>7. ASSUME NEW r \in Requests, CommitRemoveMember(r)
      PROVE  Cardinality(Members(w)') <= MaxMembersPerVault
  BY <1>1, <1>2, <1>7, RemoveMembers
<1> QED  BY <1>1, <1>3, <1>4, <1>5, <1>6, <1>7, AccessSteps

\* A vault stored as personal.
LEMMA NextPrivate ==
  ASSUME SerialInv, [Next]_vars
  PROVE  PersonalVaultIsPrivate'
<1> SUFFICES ASSUME NEW w \in Vaults, vault'[w] = "live", kind'[w] = "personal"
             PROVE  Members(w)' = {owner'[w]}
  BY DEF PersonalVaultIsPrivate, Members
<1>1. /\ IInv /\ vault \in [Vaults -> {"unborn", "live", "deleted"}]
      /\ owner \in [Vaults -> Users \cup {NoUser}]
      /\ kind \in [Vaults -> {"personal", "shared"}]
      /\ vault[w] = "live" /\ kind[w] = "personal" => Members(w) = {owner[w]}
  BY DEF SerialInv, PersonalVaultIsPrivate, IInv, TypeOK
<1>2. CASE UNCHANGED <<vault, owner, kind, access>>
  BY <1>1, <1>2, RowsAlone
<1>3. ASSUME NEW v \in Vaults, NEW u \in Users, vault[v] = "unborn", InsertVault(v, u)
      PROVE  Members(w)' = {owner'[w]}
  <2>1. Members(w)' = IF w = v THEN {u} ELSE Members(w)
    BY <1>1, <1>3, InsertMembers
  <2>2. /\ owner'[w] = IF w = v THEN u ELSE owner[w]
        /\ w # v => vault'[w] = vault[w] /\ kind'[w] = kind[w]
    BY <1>1, <1>3 DEF InsertVault
  <2> QED  BY <1>1, <2>1, <2>2
<1>4. ASSUME NEW r \in Requests,
             CascadeRows({v \in Vaults : vault[v] = "live" /\ owner[v] = req[r].user}, {req[r].user})
      PROVE  Members(w)' = {owner'[w]}
  <2>1. /\ vault[w] = "live" /\ owner[w] # req[r].user /\ UNCHANGED <<owner, kind>>
    BY <1>4 DEF CascadeRows
  <2>2. Members(w)' = Members(w) \ {req[r].user}
    BY <1>4, <2>1, CascadeMembers
  <2> QED  BY <1>1, <2>1, <2>2
<1>5. ASSUME NEW r \in Requests, CascadeRows({req[r].vault}, {})
      PROVE  Members(w)' = {owner'[w]}
  <2>1. /\ vault[w] = "live" /\ w # req[r].vault /\ UNCHANGED <<owner, kind>>
    BY <1>5 DEF CascadeRows
  <2>2. Members(w)' = Members(w)
    <3>1. \A t \in Users : access'[w][t] = access[w][t]
      BY <1>5, <2>1 DEF CascadeRows
    <3> QED  BY <3>1 DEF Members
  <2> QED  BY <1>1, <2>1, <2>2
<1>6. ASSUME NEW r \in Requests, CommitAcceptInvite(r)
      PROVE  Members(w)' = {owner'[w]}
  <2>1. UNCHANGED <<vault, owner>> /\ kind' = [kind EXCEPT ![req[r].vault] = "shared"]
    BY <1>6 DEF CommitAcceptInvite
  <2>2. w # req[r].vault /\ kind[w] = "personal"
    BY <1>1, <1>6, <2>1, AcceptMembers
  <2> QED  BY <1>1, <1>6, <2>1, <2>2, AcceptMembers
<1>7. ASSUME NEW r \in Requests, CommitRemoveMember(r)
      PROVE  Members(w)' = {owner'[w]}
  <2> DEFINE v == req[r].vault
             t == req[r].target
  <2>1. /\ v \in Vaults /\ owner[v] # t /\ UNCHANGED <<vault, owner>>
        /\ Members(w)' = IF w = v THEN Members(w) \ {t} ELSE Members(w)
        /\ kind' = [kind EXCEPT ![v] = IF req[r].alone THEN "personal" ELSE @]
        /\ req[r].op = "removeMemberCounted" /\ Knows(req[r])
    BY <1>1, <1>7, RemoveMembers DEF CommitRemoveMember, SerialInv
  <2>2. CASE w # v \/ kind[w] = "personal"
    BY <1>1, <2>1, <2>2
  <2>3. CASE w = v /\ kind[w] # "personal"
    <3>1. req[r].alone = TRUE
      <4>1. req[r].alone \in BOOLEAN
        BY <1>1 DEF IInv, TypeOK, Request
      <4> QED  BY <1>1, <2>1, <2>3, <4>1
    <3>2. Cardinality(Members(w) \ {t}) <= 1
      BY <2>1, <2>3, <3>1 DEF Knows
    <3>3. owner[w] \in Members(w) \ {t} /\ IsFiniteSet(Members(w) \ {t})
      BY <1>1, <2>1, <2>3, MembersOf, FS_RemoveElement
    <3>4. Cardinality(Members(w) \ {t}) \in Nat /\ Cardinality(Members(w) \ {t}) # 0
      BY <3>3, FS_CardinalityType, FS_EmptySet
    <3>5. Cardinality(Members(w) \ {t}) = 1
      BY <3>2, <3>4
    <3>6. \E x : Members(w) \ {t} = {x}
      BY <3>3, <3>5, FS_Singleton
    <3> QED  BY <2>1, <2>3, <3>3, <3>6
  <2> QED  BY <2>2, <2>3
<1> QED  BY <1>1, <1>2, <1>3, <1>4, <1>5, <1>6, <1>7, AccessSteps

\* The one request that ends leaves none.
LEMMA OneEnds ==
  ASSUME Serial, IInv, NEW r \in Requests, Finish(r)
  PROVE  \A q \in Requests : req'[q] = Idle
BY DEF Serial, IInv, TypeOK, Finish

\* The one request that begins is the only one.
LEMMA OneBegins ==
  ASSUME Serial, IInv, NEW r \in Requests, NEW record, Begin(r, record)
  PROVE  /\ \A q \in Requests : req'[q] = record
         /\ UNCHANGED <<account, vault, owner, kind, access, invite>>
BY DEF Serial, IInv, TypeOK, Begin

\* What a request has read stays so while no other is in flight.
LEMMA NextKnows ==
  ASSUME Serial, SerialInv, [Next]_vars
  PROVE  \A q \in Requests : Knows(req[q])'
<1>1. IInv /\ \A r \in Requests : Knows(req[r])
  BY DEF SerialInv
<1>2. ASSUME UNCHANGED <<vault, access, req>>
      PROVE  \A q \in Requests : Knows(req[q])'
  BY <1>1, <1>2 DEF Knows, Members
<1>3. ASSUME NEW r \in Requests, Finish(r)
      PROVE  \A q \in Requests : Knows(req[q])'
  BY <1>1, <1>3, OneEnds, KnowsNothing
<1>4. ASSUME NEW r \in Requests, NEW record, Begin(r, record), Knows(record)
      PROVE  \A q \in Requests : Knows(req[q])'
  <2>1. Knows(record)'
    BY <1>1, <1>4, OneBegins DEF Knows, Members
  <2> QED  BY <1>1, <1>4, <2>1, OneBegins
<1>5. CASE UNCHANGED vars
  BY <1>2, <1>5 DEF vars
<1>6. ASSUME NEW u \in Users, NEW v \in Vaults, Register(u, v)
      PROVE  \A q \in Requests : Knows(req[q])'
  <2>1. vault[v] = "unborn" /\ InsertVault(v, u) /\ UNCHANGED req
    BY <1>6 DEF Register
  <2>2. \A w \in Vaults : w # v => vault'[w] = vault[w] /\ Members(w)' = Members(w)
    BY <1>1, <2>1, InsertMembers DEF InsertVault, IInv, TypeOK
  <2>3. \A q \in Requests :
          req[q].op \in Removal \cup {"deleteVault", "acceptInvite"} => req[q].vault \in Vaults
    BY <1>1 DEF IInv, RequestsAreAddressed, Addressed
  <2> SUFFICES ASSUME NEW q \in Requests
               PROVE  Knows(req[q])'
    OBVIOUS
  <2>4. CASE req[q].op \in Removal \cup {"deleteVault", "acceptInvite"}
    <3>1. req[q].vault \in Vaults /\ req[q].vault # v /\ Knows(req[q])
      BY <1>1, <2>1, <2>3, <2>4 DEF Knows
    <3>2. PICK w \in Vaults : w = req[q].vault
      BY <3>1
    <3>3. vault'[w] = vault[w] /\ Members(w)' = Members(w) /\ req'[q] = req[q]
      BY <2>1, <2>2, <3>1, <3>2
    <3>4. req'[q].vault = w
      BY <3>2, <3>3
    <3> QED  BY <3>1, <3>2, <3>3, <3>4 DEF Knows, Members
  <2>5. CASE req[q].op \notin Removal \cup {"deleteVault", "acceptInvite"}
    BY <2>1, <2>5 DEF Knows, Removal
  <2> QED  BY <2>4, <2>5
<1>7. ASSUME NEW r \in Requests,
             \/ CommitDeleteAccount(r) \/ \E v \in Vaults : CommitCreateVault(r, v)
             \/ CommitDeleteVault(r) \/ \E i \in Invites : CommitCreateInvite(r, i)
             \/ CommitRevokeInvite(r) \/ CommitAcceptInvite(r) \/ CommitRemoveMember(r) \/ Abandon(r)
      PROVE  \A q \in Requests : Knows(req[q])'
  <2>1. Finish(r)
    BY <1>7 DEF CommitDeleteAccount, CommitCreateVault, CommitDeleteVault, CommitCreateInvite,
       CommitRevokeInvite, CommitAcceptInvite, CommitRemoveMember, Abandon
  <2> QED  BY <1>3, <2>1
<1>8. ASSUME NEW r \in Requests, NEW u \in Users, BeginDeleteAccount(r, u) \/ BeginCreateVault(r, u)
      PROVE  \A q \in Requests : Knows(req[q])'
  <2>1. /\ Knows([Idle EXCEPT !.op = "deleteAccount", !.user = u])
        /\ Knows([Idle EXCEPT !.op = "createVault", !.user = u])
    BY DEF Knows, Idle, Removal
  <2> QED  BY <1>4, <1>8, <2>1 DEF BeginDeleteAccount, BeginCreateVault
<1>9. ASSUME NEW r \in Requests, NEW u \in Users, NEW v \in Vaults, BeginDeleteVault(r, u, v)
      PROVE  \A q \in Requests : Knows(req[q])'
  <2> DEFINE record == [Idle EXCEPT !.op = "deleteVault", !.user = u, !.vault = v,
                                    !.audience = Members(v)]
  <2>1. vault[v] # "unborn" /\ Begin(r, record)
    BY <1>1, <1>9 DEF BeginDeleteVault, IInv, EveryVaultHasItsOwner
  <2>2. Knows(record)
    BY <2>1 DEF Knows, Idle, Removal
  <2> HIDE DEF record
  <2> QED  BY <1>4, <2>1, <2>2
<1>10. ASSUME NEW r \in Requests, NEW u \in Users, NEW v \in Vaults, BeginCreateInvite(r, u, v)
       PROVE  \A q \in Requests : Knows(req[q])'
  <2>1. Knows([Idle EXCEPT !.op = "createInvite", !.user = u, !.vault = v])
    BY DEF Knows, Idle, Removal
  <2> QED  BY <1>4, <1>10, <2>1 DEF BeginCreateInvite
<1>11. ASSUME NEW r \in Requests, NEW u \in Users, NEW i \in Invites, BeginRevokeInvite(r, u, i)
       PROVE  \A q \in Requests : Knows(req[q])'
  <2>1. Knows([Idle EXCEPT !.op = "revokeInvite", !.user = u, !.invite = i])
    BY DEF Knows, Idle, Removal
  <2> QED  BY <1>4, <1>11, <2>1 DEF BeginRevokeInvite
<1>12. ASSUME NEW r \in Requests, NEW u \in Users, NEW i \in Invites, BeginAcceptInvite(r, u, i)
       PROVE  \A q \in Requests : Knows(req[q])'
  <2> DEFINE record == [Idle EXCEPT !.op = "acceptInvite", !.user = u, !.invite = i,
                                    !.vault = invite[i].vault]
  <2>1. vault[invite[i].vault] # "unborn"
    BY <1>1, <1>12 DEF BeginAcceptInvite, InviteIsLive, IInv, InviteRowsHaveAVault, InviteRows
  <2>2. Begin(r, record) /\ Cardinality(Members(invite[i].vault)) < MaxMembersPerVault
    BY <1>12 DEF BeginAcceptInvite
  <2>3. Knows(record)
    BY <2>1, <2>2 DEF Knows, Idle, Removal
  <2> HIDE DEF record
  <2> QED  BY <1>4, <2>2, <2>3
<1>13. ASSUME NEW r \in Requests, NEW u \in Users, NEW t \in Users, NEW v \in Vaults,
              BeginRemoveMember(r, u, v, t)
       PROVE  \A q \in Requests : Knows(req[q])'
  <2> DEFINE record == [Idle EXCEPT !.op = "removeMember", !.user = u, !.vault = v,
                                    !.target = t, !.audience = Members(v)]
  <2>1. vault[v] # "unborn" /\ Begin(r, record)
    BY <1>1, <1>13 DEF BeginRemoveMember, IInv, EveryVaultHasItsOwner
  <2>2. Knows(record)
    BY <2>1 DEF Knows, Idle, Removal
  <2> HIDE DEF record
  <2> QED  BY <1>4, <2>1, <2>2
<1>14. ASSUME NEW r \in Requests, CountAfterRemove(r)
       PROVE  \A q \in Requests : Knows(req[q])'
  <2>1. /\ UNCHANGED <<vault, access>> /\ req[r].op = "removeMember"
        /\ req[r] \in Request /\ Knows(req[r])
    BY <1>1, <1>14 DEF CountAfterRemove, IInv, TypeOK
  <2>2. PICK few : /\ few = (Cardinality(Members(req[r].vault) \ {req[r].target}) <= 1)
                   /\ req' = [req EXCEPT ![r] = [req[r] EXCEPT !.op = "removeMemberCounted",
                                                              !.alone = few]]
    BY <1>14 DEF CountAfterRemove
  <2> SUFFICES ASSUME NEW q \in Requests
               PROVE  Knows(req[q])'
    OBVIOUS
  <2>3. /\ req'[q].op = "removeMemberCounted" /\ req'[q].vault = req[r].vault
        /\ req'[q].target = req[r].target /\ req'[q].audience = req[r].audience
        /\ req'[q].alone = few
    BY <1>1, <2>1, <2>2 DEF Serial, IInv, TypeOK, Request
  <2>4. vault[req[r].vault] # "unborn" /\ Members(req[r].vault) \subseteq req[r].audience
    BY <2>1 DEF Knows, Removal
  <2>5. req'[q].alone = TRUE => Cardinality(Members(req'[q].vault) \ {req'[q].target}) <= 1
    BY <2>2, <2>3
  <2>6. access' = access /\ vault' = vault
    BY <2>1
  <2> QED  BY <2>3, <2>4, <2>5, <2>6 DEF Knows, Members
<1>15. ASSUME NEW i \in Invites, LapseInvite(i) \/ PurgeInvite(i)
       PROVE  \A q \in Requests : Knows(req[q])'
  BY <1>2, <1>15 DEF LapseInvite, PurgeInvite
<1>16. CASE Next
  BY <1>6, <1>7, <1>8, <1>9, <1>10, <1>11, <1>12, <1>13, <1>14, <1>15, <1>16 DEF Next
<1> QED  BY <1>5, <1>16

\* The invariant of serial requests.
LEMMA SerialInvariant ==
  ASSUME Serial
  PROVE  Spec => []SerialInv
<1>1. Init => SerialInv
  <2> SUFFICES ASSUME Init
               PROVE  SerialInv
    OBVIOUS
  <2>1. \A v \in Vaults : Members(v) = {}
    BY DEF Init, Members
  <2>2. MemberCap
    BY <2>1, FS_EmptySet, LimitAssumption DEF MemberCap
  <2>3. PersonalVaultIsPrivate
    BY DEF Init, PersonalVaultIsPrivate
  <2>4. \A r \in Requests : Knows(req[r])
    BY KnowsNothing DEF Init
  <2> QED  BY <2>2, <2>3, <2>4, InitInvariant DEF SerialInv
<1>2. SerialInv /\ [Next]_vars => SerialInv'
  <2>1. IInv /\ [Next]_vars => IInv'
    BY NextType, NextOwner, NextInviteRows, NextAddressed DEF IInv
  <2> QED  BY <2>1, NextCap, NextPrivate, NextKnows DEF SerialInv
<1> QED  BY <1>1, <1>2, PTL DEF Spec
\* No vault has more members than the cap, whatever the cap, while requests do
\* not overlap.
THEOREM MembersAreCapped ==
  ASSUME Serial
  PROVE  Spec => []MemberCap
<1>1. SerialInv => MemberCap
  BY DEF SerialInv
<1> QED  BY <1>1, SerialInvariant, PTL

\* A vault stored as personal is reachable by its owner alone while requests
\* do not overlap: the kind that joins and removals write is never stale.
THEOREM PersonalVaultsArePrivate ==
  ASSUME Serial
  PROVE  Spec => []PersonalVaultIsPrivate
<1>1. SerialInv => PersonalVaultIsPrivate
  BY DEF SerialInv
<1> QED  BY <1>1, SerialInvariant, PTL

\* Who loses a vault is among those the audience named.
LEMMA NextSignals ==
  ASSUME SerialInv, [Next]_vars, NEW v \in Vaults, NEW u \in Users,
         access[v][u] # "none", access'[v][u] = "none",
         account'[u] = "active", account'[owner[v]] = "active"
  PROVE  u \in bumped'
<1>1. /\ IInv /\ access \in [Vaults -> [Users -> Role]] /\ u \in Members(v)
      /\ account \in [Users -> {"unborn", "active", "deleted"}]
      /\ vault[v] = "live" /\ owner[v] \in Users
  BY DEF SerialInv, IInv, TypeOK, EveryVaultHasItsOwner, Members
<1>2. ~ UNCHANGED access
  OBVIOUS
<1>3. ASSUME NEW w \in Vaults, NEW t \in Users, vault[w] = "unborn", InsertVault(w, t)
      PROVE  FALSE
  BY <1>1, <1>3 DEF InsertVault
<1>4. ASSUME NEW t \in Users, NEW w \in Vaults, Register(t, w)
      PROVE  FALSE
  BY <1>3, <1>4 DEF Register
<1>5. ASSUME NEW r \in Requests, NEW w \in Vaults, CommitCreateVault(r, w)
      PROVE  FALSE
  BY <1>1, <1>3, <1>5 DEF CommitCreateVault, IInv, RequestsAreAddressed, Addressed
<1>6. ASSUME NEW r \in Requests, CommitDeleteAccount(r)
      PROVE  FALSE
  <2>1. account' = [account EXCEPT ![req[r].user] = "deleted"]
    BY <1>6 DEF CommitDeleteAccount
  <2>2. owner[v] # req[r].user /\ u # req[r].user
    BY <1>1, <2>1
  <2> QED  BY <1>2, <1>6, <2>2 DEF CommitDeleteAccount, CascadeRows
<1>7. ASSUME NEW r \in Requests, CommitDeleteVault(r)
      PROVE  u \in bumped'
  <2>1. v = req[r].vault /\ req[r].op = "deleteVault" /\ bumped' = req[r].audience
    BY <1>7 DEF CommitDeleteVault, CascadeRows
  <2>2. Members(v) \subseteq req[r].audience
    BY <2>1 DEF SerialInv, Knows
  <2> QED  BY <1>1, <2>1, <2>2
<1>8. ASSUME NEW r \in Requests, CommitAcceptInvite(r)
      PROVE  FALSE
  <2>1. u \in Members(v)'
    BY <1>1, <1>8, AcceptMembers
  <2> QED  BY <2>1 DEF Members
<1>9. ASSUME NEW r \in Requests, CommitRemoveMember(r)
      PROVE  u \in bumped'
  <2>1. u \notin Members(v)'
    BY DEF Members
  <2>2. v = req[r].vault
    BY <1>1, <1>9, <2>1, RemoveMembers
  <2>3. req[r].op \in Removal /\ bumped' = req[r].audience
    BY <1>9 DEF CommitRemoveMember, Removal
  <2>4. Members(v) \subseteq req[r].audience
    BY <2>2, <2>3 DEF SerialInv, Knows
  <2> QED  BY <1>1, <2>3, <2>4
<1>10. ASSUME NEW r \in Requests,
             \/ \E t \in Users : BeginDeleteAccount(r, t) \/ BeginCreateVault(r, t)
             \/ \E t \in Users, w \in Vaults : BeginDeleteVault(r, t, w) \/ BeginCreateInvite(r, t, w)
             \/ \E t \in Users, i \in Invites : BeginRevokeInvite(r, t, i) \/ BeginAcceptInvite(r, t, i)
             \/ \E t, s \in Users, w \in Vaults : BeginRemoveMember(r, t, w, s)
             \/ \E i \in Invites : CommitCreateInvite(r, i)
             \/ CommitRevokeInvite(r) \/ CountAfterRemove(r) \/ Abandon(r)
       PROVE  FALSE
  BY <1>2, <1>10 DEF BeginDeleteAccount, BeginCreateVault, BeginDeleteVault, BeginCreateInvite,
     BeginRevokeInvite, BeginAcceptInvite, BeginRemoveMember, Begin, CommitCreateInvite,
     CommitRevokeInvite, CountAfterRemove, Abandon
<1>11. ASSUME NEW r \in Requests, NEW t \in Users, BeginDeleteAccount(r, t) \/ BeginCreateVault(r, t)
       PROVE  FALSE
  BY <1>10, <1>11
<1>12. ASSUME NEW i \in Invites, LapseInvite(i) \/ PurgeInvite(i)
       PROVE  FALSE
  BY <1>2, <1>12 DEF LapseInvite, PurgeInvite
<1>13. CASE Next
  BY <1>4, <1>5, <1>6, <1>7, <1>8, <1>9, <1>10, <1>11, <1>12, <1>13 DEF Next
<1>14. CASE UNCHANGED vars
  BY <1>2, <1>14 DEF vars
<1> QED  BY <1>13, <1>14

\* Whoever loses a vault hears of it, while requests do not overlap: the
\* audience read before the removal still names every member.
THEOREM LossesAreSignalled ==
  ASSUME Serial
  PROVE  Spec => LossIsSignalled
<1>1. SerialInv /\ [Next]_vars =>
        [\A v \in Vaults, u \in Users :
           (access[v][u] # "none" /\ access'[v][u] = "none"
              /\ account'[u] = "active" /\ account'[owner[v]] = "active")
             => u \in bumped']_vars
  BY NextSignals
<1> QED  BY <1>1, SerialInvariant, PTL DEF Spec, LossIsSignalled

------------------------------------------------------------------------
(* The last vault.                                                         *)

\* Another vault than the one being deleted is there for its owner.
Spare(q) ==
  q.op = "deleteVault" =>
    \E w \in Vaults : w # q.vault /\ access[w][q.user] # "none"

SpareInv == IInv /\ \A r \in Requests : Spare(req[r])

\* Two vaults are one more than the one to delete.
LEMMA AnotherVault ==
  ASSUME IsFiniteSet(Vaults), NEW u \in Users, NEW v \in Vaults,
         Cardinality(VaultsOf(u)) > 1
  PROVE  \E w \in Vaults : w # v /\ access[w][u] # "none"
<1> SUFFICES ASSUME \A w \in Vaults : w # v => access[w][u] = "none"
             PROVE  FALSE
  OBVIOUS
<1>1. VaultsOf(u) \subseteq {v}
  BY DEF VaultsOf
<1>2. IsFiniteSet({v}) /\ Cardinality({v}) = 1
  BY FS_Singleton
<1>3. Cardinality(VaultsOf(u)) \in Nat /\ Cardinality(VaultsOf(u)) <= 1
  BY <1>1, <1>2, FS_Subset, FS_CardinalityType
<1> QED  BY <1>3

\* The spare vault stays while no other request is in flight.
LEMMA NextSpare ==
  ASSUME Serial, IsFiniteSet(Vaults), SpareInv, [Next]_vars
  PROVE  \A q \in Requests : Spare(req[q])'
<1>1. IInv /\ \A r \in Requests : Spare(req[r])
  BY DEF SpareInv
<1>2. ASSUME UNCHANGED <<access, req>>
      PROVE  \A q \in Requests : Spare(req[q])'
  BY <1>1, <1>2 DEF Spare
<1>3. ASSUME \A q \in Requests : req'[q].op # "deleteVault"
      PROVE  \A q \in Requests : Spare(req[q])'
  BY <1>3 DEF Spare
<1>4. ASSUME NEW r \in Requests, Finish(r)
      PROVE  \A q \in Requests : Spare(req[q])'
  BY <1>1, <1>3, <1>4, OneEnds DEF Idle
<1>5. ASSUME NEW u \in Users, NEW v \in Vaults, Register(u, v)
      PROVE  \A q \in Requests : Spare(req[q])'
  <2>1. UNCHANGED req /\ \A w \in Vaults, t \in Users :
                           access[w][t] # "none" => access'[w][t] # "none"
    BY <1>1, <1>5 DEF Register, InsertVault, IInv, TypeOK
  <2>2. \A q \in Requests : req[q].op = "deleteVault" => req[q].user \in Users
    BY <1>1 DEF IInv, RequestsAreAddressed, Addressed
  <2> QED  BY <1>1, <2>1, <2>2 DEF Spare
<1>6. ASSUME NEW r \in Requests,
             \/ CommitDeleteAccount(r) \/ \E v \in Vaults : CommitCreateVault(r, v)
             \/ CommitDeleteVault(r) \/ \E i \in Invites : CommitCreateInvite(r, i)
             \/ CommitRevokeInvite(r) \/ CommitAcceptInvite(r) \/ CommitRemoveMember(r) \/ Abandon(r)
      PROVE  \A q \in Requests : Spare(req[q])'
  <2>1. Finish(r)
    BY <1>6 DEF CommitDeleteAccount, CommitCreateVault, CommitDeleteVault, CommitCreateInvite,
       CommitRevokeInvite, CommitAcceptInvite, CommitRemoveMember, Abandon
  <2> QED  BY <1>4, <2>1
<1>7. ASSUME NEW r \in Requests,
             \/ \E u \in Users : BeginDeleteAccount(r, u) \/ BeginCreateVault(r, u)
             \/ \E u \in Users, v \in Vaults : BeginCreateInvite(r, u, v)
             \/ \E u \in Users, i \in Invites : BeginRevokeInvite(r, u, i) \/ BeginAcceptInvite(r, u, i)
             \/ \E u, t \in Users, v \in Vaults : BeginRemoveMember(r, u, v, t)
      PROVE  \A q \in Requests : Spare(req[q])'
  <2>1. ASSUME NEW record, Begin(r, record), record.op # "deleteVault"
        PROVE  \A q \in Requests : req'[q].op # "deleteVault"
    BY <1>1, <2>1, OneBegins
  <2>2. ASSUME NEW u \in Users, BeginDeleteAccount(r, u)
        PROVE  \A q \in Requests : req'[q].op # "deleteVault"
    BY <2>1, <2>2 DEF BeginDeleteAccount, Idle
  <2>3. ASSUME NEW u \in Users, BeginCreateVault(r, u)
        PROVE  \A q \in Requests : req'[q].op # "deleteVault"
    BY <2>1, <2>3 DEF BeginCreateVault, Idle
  <2>4. ASSUME NEW u \in Users, NEW v \in Vaults, BeginCreateInvite(r, u, v)
        PROVE  \A q \in Requests : req'[q].op # "deleteVault"
    BY <2>1, <2>4 DEF BeginCreateInvite, Idle
  <2>5. ASSUME NEW u \in Users, NEW i \in Invites, BeginRevokeInvite(r, u, i)
        PROVE  \A q \in Requests : req'[q].op # "deleteVault"
    BY <2>1, <2>5 DEF BeginRevokeInvite, Idle
  <2>6. ASSUME NEW u \in Users, NEW i \in Invites, BeginAcceptInvite(r, u, i)
        PROVE  \A q \in Requests : req'[q].op # "deleteVault"
    BY <2>1, <2>6 DEF BeginAcceptInvite, Idle
  <2>7. ASSUME NEW u \in Users, NEW t \in Users, NEW v \in Vaults, BeginRemoveMember(r, u, v, t)
        PROVE  \A q \in Requests : req'[q].op # "deleteVault"
    BY <2>1, <2>7 DEF BeginRemoveMember, Idle
  <2> QED  BY <1>3, <1>7, <2>2, <2>3, <2>4, <2>5, <2>6, <2>7
<1>8. ASSUME NEW r \in Requests, NEW u \in Users, BeginDeleteAccount(r, u) \/ BeginCreateVault(r, u)
      PROVE  \A q \in Requests : Spare(req[q])'
  BY <1>7, <1>8
<1>9. ASSUME NEW r \in Requests, NEW u \in Users, NEW v \in Vaults, BeginDeleteVault(r, u, v)
       PROVE  \A q \in Requests : Spare(req[q])'
  <2>1. /\ \A q \in Requests : req'[q] = [Idle EXCEPT !.op = "deleteVault", !.user = u, !.vault = v,
                                                      !.audience = Members(v)]
        /\ UNCHANGED access
    BY <1>1, <1>9, OneBegins DEF BeginDeleteVault
  <2>2. \A q \in Requests : req'[q].vault = v /\ req'[q].user = u
    BY <2>1 DEF Idle
  <2>3. \E w \in Vaults : w # v /\ access[w][u] # "none"
    BY <1>9, AnotherVault DEF BeginDeleteVault
  <2> QED  BY <2>1, <2>2, <2>3 DEF Spare
<1>10. ASSUME NEW r \in Requests, CountAfterRemove(r)
       PROVE  \A q \in Requests : Spare(req[q])'
  <2>1. PICK few : req' = [req EXCEPT ![r] = [req[r] EXCEPT !.op = "removeMemberCounted",
                                                            !.alone = few]]
    BY <1>10 DEF CountAfterRemove
  <2>2. \A q \in Requests : req'[q].op = "removeMemberCounted"
    BY <1>1, <2>1 DEF Serial, IInv, TypeOK, Request
  <2> QED  BY <1>3, <2>2
<1>11. ASSUME NEW i \in Invites, LapseInvite(i) \/ PurgeInvite(i)
       PROVE  \A q \in Requests : Spare(req[q])'
  BY <1>2, <1>11 DEF LapseInvite, PurgeInvite
<1>12. CASE Next
  BY <1>5, <1>6, <1>7, <1>8, <1>9, <1>10, <1>11, <1>12 DEF Next
<1>13. CASE UNCHANGED vars
  BY <1>2, <1>13 DEF vars
<1> QED  BY <1>12, <1>13

\* A vault is deleted by the one request in flight, which leaves the spare one.
LEMMA NextKeepsAVault ==
  ASSUME Serial, SpareInv, [Next]_vars, NEW r \in Requests,
         req[r].op = "deleteVault", vault[req[r].vault] = "live",
         vault'[req[r].vault] = "deleted"
  PROVE  \E v \in Vaults : access'[v][req[r].user] # "none"
<1>1. IInv /\ Spare(req[r]) /\ req[r].vault \in Vaults /\ req[r].user \in Users
  BY DEF SpareInv, IInv, RequestsAreAddressed, Addressed
<1>2. ASSUME NEW q \in Requests
      PROVE  q = r
  BY DEF Serial
<1>3. CASE CommitDeleteVault(r)
  BY <1>1, <1>3 DEF CommitDeleteVault, CascadeRows, Spare
<1>4. ASSUME vault'[req[r].vault] = vault[req[r].vault]
      PROVE  FALSE
  BY <1>4
<1>5. ASSUME NEW q \in Requests, CommitDeleteAccount(q) \/ \E v \in Vaults : CommitCreateVault(q, v)
      PROVE  FALSE
  BY <1>2, <1>5 DEF CommitDeleteAccount, CommitCreateVault
<1>6. ASSUME NEW u \in Users, NEW v \in Vaults, Register(u, v)
      PROVE  FALSE
  BY <1>1, <1>4, <1>6 DEF Register, InsertVault, IInv, TypeOK
<1>7. CASE UNCHANGED vault
  BY <1>4, <1>7
<1>8. ASSUME NEW q \in Requests, CommitDeleteVault(q)
      PROVE  CommitDeleteVault(r)
  BY <1>2, <1>8
<1>9. ASSUME NEW q \in Requests,
             \/ \E u \in Users : BeginDeleteAccount(q, u) \/ BeginCreateVault(q, u)
             \/ \E u \in Users, v \in Vaults : BeginDeleteVault(q, u, v) \/ BeginCreateInvite(q, u, v)
             \/ \E u \in Users, i \in Invites : BeginRevokeInvite(q, u, i) \/ BeginAcceptInvite(q, u, i)
             \/ \E u, t \in Users, v \in Vaults : BeginRemoveMember(q, u, v, t)
             \/ \E i \in Invites : CommitCreateInvite(q, i)
             \/ CommitRevokeInvite(q) \/ CommitAcceptInvite(q) \/ CountAfterRemove(q)
             \/ CommitRemoveMember(q) \/ Abandon(q)
      PROVE  UNCHANGED vault
  BY <1>9 DEF BeginDeleteAccount, BeginCreateVault, BeginDeleteVault, BeginCreateInvite,
     BeginRevokeInvite, BeginAcceptInvite, BeginRemoveMember, Begin, CommitCreateInvite,
     CommitRevokeInvite, CommitAcceptInvite, CountAfterRemove, CommitRemoveMember, Abandon
<1>10. ASSUME NEW q \in Requests, NEW u \in Users, BeginDeleteAccount(q, u) \/ BeginCreateVault(q, u)
       PROVE  UNCHANGED vault
  BY <1>9, <1>10
<1>11. ASSUME NEW i \in Invites, LapseInvite(i) \/ PurgeInvite(i)
       PROVE  UNCHANGED vault
  BY <1>11 DEF LapseInvite, PurgeInvite
<1>12. CASE Next
  BY <1>3, <1>5, <1>6, <1>7, <1>8, <1>9, <1>10, <1>11, <1>12 DEF Next
<1>13. CASE UNCHANGED vars
  BY <1>7, <1>13 DEF vars
<1> QED  BY <1>12, <1>13

\* A vault delete never takes its owner's last vault, while requests do not
\* overlap: the count it was allowed on still stands when it commits.
THEOREM DeletesKeepALastVault ==
  ASSUME Serial, IsFiniteSet(Vaults)
  PROVE  Spec => DeleteKeepsALastVault
<1>1. Init => SpareInv
  BY InitInvariant DEF SpareInv, Spare, Init, Idle
<1>2. SpareInv /\ [Next]_vars => SpareInv'
  <2>1. IInv /\ [Next]_vars => IInv'
    BY NextType, NextOwner, NextInviteRows, NextAddressed DEF IInv
  <2> QED  BY <2>1, NextSpare DEF SpareInv
<1>3. SpareInv /\ [Next]_vars =>
        [\A r \in Requests :
           req[r].op = "deleteVault" /\ vault[req[r].vault] = "live"
             /\ vault'[req[r].vault] = "deleted" /\ account'[req[r].user] = "active"
           => \E v \in Vaults : access'[v][req[r].user] # "none"]_vars
  BY NextKeepsAVault
<1> QED  BY <1>1, <1>2, <1>3, PTL DEF Spec, DeleteKeepsALastVault
============================================================================
