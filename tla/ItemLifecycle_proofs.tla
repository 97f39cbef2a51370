------------------------ MODULE ItemLifecycle_proofs ------------------------
(***************************************************************************)
(* Proofs about ItemLifecycle, for every set of items, links and request   *)
(* slots, every limit and every window.                                    *)
(***************************************************************************)
EXTENDS ItemLifecycle, FiniteSetTheorems, TLAPS

------------------------------------------------------------------------
(* Type correctness.                                                       *)

\* A free slot, and every request a handler starts with, is well-typed.
LEMMA RequestTypes ==
  /\ Idle \in Request
  /\ \A q \in Request, op \in Op, i \in Items :
       [q EXCEPT !.op = op, !.item = i] \in Request
  BY DEF Idle, Request, Op

\* Starting and finishing a request keep the types.
LEMMA BeginType ==
  ASSUME TypeOK, NEW r \in Requests, NEW q \in Request, Begin(r, q)
  PROVE  TypeOK'
  BY DEF TypeOK, Begin

LEMMA FinishType ==
  ASSUME TypeOK, NEW r \in Requests, Finish(r)
  PROVE  req' \in [Requests -> Request]
  BY RequestTypes DEF TypeOK, Finish

\* Removing items keeps the types of the three columns it writes.
LEMMA RemoveType ==
  ASSUME TypeOK, NEW S, RemoveItems(S)
  PROVE  /\ item' \in [Items -> Item]
         /\ link' \in [Links -> Link]
         /\ trashedSince' \in [Items -> Instant]
  BY DEF TypeOK, RemoveItems, GoneLink, Item, Link, Status, Instant

\* The lifetime the server grants is a number of hours.
LEMMA GrantedType == \A hours \in Lifetimes : Granted(hours) \in Nat
  BY LimitAssumption DEF Granted

\* The clock reads a time, and one that may be stamped on a row.
LEMMA NowType == TypeOK => now \in Nat /\ now \in Instant
  BY LimitAssumption DEF TypeOK, Instant

LEMMA NextType == TypeOK /\ [Next]_vars => TypeOK'
<1> SUFFICES ASSUME TypeOK, [Next]_vars PROVE TypeOK'
  OBVIOUS
<1>1. ASSUME NEW r \in Requests, BeginCreateItem(r) PROVE TypeOK'
  <2>1. [Idle EXCEPT !.op = "createItem"] \in Request
    BY DEF Idle, Request, Op
  <2> QED BY <1>1, <2>1, BeginType DEF BeginCreateItem
<1>2. ASSUME NEW r \in Requests, NEW i \in Items, CommitCreateItem(r, i) PROVE TypeOK'
  BY <1>2, FinishType DEF TypeOK, CommitCreateItem, Item, Status
<1>3. ASSUME NEW r \in Requests, NEW i \in Items, NEW op \in {"trash", "restore", "delete"},
             BeginLifecycle(r, i, op)
      PROVE  TypeOK'
  <2>1. [Idle EXCEPT !.op = op, !.item = i] \in Request
    BY RequestTypes DEF Op
  <2> QED BY <1>3, <2>1, BeginType DEF BeginLifecycle
<1>4. ASSUME NEW r \in Requests, CommitTrash(r) PROVE TypeOK'
  <2>1. now \in Instant
    BY NowType
  <2>2. item' \in [Items -> Item]
    BY <1>4, <2>1 DEF TypeOK, CommitTrash, Item
  <2>3. trashedSince' \in [Items -> Instant]
    BY <1>4, <2>1 DEF TypeOK, CommitTrash
  <2> QED BY <1>4, <2>2, <2>3, FinishType DEF TypeOK, CommitTrash
<1>5. ASSUME NEW r \in Requests, CommitRestore(r) PROVE TypeOK'
  <2>1. item' \in [Items -> Item] /\ trashedSince' \in [Items -> Instant]
    BY <1>5 DEF TypeOK, CommitRestore, Item, Instant
  <2> QED BY <1>5, <2>1, FinishType DEF TypeOK, CommitRestore
<1>6. ASSUME NEW r \in Requests, CommitDelete(r) PROVE TypeOK'
  <2>1. RemoveItems({req[r].item})
    BY <1>6 DEF CommitDelete
  <2> QED BY <1>6, <2>1, RemoveType, FinishType DEF TypeOK, CommitDelete
<1>7. ASSUME NEW r \in Requests, NEW i \in Items, NEW hours \in Lifetimes,
             BeginCreateLink(r, i, hours)
      PROVE  TypeOK'
  <2>1. now + Granted(hours) \in Nat
    BY GrantedType, LimitAssumption DEF TypeOK
  <2>2. [Idle EXCEPT !.op = "createLink", !.item = i,
                     !.expiresAt = now + Granted(hours)] \in Request
    BY <2>1 DEF Idle, Request, Op
  <2> QED BY <1>7, <2>2, BeginType DEF BeginCreateLink
<1>8. ASSUME NEW r \in Requests, NEW l \in Links, CommitCreateLink(r, l) PROVE TypeOK'
  <2>1. req[r] \in Request
    BY DEF TypeOK
  <2>2. link' \in [Links -> Link]
    BY <1>8, <2>1 DEF TypeOK, CommitCreateLink, Link, Request, Status, Instant
  <2> QED BY <1>8, <2>2, FinishType DEF TypeOK, CommitCreateLink
<1>9. ASSUME NEW r \in Requests, NEW l \in Links, BeginRevokeLink(r, l) PROVE TypeOK'
  <2>1. [Idle EXCEPT !.op = "revokeLink", !.link = l] \in Request
    BY DEF Idle, Request, Op
  <2> QED BY <1>9, <2>1, BeginType DEF BeginRevokeLink
<1>10. ASSUME NEW r \in Requests, CommitRevokeLink(r) PROVE TypeOK'
  <2>1. now \in Instant
    BY NowType
  <2>2. link' \in [Links -> Link]
    BY <1>10, <2>1 DEF TypeOK, CommitRevokeLink, Link
  <2> QED BY <1>10, <2>2, FinishType DEF TypeOK, CommitRevokeLink
<1>11. ASSUME NEW r \in Requests, NEW l \in Links, RedeemLink(r, l) PROVE TypeOK'
  <2>1. link[l].item \in Items \cup {NoItem}
    BY DEF TypeOK, Link
  <2>2. [Idle EXCEPT !.op = "open", !.link = l, !.item = link[l].item] \in Request
    BY <2>1 DEF Idle, Request, Op
  <2> QED BY <1>11, <2>2 DEF TypeOK, RedeemLink
<1>12. ASSUME NEW r \in Requests, ServeItem(r) PROVE TypeOK'
  <2>1. ASSUME NEW l \in Links
        PROVE  served'[l] = served[l] \/ served'[l] = served[l] + 1
    BY <1>12 DEF TypeOK, ServeItem
  <2>2. DOMAIN served' = Links /\ served' = [l \in Links |-> served'[l]]
    BY <1>12 DEF TypeOK, ServeItem
  <2>3. served' \in [Links -> Nat]
    BY <2>1, <2>2 DEF TypeOK
  <2> QED BY <1>12, <2>3, FinishType DEF TypeOK, ServeItem
<1>13. ASSUME NEW r \in Requests, Abandon(r) PROVE TypeOK'
  BY <1>13, FinishType DEF TypeOK, Abandon
<1>14. CASE BeginPurge
  BY <1>14 DEF TypeOK, BeginPurge, Instant
<1>15. CASE PurgeTrashedItems
  BY <1>15, RemoveType DEF TypeOK, PurgeTrashedItems, Instant
<1>16. CASE PurgeLapsedShareLinks
  BY <1>16 DEF TypeOK, PurgeLapsedShareLinks, GoneLink, Link, Status, Instant
<1>17. CASE Tick
  BY <1>17, LimitAssumption DEF TypeOK, Tick
<1>18. CASE UNCHANGED vars
  BY <1>18 DEF TypeOK, vars
<1> QED BY <1>1, <1>2, <1>3, <1>4, <1>5, <1>6, <1>7, <1>8, <1>9, <1>10, <1>11,
           <1>12, <1>13, <1>14, <1>15, <1>16, <1>17, <1>18 DEF Next

LEMMA InitType == Init => TypeOK
<1> SUFFICES ASSUME Init PROVE TypeOK
  OBVIOUS
<1>1. now \in 0..MaxTime
  BY LimitAssumption DEF Init
<1>2. item \in [Items -> Item] /\ link \in [Links -> Link]
  BY DEF Init, Item, Link, Status, Instant
<1>3. req \in [Requests -> Request]
  BY RequestTypes DEF Init
<1> QED BY <1>1, <1>2, <1>3 DEF Init, TypeOK, Instant

\* The rows, the requests and the purge have their types in every reachable
\* state: what a handler read is always something it can act on.
THEOREM TypeCorrect == Spec => []TypeOK
<1>1. Init => TypeOK
  BY InitType
<1>2. TypeOK /\ [Next]_vars => TypeOK'
  BY NextType
<1> QED BY <1>1, <1>2, PTL DEF Spec
------------------------------------------------------------------------
(* Views.  Only a redemption adds to the opens under way, and it counts     *)
(* the view in the same step; only ServeItem hands anything out.           *)

\* The step neither opens through a link nor serves.
NothingOpens ==
  /\ views' = views /\ served' = served
  /\ \A l \in Links : Opening(l)' \subseteq Opening(l)

\* A step on the requests that starts no open.
LEMMA OpensFrame ==
  ASSUME TypeOK, views' = views, served' = served,
         \A s \in Requests : req'[s] = req[s] \/ req'[s].op # "open"
  PROVE  NothingOpens
  BY DEF NothingOpens, Opening

LEMMA OpeningStep ==
  ASSUME TypeOK, [Next]_vars
  PROVE  \/ \E r \in Requests, l \in Links : RedeemLink(r, l)
         \/ \E r \in Requests : ServeItem(r)
         \/ NothingOpens
<1>1. ASSUME NEW r \in Requests, NEW q, q.op # "open", Begin(r, q) PROVE NothingOpens
  BY <1>1, OpensFrame DEF TypeOK, Begin
<1>2. ASSUME NEW r \in Requests, Finish(r), views' = views, served' = served
      PROVE  NothingOpens
  BY <1>2, OpensFrame DEF TypeOK, Finish, Idle
<1>3. ASSUME NEW r \in Requests, BeginCreateItem(r) PROVE NothingOpens
  BY <1>3, <1>1 DEF BeginCreateItem, Idle
<1>4. ASSUME NEW r \in Requests, NEW i \in Items, NEW op \in {"trash", "restore", "delete"},
             BeginLifecycle(r, i, op)
      PROVE  NothingOpens
  BY <1>4, <1>1 DEF BeginLifecycle, Idle
<1>5. ASSUME NEW r \in Requests, NEW i \in Items, NEW hours \in Lifetimes,
             BeginCreateLink(r, i, hours)
      PROVE  NothingOpens
  BY <1>5, <1>1 DEF BeginCreateLink, Idle
<1>6. ASSUME NEW r \in Requests, NEW l \in Links, BeginRevokeLink(r, l) PROVE NothingOpens
  BY <1>6, <1>1 DEF BeginRevokeLink, Idle
<1>7. ASSUME NEW r \in Requests,
             \/ \E i \in Items : CommitCreateItem(r, i)
             \/ CommitTrash(r) \/ CommitRestore(r) \/ CommitDelete(r)
             \/ \E l \in Links : CommitCreateLink(r, l)
             \/ CommitRevokeLink(r) \/ Abandon(r)
      PROVE  NothingOpens
  BY <1>7, <1>2 DEF CommitCreateItem, CommitTrash, CommitRestore, CommitDelete,
                    CommitCreateLink, CommitRevokeLink, Abandon
<1>8. CASE BeginPurge \/ PurgeTrashedItems \/ PurgeLapsedShareLinks \/ Tick \/ UNCHANGED vars
  BY <1>8, OpensFrame
     DEF BeginPurge, PurgeTrashedItems, PurgeLapsedShareLinks, Tick, vars
<1> QED BY <1>3, <1>4, <1>5, <1>6, <1>7, <1>8 DEF Next

\* The opens of a link are finitely many.
LEMMA OpeningFinite ==
  \A l \in Links : IsFiniteSet(Opening(l)) /\ Cardinality(Opening(l)) \in Nat
<1> TAKE l \in Links
<1>1. Opening(l) \subseteq Requests
  BY DEF Opening
<1> QED BY <1>1, FiniteAssumption, FS_Subset, FS_CardinalityType

LEMMA NextCounts ==
  ASSUME TypeOK, EveryViewIsCounted, [Next]_vars
  PROVE  EveryViewIsCounted'
<1> SUFFICES ASSUME NEW l \in Links
             PROVE  served'[l] + Cardinality(Opening(l)') <= views'[l]
  BY DEF EveryViewIsCounted
<1>1. /\ served[l] \in Nat /\ views[l] \in Nat
      /\ IsFiniteSet(Opening(l)) /\ Cardinality(Opening(l)) \in Nat
      /\ served[l] + Cardinality(Opening(l)) <= views[l]
  BY OpeningFinite DEF TypeOK, EveryViewIsCounted
<1>2. ASSUME NEW r \in Requests, NEW k \in Links, RedeemLink(r, k)
      PROVE  served'[l] + Cardinality(Opening(l)') <= views'[l]
  <2> DEFINE q == [Idle EXCEPT !.op = "open", !.link = k, !.item = link[k].item]
  <2>1. q.op = "open" /\ q.link = k /\ req[r].op = "idle"
    BY <1>2 DEF RedeemLink, Idle
  <2>2. req' = [req EXCEPT ![r] = q] /\ served'[l] = served[l]
    BY <1>2 DEF RedeemLink
  <2> HIDE DEF q
  <2>3. CASE k = l
    <3>1. r \notin Opening(l) /\ Opening(l)' = Opening(l) \cup {r}
      BY <2>1, <2>2, <2>3 DEF TypeOK, Opening
    <3>2. Cardinality(Opening(l) \cup {r}) = Cardinality(Opening(l)) + 1
      BY <1>1, <3>1, FS_AddElement
    <3>3. Cardinality(Opening(l)') = Cardinality(Opening(l)) + 1
      BY <3>1, <3>2
    <3>4. views'[l] = views[l] + 1
      BY <1>2, <2>3 DEF TypeOK, RedeemLink
    <3> QED BY <1>1, <2>2, <3>3, <3>4
  <2>4. CASE k # l
    <3>1. Opening(l)' = Opening(l)
      BY <2>1, <2>2, <2>4 DEF TypeOK, Opening
    <3>2. views'[l] = views[l]
      BY <1>2, <2>4 DEF TypeOK, RedeemLink
    <3> QED BY <1>1, <2>2, <3>1, <3>2
  <2> QED BY <2>3, <2>4
<1>3. ASSUME NEW r \in Requests, ServeItem(r)
      PROVE  served'[l] + Cardinality(Opening(l)') <= views'[l]
  <2>1. views'[l] = views[l]
    BY <1>3 DEF ServeItem
  <2>2. CASE req[r].link = l
    <3>1. r \in Opening(l) /\ Opening(l)' = Opening(l) \ {r}
      BY <1>3, <2>2 DEF TypeOK, ServeItem, Finish, Opening, Idle
    <3>2. Cardinality(Opening(l)') = Cardinality(Opening(l)) - 1
      BY <1>1, <3>1, FS_RemoveElement
    <3>3. served'[l] = served[l] + 1
      BY <1>3, <2>2 DEF TypeOK, ServeItem
    <3> QED BY <1>1, <2>1, <3>2, <3>3
  <2>3. CASE req[r].link # l
    <3>1. Opening(l)' = Opening(l)
      BY <1>3, <2>3 DEF TypeOK, ServeItem, Finish, Opening, Idle
    <3>2. served'[l] = served[l]
      BY <1>3, <2>3 DEF TypeOK, ServeItem
    <3> QED BY <1>1, <2>1, <3>1, <3>2
  <2> QED BY <2>2, <2>3
<1>4. CASE NothingOpens
  <2>1. Opening(l)' \in SUBSET Opening(l) /\ views'[l] = views[l] /\ served'[l] = served[l]
    BY <1>4 DEF NothingOpens
  <2>2. IsFiniteSet(Opening(l)') /\ Cardinality(Opening(l)') <= Cardinality(Opening(l))
    BY <1>1, <2>1, FS_Subset
  <2>3. Cardinality(Opening(l)') \in Nat
    BY <2>2, FS_CardinalityType
  <2> QED BY <1>1, <2>1, <2>2, <2>3
<1> QED BY <1>2, <1>3, <1>4, OpeningStep

\* The view count of a link never misses a view, for any number of opens that
\* overlap, fail or find the item in the trash.
THEOREM ViewsCounted == Spec => []EveryViewIsCounted
<1>1. Init => EveryViewIsCounted
  <2> SUFFICES ASSUME Init, NEW l \in Links
               PROVE  served[l] + Cardinality(Opening(l)) <= views[l]
    BY DEF EveryViewIsCounted
  <2>1. Opening(l) = {}
    BY DEF Init, Opening, Idle
  <2> QED BY <2>1, FS_EmptySet DEF Init
<1>2. TypeOK /\ EveryViewIsCounted /\ [Next]_vars => EveryViewIsCounted'
  BY NextCounts
<1> QED BY <1>1, <1>2, TypeCorrect, PTL DEF Spec
------------------------------------------------------------------------
(* Dead links.                                                             *)

\* A redemption, a creation and a revocation touch one link each; every other
\* step leaves the links alone, removes some of them, or lets time pass.
DeadStays(l) ==
  link[l].status # "unborn" /\ ~LinkIsLive(l)
    => ~LinkIsLive(l)' /\ views'[l] = views[l]

\* A step that writes neither a link, a count nor the clock.
LEMMA DeadFrame ==
  ASSUME now' = now, link' = link, views' = views
  PROVE  \A l \in Links : DeadStays(l)
  BY DEF DeadStays, LinkIsLive

\* Removing items removes links, and removing a link does not revive it.
LEMMA DeadRemoved ==
  ASSUME TypeOK, NEW S, RemoveItems(S), now' = now, views' = views
  PROVE  \A l \in Links : DeadStays(l)
  BY DEF TypeOK, RemoveItems, GoneLink, DeadStays, LinkIsLive

LEMMA NextKeepsDead ==
  ASSUME TypeOK, [Next]_vars
  PROVE  \A l \in Links : DeadStays(l)
<1>1. ASSUME NEW r \in Requests, NEW l \in Links, CommitCreateLink(r, l)
      PROVE  \A k \in Links : DeadStays(k)
  BY <1>1 DEF TypeOK, CommitCreateLink, DeadStays, LinkIsLive
<1>2. ASSUME NEW r \in Requests, CommitRevokeLink(r)
      PROVE  \A k \in Links : DeadStays(k)
  <2> SUFFICES ASSUME NEW k \in Links PROVE DeadStays(k)
    OBVIOUS
  <2>1. /\ link'[k].status = link[k].status
        /\ link'[k].expiresAt = link[k].expiresAt
        /\ link[k].revokedAt # Never => link'[k].revokedAt = link[k].revokedAt
    BY <1>2 DEF TypeOK, CommitRevokeLink, Link
  <2>2. now' = now /\ views' = views
    BY <1>2 DEF CommitRevokeLink
  <2> QED BY <2>1, <2>2 DEF DeadStays, LinkIsLive
<1>3. ASSUME NEW r \in Requests, NEW l \in Links, RedeemLink(r, l)
      PROVE  \A k \in Links : DeadStays(k)
  BY <1>3 DEF TypeOK, RedeemLink, DeadStays, LinkIsLive
<1>4. ASSUME NEW r \in Requests, CommitDelete(r)
      PROVE  \A k \in Links : DeadStays(k)
  BY <1>4, DeadRemoved DEF CommitDelete
<1>5. CASE PurgeTrashedItems
  BY <1>5, DeadRemoved DEF PurgeTrashedItems
<1>6. CASE PurgeLapsedShareLinks
  BY <1>6 DEF TypeOK, PurgeLapsedShareLinks, GoneLink, DeadStays, LinkIsLive
<1>7. CASE Tick
  <2> SUFFICES ASSUME NEW k \in Links PROVE DeadStays(k)
    OBVIOUS
  <2>1. link[k].expiresAt \in Nat /\ now \in Nat
    BY NowType DEF TypeOK, Link
  <2> QED BY <1>7, <2>1 DEF Tick, DeadStays, LinkIsLive
<1>8. ASSUME NEW r \in Requests,
             \/ BeginCreateItem(r)
             \/ \E i \in Items : CommitCreateItem(r, i)
             \/ \E i \in Items, op \in {"trash", "restore", "delete"} :
                  BeginLifecycle(r, i, op)
             \/ CommitTrash(r) \/ CommitRestore(r)
             \/ \E i \in Items, hours \in Lifetimes : BeginCreateLink(r, i, hours)
             \/ \E l \in Links : BeginRevokeLink(r, l)
             \/ ServeItem(r) \/ Abandon(r)
      PROVE  \A k \in Links : DeadStays(k)
  BY <1>8, DeadFrame
     DEF Begin, BeginCreateItem, CommitCreateItem, BeginLifecycle, CommitTrash,
         CommitRestore, BeginCreateLink, BeginRevokeLink, ServeItem, Abandon
<1>9. CASE BeginPurge \/ UNCHANGED vars
  BY <1>9, DeadFrame DEF BeginPurge, vars
<1> QED BY <1>1, <1>2, <1>3, <1>4, <1>5, <1>6, <1>7, <1>8, <1>9 DEF Next

\* A dead link is never redeemed and never revived, for any number of links,
\* requests, purges and hours.
THEOREM LinksStayDead == Spec => DeadLinkStaysDead
<1>1. TypeOK /\ [Next]_vars =>
        [\A l \in Links :
           link[l].status # "unborn" /\ ~LinkIsLive(l)
             => ~LinkIsLive(l)' /\ views'[l] = views[l]]_vars
  BY NextKeepsDead DEF DeadStays
<1> QED BY <1>1, TypeCorrect, PTL DEF Spec, DeadLinkStaysDead

------------------------------------------------------------------------
(* Retention.  The purge looks at DeletedAt and at a clock it read          *)
(* earlier; what ties them to the time an item really spent in the trash   *)
(* is that DeletedAt is never older than that time's beginning, and the    *)
(* purge's clock never ahead of the present.                               *)

StampsAgree ==
  \A i \in Items :
    \/ item[i].deletedAt = Never /\ trashedSince[i] = Never
    \/ /\ item[i].deletedAt \in Nat /\ trashedSince[i] \in Nat
       /\ trashedSince[i] <= item[i].deletedAt
       /\ item[i].deletedAt <= now
PurgeIsBehind == purge = Never \/ (purge \in Nat /\ purge <= now)
Stamps == StampsAgree /\ PurgeIsBehind

LEMMA StampsFrame ==
  ASSUME TypeOK, Stamps, now' = now, item' = item, trashedSince' = trashedSince,
         purge' = purge
  PROVE  Stamps'
  BY DEF Stamps, StampsAgree, PurgeIsBehind

LEMMA StampsRemoved ==
  ASSUME TypeOK, Stamps, NEW S, RemoveItems(S), now' = now
  PROVE  StampsAgree'
  BY DEF TypeOK, Stamps, StampsAgree, RemoveItems

LEMMA NextStamps ==
  ASSUME TypeOK, Stamps, [Next]_vars
  PROVE  Stamps'
<1>1. now \in Nat /\ now # Never
  BY NowType, NoneAssumption
<1>2. ASSUME NEW r \in Requests, NEW i \in Items, CommitCreateItem(r, i) PROVE Stamps'
  <2>1. \A k \in Items : item'[k].deletedAt = item[k].deletedAt
    BY <1>2 DEF TypeOK, CommitCreateItem, Item
  <2> QED BY <1>2, <2>1 DEF CommitCreateItem, Stamps, StampsAgree, PurgeIsBehind
<1>3. ASSUME NEW r \in Requests, CommitTrash(r) PROVE Stamps'
  <2>1. ASSUME NEW k \in Items
        PROVE  \/ /\ item'[k].deletedAt = item[k].deletedAt
                  /\ trashedSince'[k] = trashedSince[k]
               \/ /\ item'[k].deletedAt = now
                  /\ trashedSince'[k] = IF trashedSince[k] = Never THEN now
                                                                   ELSE trashedSince[k]
    BY <1>3 DEF TypeOK, CommitTrash, Item
  <2>2. now' = now /\ purge' = purge
    BY <1>3 DEF CommitTrash
  <2> QED BY <1>1, <2>1, <2>2, NoneAssumption DEF Stamps, StampsAgree, PurgeIsBehind
<1>4. ASSUME NEW r \in Requests, CommitRestore(r) PROVE Stamps'
  <2>1. ASSUME NEW k \in Items
        PROVE  \/ /\ item'[k].deletedAt = item[k].deletedAt
                  /\ trashedSince'[k] = trashedSince[k]
               \/ item'[k].deletedAt = Never /\ trashedSince'[k] = Never
    BY <1>4 DEF TypeOK, CommitRestore, Item
  <2>2. now' = now /\ purge' = purge
    BY <1>4 DEF CommitRestore
  <2> QED BY <2>1, <2>2 DEF Stamps, StampsAgree, PurgeIsBehind
<1>5. ASSUME NEW r \in Requests, CommitDelete(r) PROVE Stamps'
  BY <1>5, StampsRemoved DEF CommitDelete, Stamps, PurgeIsBehind
<1>6. CASE BeginPurge
  BY <1>1, <1>6 DEF BeginPurge, Stamps, StampsAgree, PurgeIsBehind
<1>7. CASE PurgeTrashedItems
  BY <1>7, StampsRemoved DEF PurgeTrashedItems, Stamps, PurgeIsBehind
<1>8. CASE Tick
  BY <1>1, <1>8 DEF Tick, Stamps, StampsAgree, PurgeIsBehind
<1>9. ASSUME NEW r \in Requests,
             \/ BeginCreateItem(r)
             \/ \E i \in Items, op \in {"trash", "restore", "delete"} :
                  BeginLifecycle(r, i, op)
             \/ \E i \in Items, hours \in Lifetimes : BeginCreateLink(r, i, hours)
             \/ \E l \in Links : CommitCreateLink(r, l)
             \/ \E l \in Links : BeginRevokeLink(r, l)
             \/ CommitRevokeLink(r)
             \/ \E l \in Links : RedeemLink(r, l)
             \/ ServeItem(r) \/ Abandon(r)
      PROVE  Stamps'
  BY <1>9, StampsFrame
     DEF Begin, BeginCreateItem, BeginLifecycle, BeginCreateLink, CommitCreateLink,
         BeginRevokeLink, CommitRevokeLink, RedeemLink, ServeItem, Abandon
<1>10. CASE PurgeLapsedShareLinks \/ UNCHANGED vars
  BY <1>10, StampsFrame DEF PurgeLapsedShareLinks, vars
<1> QED BY <1>2, <1>3, <1>4, <1>5, <1>6, <1>7, <1>8, <1>9, <1>10 DEF Next

\* Why an item may leave in a step.
MayLeave(i) ==
  \/ \E r \in Requests : req[r].op = "delete" /\ req[r].item = i /\ req'[r] = Idle
  \/ Before(trashedSince[i], now, TrashRetention)

LEMMA NextHonours ==
  ASSUME TypeOK, Stamps, [Next]_vars, NEW i \in Items, Stored(i), ~Stored(i)'
  PROVE  MayLeave(i)
<1>1. ASSUME NEW r \in Requests, CommitDelete(r) PROVE MayLeave(i)
  <2>1. i = req[r].item
    BY <1>1 DEF TypeOK, CommitDelete, RemoveItems, Stored
  <2>2. req'[r] = Idle /\ req[r].op = "delete"
    BY <1>1 DEF TypeOK, CommitDelete, Finish
  <2> QED BY <2>1, <2>2 DEF MayLeave
<1>2. CASE PurgeTrashedItems
  <2>1. Before(item[i].deletedAt, purge, TrashRetention) /\ purge # Never
    BY <1>2 DEF TypeOK, PurgeTrashedItems, RemoveItems, Stored
  <2>2. /\ trashedSince[i] \in Nat /\ item[i].deletedAt \in Nat /\ purge \in Nat
        /\ trashedSince[i] <= item[i].deletedAt /\ purge <= now
    BY <2>1 DEF Stamps, StampsAgree, PurgeIsBehind, Before
  <2>3. now \in Nat /\ trashedSince[i] # Never /\ TrashRetention \in Nat
    BY <2>2, NowType, NoneAssumption, LimitAssumption
  <2>4. item[i].deletedAt + TrashRetention < purge
    BY <2>1 DEF Before
  <2>5. trashedSince[i] + TrashRetention < now
    BY <2>2, <2>3, <2>4
  <2> QED BY <2>3, <2>5 DEF MayLeave, Before
<1>3. ASSUME NEW r \in Requests, NEW k \in Items, CommitCreateItem(r, k) PROVE FALSE
  BY <1>3 DEF TypeOK, CommitCreateItem, Item, Stored
<1>4. ASSUME NEW r \in Requests, CommitTrash(r) \/ CommitRestore(r) PROVE FALSE
  BY <1>4 DEF TypeOK, CommitTrash, CommitRestore, Item, Stored
<1>5. ASSUME item' = item PROVE FALSE
  BY <1>5 DEF Stored
<1>6. ASSUME NEW r \in Requests,
             \/ BeginCreateItem(r)
             \/ \E k \in Items, op \in {"trash", "restore", "delete"} :
                  BeginLifecycle(r, k, op)
             \/ \E k \in Items, hours \in Lifetimes : BeginCreateLink(r, k, hours)
             \/ \E l \in Links : CommitCreateLink(r, l)
             \/ \E l \in Links : BeginRevokeLink(r, l)
             \/ CommitRevokeLink(r)
             \/ \E l \in Links : RedeemLink(r, l)
             \/ ServeItem(r) \/ Abandon(r)
      PROVE  FALSE
  BY <1>5, <1>6
     DEF Begin, BeginCreateItem, BeginLifecycle, BeginCreateLink, CommitCreateLink,
         BeginRevokeLink, CommitRevokeLink, RedeemLink, ServeItem, Abandon
<1>7. CASE BeginPurge \/ PurgeLapsedShareLinks \/ Tick \/ UNCHANGED vars
  BY <1>5, <1>7 DEF BeginPurge, PurgeLapsedShareLinks, Tick, vars
<1> QED BY <1>1, <1>2, <1>3, <1>4, <1>6, <1>7 DEF Next

\* No purge removes an item before its retention is over, however long the job
\* waits between its cutoff and its DELETE and whatever restores it overlaps.
THEOREM Retention == Spec => RetentionIsHonoured
<1>1. Init => Stamps
  BY DEF Init, Stamps, StampsAgree, PurgeIsBehind
<1>2. TypeOK /\ Stamps /\ [Next]_vars => Stamps'
  BY NextStamps
<1>3. TypeOK /\ Stamps /\ [Next]_vars =>
        [\A i \in Items :
           Stored(i) /\ ~Stored(i)' =>
             \/ \E r \in Requests : /\ req[r].op = "delete" /\ req[r].item = i
                                    /\ req'[r] = Idle
             \/ Before(trashedSince[i], now, TrashRetention)]_vars
  BY NextHonours DEF MayLeave
<1> QED BY <1>1, <1>2, <1>3, TypeCorrect, PTL DEF Spec, RetentionIsHonoured
------------------------------------------------------------------------
(* The limit on links.  An item's active links and the creates under way    *)
(* together only grow when a create begins, below the limit; its insert     *)
(* moves it from the second to the first.                                  *)

Load(i) == Cardinality(ActiveLinks(i)) + Cardinality(Linking(i))

LEMMA LoadFinite ==
  \A i \in Items : /\ IsFiniteSet(ActiveLinks(i)) /\ Cardinality(ActiveLinks(i)) \in Nat
                   /\ IsFiniteSet(Linking(i)) /\ Cardinality(Linking(i)) \in Nat
<1> TAKE i \in Items
<1>1. ActiveLinks(i) \subseteq Links /\ Linking(i) \subseteq Requests
  BY DEF ActiveLinks, Linking
<1> QED BY <1>1, FiniteAssumption, FS_Subset, FS_CardinalityType

\* The step adds neither an active link nor a create.
LoadShrinks ==
  \A i \in Items : ActiveLinks(i)' \subseteq ActiveLinks(i) /\ Linking(i)' \subseteq Linking(i)

\* A link that lives after such a step lived before it, for the same item.
LinksShrink ==
  \A l \in Links : LinkIsLive(l)' => LinkIsLive(l) /\ link'[l].item = link[l].item

\* Such a step begins no create.
CreatesShrink ==
  \A s \in Requests : req'[s] = req[s] \/ req'[s].op # "createLink"

LEMMA ShrinksTogether ==
  ASSUME LinksShrink, CreatesShrink
  PROVE  LoadShrinks
  BY DEF LinksShrink, CreatesShrink, LoadShrinks, ActiveLinks, Linking

LEMMA BeginShrinks ==
  ASSUME TypeOK, NEW r \in Requests, NEW q, q.op # "createLink", Begin(r, q)
  PROVE  LoadShrinks
<1>1. LinksShrink
  BY DEF Begin, LinksShrink, LinkIsLive
<1>2. CreatesShrink
  BY DEF TypeOK, Begin, CreatesShrink
<1> QED BY <1>1, <1>2, ShrinksTogether

LEMMA FinishShrinks ==
  ASSUME TypeOK, NEW r \in Requests, Finish(r)
  PROVE  CreatesShrink
  BY DEF TypeOK, Finish, Idle, CreatesShrink

LEMMA RemoveShrinks ==
  ASSUME TypeOK, NEW S, RemoveItems(S), now' = now
  PROVE  LinksShrink
  BY DEF TypeOK, RemoveItems, GoneLink, LinksShrink, LinkIsLive

LEMMA LoadStep ==
  ASSUME TypeOK, [Next]_vars
  PROVE  \/ \E r \in Requests, i \in Items, hours \in Lifetimes : BeginCreateLink(r, i, hours)
         \/ \E r \in Requests, l \in Links : CommitCreateLink(r, l)
         \/ LoadShrinks
<1>1. ASSUME NEW r \in Requests,
             \/ BeginCreateItem(r)
             \/ \E i \in Items, op \in {"trash", "restore", "delete"} :
                  BeginLifecycle(r, i, op)
             \/ \E l \in Links : BeginRevokeLink(r, l)
      PROVE  LoadShrinks
  <2>1. ASSUME BeginCreateItem(r) PROVE LoadShrinks
    BY <2>1, BeginShrinks DEF BeginCreateItem, Idle
  <2>2. ASSUME NEW i \in Items, NEW op \in {"trash", "restore", "delete"},
               BeginLifecycle(r, i, op)
        PROVE  LoadShrinks
    BY <2>2, BeginShrinks DEF BeginLifecycle, Idle
  <2>3. ASSUME NEW l \in Links, BeginRevokeLink(r, l) PROVE LoadShrinks
    BY <2>3, BeginShrinks DEF BeginRevokeLink, Idle
  <2> QED BY <1>1, <2>1, <2>2, <2>3
<1>2. ASSUME NEW r \in Requests,
             \/ \E i \in Items : CommitCreateItem(r, i)
             \/ CommitTrash(r) \/ CommitRestore(r)
             \/ ServeItem(r) \/ Abandon(r)
      PROVE  LoadShrinks
  <2>1. LinksShrink
    BY <1>2 DEF CommitCreateItem, CommitTrash, CommitRestore, ServeItem, Abandon,
                LinksShrink, LinkIsLive
  <2>2. Finish(r)
    BY <1>2 DEF CommitCreateItem, CommitTrash, CommitRestore, ServeItem, Abandon
  <2> QED BY <2>1, <2>2, FinishShrinks, ShrinksTogether
<1>3. ASSUME NEW r \in Requests, CommitDelete(r) PROVE LoadShrinks
  BY <1>3, RemoveShrinks, FinishShrinks, ShrinksTogether DEF CommitDelete
<1>4. ASSUME NEW r \in Requests, CommitRevokeLink(r) PROVE LoadShrinks
  <2>1. ASSUME NEW k \in Links
        PROVE  /\ link'[k].status = link[k].status /\ link'[k].item = link[k].item
               /\ link'[k].expiresAt = link[k].expiresAt
               /\ link[k].revokedAt # Never => link'[k].revokedAt = link[k].revokedAt
    BY <1>4 DEF TypeOK, CommitRevokeLink, Link
  <2>2. LinksShrink
    BY <1>4, <2>1 DEF CommitRevokeLink, LinksShrink, LinkIsLive
  <2> QED BY <1>4, <2>2, FinishShrinks, ShrinksTogether DEF CommitRevokeLink
<1>5. ASSUME NEW r \in Requests, NEW l \in Links, RedeemLink(r, l) PROVE LoadShrinks
  <2>1. LinksShrink
    BY <1>5 DEF RedeemLink, LinksShrink, LinkIsLive
  <2>2. CreatesShrink
    BY <1>5 DEF TypeOK, RedeemLink, Idle, CreatesShrink
  <2> QED BY <2>1, <2>2, ShrinksTogether
<1>6. CASE BeginPurge \/ PurgeTrashedItems \/ PurgeLapsedShareLinks \/ Tick \/ UNCHANGED vars
  <2>1. CreatesShrink
    BY <1>6 DEF BeginPurge, PurgeTrashedItems, PurgeLapsedShareLinks, Tick, vars,
                CreatesShrink
  <2>2. CASE BeginPurge \/ UNCHANGED vars
    BY <2>1, <2>2, ShrinksTogether DEF BeginPurge, vars, LinksShrink, LinkIsLive
  <2>3. CASE PurgeTrashedItems
    BY <2>1, <2>3, RemoveShrinks, ShrinksTogether DEF PurgeTrashedItems
  <2>4. CASE PurgeLapsedShareLinks
    <3>1. LinksShrink
      BY <2>4 DEF TypeOK, PurgeLapsedShareLinks, GoneLink, LinksShrink, LinkIsLive
    <3> QED BY <2>1, <3>1, ShrinksTogether
  <2>5. CASE Tick
    <3>1. ASSUME NEW k \in Links, LinkIsLive(k)' PROVE LinkIsLive(k) /\ link' = link
      <4>1. link[k].expiresAt \in Nat /\ now \in Nat
        BY NowType DEF TypeOK, Link
      <4> QED BY <2>5, <3>1, <4>1 DEF Tick, LinkIsLive
    <3>2. LinksShrink
      BY <3>1 DEF LinksShrink
    <3> QED BY <2>1, <3>2, ShrinksTogether
  <2> QED BY <1>6, <2>2, <2>3, <2>4, <2>5
<1> QED BY <1>1, <1>2, <1>3, <1>4, <1>5, <1>6 DEF Next

\* A load that shrinks in both parts is no greater.
LEMMA LoadSmaller ==
  ASSUME NEW i \in Items,
         ActiveLinks(i)' \subseteq ActiveLinks(i), Linking(i)' \subseteq Linking(i)
  PROVE  Cardinality(ActiveLinks(i)') + Cardinality(Linking(i)') <= Load(i)
<1>1. /\ IsFiniteSet(ActiveLinks(i)') /\ IsFiniteSet(Linking(i)')
      /\ Cardinality(ActiveLinks(i)') <= Cardinality(ActiveLinks(i))
      /\ Cardinality(Linking(i)') <= Cardinality(Linking(i))
  BY LoadFinite, FS_Subset
<1>2. Cardinality(ActiveLinks(i)') \in Nat /\ Cardinality(Linking(i)') \in Nat
  BY <1>1, FS_CardinalityType
<1> QED BY <1>1, <1>2, LoadFinite DEF Load

LEMMA NextLoad ==
  ASSUME TypeOK, LinkCapOvershoot, [Next]_vars
  PROVE  LinkCapOvershoot'
<1> DEFINE Bound == (MaxActiveShareLinksPerItem - 1) + Cardinality(Requests)
<1> SUFFICES ASSUME NEW i \in Items
             PROVE  Cardinality(ActiveLinks(i)') + Cardinality(Linking(i)') <= Bound
  BY DEF LinkCapOvershoot
<1>1. /\ Load(i) <= Bound /\ Load(i) \in Nat
      /\ Cardinality(Requests) \in Nat /\ MaxActiveShareLinksPerItem \in Nat \ {0}
  BY LoadFinite, FiniteAssumption, FS_CardinalityType, LimitAssumption
     DEF LinkCapOvershoot, Load
<1>2. ASSUME ActiveLinks(i)' \subseteq ActiveLinks(i), Linking(i)' \subseteq Linking(i)
      PROVE  Cardinality(ActiveLinks(i)') + Cardinality(Linking(i)') <= Bound
  <2>1. Cardinality(ActiveLinks(i)') + Cardinality(Linking(i)') <= Load(i)
    BY <1>2, LoadSmaller
  <2>2. IsFiniteSet(ActiveLinks(i)') /\ IsFiniteSet(Linking(i)')
    BY <1>2, LoadFinite, FS_Subset
  <2>3. Cardinality(ActiveLinks(i)') \in Nat /\ Cardinality(Linking(i)') \in Nat
    BY <2>2, FS_CardinalityType
  <2> QED BY <1>1, <2>1, <2>3
<1>3. ASSUME NEW r \in Requests, NEW j \in Items, NEW hours \in Lifetimes,
             BeginCreateLink(r, j, hours)
      PROVE  Cardinality(ActiveLinks(i)') + Cardinality(Linking(i)') <= Bound
  <2> DEFINE q == [Idle EXCEPT !.op = "createLink", !.item = j,
                               !.expiresAt = now + Granted(hours)]
  <2>1. req' = [req EXCEPT ![r] = q] /\ q.item = j
    BY <1>3 DEF BeginCreateLink, Begin, Idle
  <2>2. ActiveLinks(i)' = ActiveLinks(i)
    BY <1>3 DEF BeginCreateLink, Begin, ActiveLinks, LinkIsLive
  <2> HIDE DEF q
  <2>3. CASE j = i
    <3>1. Cardinality(ActiveLinks(i)) < MaxActiveShareLinksPerItem
      BY <1>3, <2>3 DEF BeginCreateLink
    <3>2. Linking(i)' \in SUBSET Requests
      BY DEF Linking
    <3>3. IsFiniteSet(Linking(i)') /\ Cardinality(Linking(i)') <= Cardinality(Requests)
      BY <3>2, FiniteAssumption, FS_Subset
    <3>4. Cardinality(Linking(i)') \in Nat /\ Cardinality(ActiveLinks(i)) \in Nat
      BY <3>3, LoadFinite, FS_CardinalityType
    <3>5. Cardinality(ActiveLinks(i)') = Cardinality(ActiveLinks(i))
      BY <2>2
    <3> QED BY <1>1, <3>1, <3>3, <3>4, <3>5
  <2>4. CASE j # i
    <3>1. Linking(i)' \subseteq Linking(i)
      BY <2>1, <2>4 DEF TypeOK, Linking
    <3> QED BY <1>2, <2>2, <3>1
  <2> QED BY <2>3, <2>4
<1>4. ASSUME NEW r \in Requests, NEW l \in Links, CommitCreateLink(r, l)
      PROVE  Cardinality(ActiveLinks(i)') + Cardinality(Linking(i)') <= Bound
  <2>1. Linking(i)' = Linking(i) \ {r}
    BY <1>4 DEF TypeOK, CommitCreateLink, Finish, Idle, Linking
  <2>2. ASSUME NEW k \in Links, k # l PROVE link'[k] = link[k]
    BY <1>4, <2>2 DEF TypeOK, CommitCreateLink
  <2>3. link'[l].item = req[r].item /\ now' = now
    BY <1>4 DEF TypeOK, CommitCreateLink
  <2>4. CASE req[r].item = i
    <3>1. ActiveLinks(i)' \in SUBSET (ActiveLinks(i) \cup {l})
      BY <2>2, <2>3 DEF ActiveLinks, LinkIsLive
    <3>2. /\ IsFiniteSet(ActiveLinks(i) \cup {l})
          /\ Cardinality(ActiveLinks(i) \cup {l}) <= Cardinality(ActiveLinks(i)) + 1
      <4>1. IsFiniteSet(ActiveLinks(i)) /\ Cardinality(ActiveLinks(i)) \in Nat
        BY LoadFinite
      <4>2. /\ IsFiniteSet(ActiveLinks(i) \cup {l})
            /\ \/ Cardinality(ActiveLinks(i) \cup {l}) = Cardinality(ActiveLinks(i))
               \/ Cardinality(ActiveLinks(i) \cup {l}) = Cardinality(ActiveLinks(i)) + 1
        BY <4>1, FS_AddElement, Zenon
      <4> QED BY <4>1, <4>2
    <3>3. /\ IsFiniteSet(ActiveLinks(i)')
          /\ Cardinality(ActiveLinks(i)') <= Cardinality(ActiveLinks(i) \cup {l})
      BY <3>1, <3>2, FS_Subset
    <3>4. Cardinality(ActiveLinks(i)') \in Nat /\ Cardinality(ActiveLinks(i) \cup {l}) \in Nat
      BY <3>2, <3>3, FS_CardinalityType
    <3>5. r \in Linking(i)
      BY <1>4, <2>4 DEF CommitCreateLink, Linking
    <3>6. Cardinality(Linking(i) \ {r}) = Cardinality(Linking(i)) - 1
      BY <3>5, LoadFinite, FS_RemoveElement
    <3>7. Cardinality(Linking(i)') = Cardinality(Linking(i)) - 1
      BY <2>1, <3>6
    <3>8. /\ Cardinality(ActiveLinks(i)) \in Nat /\ Cardinality(Linking(i)) \in Nat
          /\ Cardinality(ActiveLinks(i)) + Cardinality(Linking(i)) <= Bound
      BY <1>1, LoadFinite DEF Load
    <3> HIDE DEF Bound
    <3>9. Cardinality(ActiveLinks(i)') <= Cardinality(ActiveLinks(i)) + 1
      BY <3>2, <3>3, <3>4, <3>8
    <3>10. Bound \in Int
      BY <1>1 DEF Bound
    <3> QED BY <3>4, <3>7, <3>8, <3>9, <3>10
  <2>5. CASE req[r].item # i
    <3>1. ActiveLinks(i)' \subseteq ActiveLinks(i)
      BY <2>2, <2>3, <2>5 DEF ActiveLinks, LinkIsLive
    <3> QED BY <1>2, <2>1, <3>1
  <2> QED BY <2>4, <2>5
<1>5. CASE LoadShrinks
  BY <1>2, <1>5 DEF LoadShrinks
<1> QED BY <1>3, <1>4, <1>5, LoadStep

\* The limit on an item's links is passed by no more than the creates that
\* overlap, for any limit and any number of requests.
THEOREM LinkCap == Spec => []LinkCapOvershoot
<1>1. Init => LinkCapOvershoot
  <2> SUFFICES ASSUME Init, NEW i \in Items
               PROVE  Cardinality(ActiveLinks(i)) + Cardinality(Linking(i))
                        <= (MaxActiveShareLinksPerItem - 1) + Cardinality(Requests)
    BY DEF LinkCapOvershoot
  <2>1. ActiveLinks(i) = {} /\ Linking(i) = {}
    BY DEF Init, ActiveLinks, LinkIsLive, Linking, Idle
  <2>2. Cardinality(Requests) \in Nat /\ MaxActiveShareLinksPerItem \in Nat \ {0}
    BY FiniteAssumption, FS_CardinalityType, LimitAssumption
  <2>3. Cardinality(ActiveLinks(i)) = 0 /\ Cardinality(Linking(i)) = 0
    BY <2>1, FS_EmptySet
  <2> QED BY <2>2, <2>3
<1>2. TypeOK /\ LinkCapOvershoot /\ [Next]_vars => LinkCapOvershoot'
  BY NextLoad
<1> QED BY <1>1, <1>2, TypeCorrect, PTL DEF Spec
============================================================================
