--------------------------- MODULE ItemLifecycle ---------------------------
(***************************************************************************)
(* The items of one vault, its trash, and the links that share an item:    *)
(* runtime/vault_view.go, runtime/share_view.go and the two jobs of        *)
(* jobs/purge.go that remove trashed items and lapsed links.               *)
(*                                                                         *)
(* As in VaultMembership a request is Begin, what it reads and refuses,    *)
(* and Commit, its transaction or statement.  Only the vault's owner       *)
(* writes, and the owner of a vault never changes, so who asks is left     *)
(* out; anybody who holds a link may open it.  UpdateItemAPI replaces two  *)
(* blobs that nothing here tells apart: it is a change of ChangeSync.      *)
(*                                                                         *)
(* trashedSince and served are history: no code reads them.                *)
(***************************************************************************)
EXTENDS Naturals, FiniteSets

CONSTANTS
  Items, Links,               \* row ids; each is minted at most once
  Requests,                   \* requests in flight at one time
  NoItem, NoLink, Never,
  MaxItemsPerVault,
  MaxActiveShareLinksPerItem,
  TrashRetention, SharingPurgeGrace,
  ShareLinkDefaultTTL, ShareLinkMaxTTL,
  Lifetimes,                  \* what a client may ask for, in hours
  MaxViews, MaxTime           \* bounds: of a link's views, of the clock

ASSUME NoneAssumption ==
  NoItem \notin Items /\ NoLink \notin Links /\ Never \notin Nat

ASSUME LimitAssumption ==
  /\ MaxItemsPerVault \in Nat \ {0}
  /\ MaxActiveShareLinksPerItem \in Nat \ {0}
  /\ TrashRetention \in Nat /\ SharingPurgeGrace \in Nat
  /\ ShareLinkDefaultTTL \in Nat /\ ShareLinkMaxTTL \in Nat
  /\ Lifetimes \subseteq Nat
  /\ MaxViews \in Nat /\ MaxTime \in Nat

ASSUME FiniteAssumption ==
  IsFiniteSet(Items) /\ IsFiniteSet(Links) /\ IsFiniteSet(Requests)

VARIABLES
  now,           \* the clock the server and the database share
  item,          \* item[i]: whether the row is there and its DeletedAt
  link,          \* link[l]: the row and its item, expiry and revocation
  views,         \* views[l]: Vault3ShareLinkViewCount
  req,           \* what a request has read and is about to do
  purge,         \* the time the running purge of the trash counts from, or Never
  trashedSince,  \* since when item i is in the trash without a break
  served         \* how often the item's blobs were handed out through l

vars == <<now, item, link, views, req, purge, trashedSince, served>>

------------------------------------------------------------------------
Instant == Nat \cup {Never}
Status == {"unborn", "stored", "gone"}
Item == [status: Status, deletedAt: Instant]
Link == [status: Status, item: Items \cup {NoItem},
         expiresAt: Nat, revokedAt: Instant]

Op == {"idle", "createItem", "trash", "restore", "delete",
       "createLink", "revokeLink", "open"}
Request == [op: Op, item: Items \cup {NoItem}, link: Links \cup {NoLink},
            expiresAt: Nat]
Idle == [op |-> "idle", item |-> NoItem, link |-> NoLink, expiresAt |-> 0]

Stored(i) == item[i].status = "stored"
Trashed(i) == item[i].deletedAt # Never
Untrashed == {i \in Items : Stored(i) /\ ~Trashed(i)}

\* The WHERE clause the redemption and the count of active links share.
LinkIsLive(l) ==
  /\ link[l].status = "stored"
  /\ link[l].revokedAt = Never
  /\ link[l].expiresAt > now
ActiveLinks(i) == {l \in Links : LinkIsLive(l) /\ link[l].item = i}

\* CreateShareLinkAPI: nothing asked for means the default, and no more than
\* the maximum is granted.
Granted(hours) ==
  LET asked == IF hours = 0 THEN ShareLinkDefaultTTL ELSE hours
  IN IF asked > ShareLinkMaxTTL THEN ShareLinkMaxTTL ELSE asked

Init ==
  /\ now = 0
  /\ item = [i \in Items |-> [status |-> "unborn", deletedAt |-> Never]]
  /\ link = [l \in Links |-> [status |-> "unborn", item |-> NoItem,
                              expiresAt |-> 0, revokedAt |-> Never]]
  /\ views = [l \in Links |-> 0]
  /\ req = [r \in Requests |-> Idle]
  /\ purge = Never
  /\ trashedSince = [i \in Items |-> Never]
  /\ served = [l \in Links |-> 0]

------------------------------------------------------------------------
Begin(r, record) ==
  /\ req[r] = Idle
  /\ req' = [req EXCEPT ![r] = record]
  /\ UNCHANGED <<now, item, link, views, purge, trashedSince, served>>

Finish(r) == req' = [req EXCEPT ![r] = Idle]

\* DELETE of the items in S, and ON DELETE CASCADE to their links.
GoneLink == [status |-> "gone", item |-> NoItem, expiresAt |-> 0, revokedAt |-> Never]
RemoveItems(S) ==
  /\ item' = [i \in Items |-> IF i \in S THEN [status |-> "gone", deletedAt |-> Never]
                                         ELSE item[i]]
  /\ trashedSince' = [i \in Items |-> IF i \in S THEN Never ELSE trashedSince[i]]
  /\ link' = [l \in Links |-> IF link[l].item \in S THEN GoneLink ELSE link[l]]

------------------------------------------------------------------------
(* Items.                                                                  *)

\* The cap counts what is outside the trash.
BeginCreateItem(r) ==
  /\ Cardinality(Untrashed) < MaxItemsPerVault
  /\ Begin(r, [Idle EXCEPT !.op = "createItem"])

CommitCreateItem(r, i) ==
  /\ req[r].op = "createItem"
  /\ item[i].status = "unborn"
  /\ item' = [item EXCEPT ![i].status = "stored"]
  /\ Finish(r)
  /\ UNCHANGED <<now, link, views, purge, trashedSince, served>>

\* itemLifecycleAPI: trash, restore and delete only ask for the row.
BeginLifecycle(r, i, op) ==
  /\ Stored(i)
  /\ Begin(r, [Idle EXCEPT !.op = op, !.item = i])

\* Trashing what is in the trash stamps it anew.
CommitTrash(r) ==
  LET i == req[r].item
  IN /\ req[r].op = "trash"
     /\ Stored(i)
     /\ item' = [item EXCEPT ![i].deletedAt = now]
     /\ trashedSince' = [trashedSince EXCEPT ![i] = IF @ = Never THEN now ELSE @]
     /\ Finish(r)
     /\ UNCHANGED <<now, link, views, purge, served>>

\* (variant) The restore clears the flag the client shows, not DeletedAt.
RestoreKeepingStamp(r) ==
  LET i == req[r].item
  IN /\ req[r].op = "restore"
     /\ Stored(i)
     /\ trashedSince' = [trashedSince EXCEPT ![i] = Never]
     /\ Finish(r)
     /\ UNCHANGED <<now, item, link, views, purge, served>>

\* Restoring is not counted against the cap.
CommitRestore(r) ==
  LET i == req[r].item
  IN /\ req[r].op = "restore"
     /\ Stored(i)
     /\ item' = [item EXCEPT ![i].deletedAt = Never]
     /\ trashedSince' = [trashedSince EXCEPT ![i] = Never]
     /\ Finish(r)
     /\ UNCHANGED <<now, link, views, purge, served>>

CommitDelete(r) ==
  /\ req[r].op = "delete"
  /\ Stored(req[r].item)
  /\ RemoveItems({req[r].item})
  /\ Finish(r)
  /\ UNCHANGED <<now, views, purge, served>>

------------------------------------------------------------------------
(* Share links.                                                            *)

\* (variant) The limit off by one.
CreateOneTooMany(r, i, hours) ==
  /\ i \in Untrashed
  /\ Cardinality(ActiveLinks(i)) <= MaxActiveShareLinksPerItem
  /\ Begin(r, [Idle EXCEPT !.op = "createLink", !.item = i,
                           !.expiresAt = now + Granted(hours)])

\* The item, its active links and the clock are read before the insert.
BeginCreateLink(r, i, hours) ==
  /\ i \in Untrashed
  /\ Cardinality(ActiveLinks(i)) < MaxActiveShareLinksPerItem
  /\ Begin(r, [Idle EXCEPT !.op = "createLink", !.item = i,
                           !.expiresAt = now + Granted(hours)])

\* The insert asks only for the row of the item, be it in the trash by now.
CommitCreateLink(r, l) ==
  /\ req[r].op = "createLink"
  /\ Stored(req[r].item)
  /\ link[l].status = "unborn"
  /\ link' = [link EXCEPT ![l] = [status |-> "stored", item |-> req[r].item,
                                  expiresAt |-> req[r].expiresAt,
                                  revokedAt |-> Never]]
  /\ Finish(r)
  /\ UNCHANGED <<now, item, views, purge, trashedSince, served>>

\* (variant) The id of the link is taken for the item's.
RevokeWithSwappedIds(r, l) ==
  /\ link[l].status = "stored"
  /\ Begin(r, [Idle EXCEPT !.op = "revokeLink", !.item = l])

BeginRevokeLink(r, l) ==
  /\ link[l].status = "stored"
  /\ Begin(r, [Idle EXCEPT !.op = "revokeLink", !.link = l])

\* Idempotent: a revoked link keeps its stamp, and one that is gone is gone.
CommitRevokeLink(r) ==
  LET l == req[r].link
  IN /\ req[r].op = "revokeLink"
     /\ link' = IF link[l].status = "stored" /\ link[l].revokedAt = Never
                  THEN [link EXCEPT ![l].revokedAt = now]
                  ELSE link
     /\ Finish(r)
     /\ UNCHANGED <<now, item, views, purge, trashedSince, served>>

\* (variant) The redemption forgets the revocation.
RedeemRevoked(r, l) ==
  /\ link[l].status = "stored"
  /\ link[l].expiresAt > now
  /\ req[r] = Idle
  /\ views[l] < MaxViews
  /\ views' = [views EXCEPT ![l] = @ + 1]
  /\ req' = [req EXCEPT ![r] = [Idle EXCEPT !.op = "open", !.link = l,
                                            !.item = link[l].item]]
  /\ UNCHANGED <<now, item, link, purge, trashedSince, served>>

\* (variant) The view is not counted here but by whoever reads the item.
RedeemUncounted(r, l) ==
  /\ LinkIsLive(l)
  /\ req[r] = Idle
  /\ views[l] < MaxViews
  /\ req' = [req EXCEPT ![r] = [Idle EXCEPT !.op = "open", !.link = l,
                                            !.item = link[l].item]]
  /\ UNCHANGED <<now, item, link, views, purge, trashedSince, served>>

\* RedeemShareLink: the check and the count are one statement.
RedeemLink(r, l) ==
  /\ LinkIsLive(l)
  /\ req[r] = Idle
  /\ views[l] < MaxViews
  /\ views' = [views EXCEPT ![l] = @ + 1]
  /\ req' = [req EXCEPT ![r] = [Idle EXCEPT !.op = "open", !.link = l,
                                            !.item = link[l].item]]
  /\ UNCHANGED <<now, item, link, purge, trashedSince, served>>

\* OpenShareAPI then reads the item, and refuses one that is gone or trashed.
ServeItem(r) ==
  /\ req[r].op = "open"
  /\ req[r].item \in Untrashed
  /\ served' = [served EXCEPT ![req[r].link] = @ + 1]
  /\ Finish(r)
  /\ UNCHANGED <<now, item, link, views, purge, trashedSince>>

\* A refused or failed request, a cancelled one, or a crash of the server.
Abandon(r) ==
  /\ req[r].op # "idle"
  /\ Finish(r)
  /\ UNCHANGED <<now, item, link, views, purge, trashedSince, served>>

------------------------------------------------------------------------
(* The scheduler and the clock.                                            *)

\* x < asOf - window, for an instant x.
Before(x, asOf, window) == x # Never /\ x + window < asOf

\* The job computes its cutoff, and runs one DELETE with it some time later.
BeginPurge ==
  /\ purge = Never
  /\ purge' = now
  /\ UNCHANGED <<now, item, link, views, req, trashedSince, served>>

PurgeTrashedItems ==
  /\ purge # Never
  /\ RemoveItems({i \in Items : Stored(i) /\
                    Before(item[i].deletedAt, purge, TrashRetention)})
  /\ purge' = Never
  /\ UNCHANGED <<now, views, req, served>>

\* One step: an older cutoff only leaves more of the links that are dead anyway.
PurgeLapsedShareLinks ==
  /\ link' = [l \in Links |->
                IF link[l].status = "stored" /\
                   (\/ Before(link[l].expiresAt, now, SharingPurgeGrace)
                    \/ Before(link[l].revokedAt, now, SharingPurgeGrace))
                  THEN GoneLink ELSE link[l]]
  /\ UNCHANGED <<now, item, views, req, purge, trashedSince, served>>

Tick ==
  /\ now < MaxTime
  /\ now' = now + 1
  /\ UNCHANGED <<item, link, views, req, purge, trashedSince, served>>

Next ==
  \/ \E r \in Requests :
       \/ BeginCreateItem(r)
       \/ \E i \in Items : CommitCreateItem(r, i)
       \/ \E i \in Items, op \in {"trash", "restore", "delete"} :
            BeginLifecycle(r, i, op)
       \/ CommitTrash(r)
       \/ CommitRestore(r)
       \/ CommitDelete(r)
       \/ \E i \in Items, hours \in Lifetimes : BeginCreateLink(r, i, hours)
       \/ \E l \in Links : CommitCreateLink(r, l)
       \/ \E l \in Links : BeginRevokeLink(r, l)
       \/ CommitRevokeLink(r)
       \/ \E l \in Links : RedeemLink(r, l)
       \/ ServeItem(r)
       \/ Abandon(r)
  \/ BeginPurge
  \/ PurgeTrashedItems
  \/ PurgeLapsedShareLinks
  \/ Tick

Spec == Init /\ [][Next]_vars

------------------------------------------------------------------------
\* Type correctness of the rows, the requests and the purge.
TypeOK ==
  /\ now \in 0..MaxTime
  /\ item \in [Items -> Item]
  /\ link \in [Links -> Link]
  /\ views \in [Links -> Nat]
  /\ req \in [Requests -> Request]
  /\ purge \in Instant
  /\ trashedSince \in [Items -> Instant]
  /\ served \in [Links -> Nat]

\* The view count never misses a view: what was handed out through a link, and
\* what requests that have redeemed it may still hand out, has been counted,
\* however many opens overlap and whichever of them fail.
Opening(l) == {r \in Requests : req[r].op = "open" /\ req[r].link = l}
EveryViewIsCounted ==
  \A l \in Links : served[l] + Cardinality(Opening(l)) <= views[l]

\* A link that was revoked, expired or removed stays dead and redeems no more:
\* restoring the item, a revoke that repeats, a purge or an open that was looking
\* at it bring nothing back.
DeadLinkStaysDead ==
  [][\A l \in Links :
       link[l].status # "unborn" /\ ~LinkIsLive(l)
         => ~LinkIsLive(l)' /\ views'[l] = views[l]]_vars

\* An item leaves the database for good only by a delete that was asked for, or
\* after the full retention in the trash without a break: a purge that took its
\* cutoff before a restore, or before the item was trashed again, spares it.
RetentionIsHonoured ==
  [][\A i \in Items :
       Stored(i) /\ ~Stored(i)' =>
         \/ \E r \in Requests : /\ req[r].op = "delete" /\ req[r].item = i
                                /\ req'[r] = Idle
         \/ Before(trashedSince[i], now, TrashRetention)]_vars

\* The active links of an item are counted before the insert, so overlapping
\* creates pass the limit together, by no more than the requests in flight
\* beside the one that reached it.
Linking(i) == {r \in Requests : req[r].op = "createLink" /\ req[r].item = i}
LinkCapOvershoot ==
  \A i \in Items :
    Cardinality(ActiveLinks(i)) + Cardinality(Linking(i))
      <= (MaxActiveShareLinksPerItem - 1) + Cardinality(Requests)
============================================================================
