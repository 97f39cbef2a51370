------------------------- MODULE ChangeSync_proofs -------------------------
(***************************************************************************)
(* Theorems about ChangeSync.  Whatever fails: types, signals that never   *)
(* precede their commits, and pages that await the items they do not show  *)
(* unless their keys are gone.  For the tabs of a quiet account, one that is changed elsewhere: *)
(* nothing a tab has heard of is missed, what has settled is fresh, and    *)
(* every step is one that LiveView promises.                               *)
(***************************************************************************)
EXTENDS ChangeSync, SequenceTheorems, TLAPS

USE SetsAssumption, BoundsAssumption

------------------------------------------------------------------------
(* Sequences.                                                              *)

\* Taking one element out of a sequence leaves a sequence of the others.
LEMMA WithoutOne ==
  ASSUME NEW S, NEW s \in Seq(S), NEW k \in DOMAIN s
  PROVE  /\ Without(s, k) \in Seq(S)
         /\ DOMAIN Without(s, k) = 1..(Len(s) - 1)
         /\ \A i \in DOMAIN Without(s, k) :
              \E j \in DOMAIN s : j # k /\ Without(s, k)[i] = s[j]
         /\ \A j \in DOMAIN s :
              j # k => \E i \in DOMAIN Without(s, k) : Without(s, k)[i] = s[j]
<1> DEFINE w == Without(s, k)
<1>1. /\ Len(s) \in Nat /\ DOMAIN s = 1..Len(s) /\ \A i \in 1..Len(s) : s[i] \in S
      /\ k \in 1..Len(s)
  OBVIOUS
<1>2. w = [i \in 1..(Len(s) - 1) |-> IF i < k THEN s[i] ELSE s[i + 1]]
  BY DEF Without
<1>3. Len(s) - 1 \in Nat
  BY <1>1
<1>4. \A i \in 1..(Len(s) - 1) : w[i] \in S
  BY <1>1, <1>2, SMT
<1>5. w \in Seq(S)
  <2>1. w \in [1..(Len(s) - 1) -> S]
    BY <1>2, <1>4
  <2> QED  BY <2>1, <1>3, SeqDef
<1>6. DOMAIN w = 1..(Len(s) - 1)
  BY <1>2
<1>7. \A i \in DOMAIN w : \E j \in DOMAIN s : j # k /\ w[i] = s[j]
  <2> TAKE i \in DOMAIN w
  <2>1. CASE i < k
    BY <2>1, <1>1, <1>2, <1>6, SMT
  <2>2. CASE ~ i < k
    <3>1. i + 1 \in DOMAIN s /\ i + 1 # k /\ w[i] = s[i + 1]
      BY <2>2, <1>1, <1>2, <1>6, SMT
    <3> QED  BY <3>1
  <2> QED  BY <2>1, <2>2
<1>8. \A j \in DOMAIN s : j # k => \E i \in DOMAIN w : w[i] = s[j]
  <2> TAKE j \in DOMAIN s
  <2> HAVE j # k
  <2>1. CASE j < k
    BY <2>1, <1>1, <1>2, <1>6, SMT
  <2>2. CASE ~ j < k
    <3>1. j - 1 \in DOMAIN w /\ w[j - 1] = s[j]
      BY <2>2, <1>1, <1>2, <1>6, SMT
    <3> QED  BY <3>1
  <2> QED  BY <2>1, <2>2
<1> QED  BY <1>5, <1>6, <1>7, <1>8

\* Two sequences that lost an element each keep their others.
LEMMA WithoutOthers ==
  ASSUME NEW S, NEW s \in Seq(S), NEW k \in DOMAIN s, NEW j \in DOMAIN s, j # k
  PROVE  \E i \in DOMAIN Without(s, k) : Without(s, k)[i] = s[j]
BY WithoutOne

\* Replacing an element keeps the sequence and its length.
LEMMA Replaced ==
  ASSUME NEW S, NEW s \in Seq(S), NEW k \in DOMAIN s, NEW e \in S
  PROVE  /\ [s EXCEPT ![k] = e] \in Seq(S)
         /\ DOMAIN [s EXCEPT ![k] = e] = DOMAIN s
         /\ \A i \in DOMAIN s : [s EXCEPT ![k] = e][i] = IF i = k THEN e ELSE s[i]
BY ExceptSeq

\* What is in a concatenation is in one of its parts.
LEMMA Joined ==
  ASSUME NEW S, NEW s \in Seq(S), NEW u \in Seq(S)
  PROVE  \A i \in DOMAIN (s \o u) :
           \/ \E j \in DOMAIN s : (s \o u)[i] = s[j]
           \/ \E j \in DOMAIN u : (s \o u)[i] = u[j]
<1> TAKE i \in DOMAIN (s \o u)
<1>1. /\ Len(s) \in Nat /\ Len(u) \in Nat /\ i \in 1..(Len(s) + Len(u))
      /\ DOMAIN s = 1..Len(s) /\ DOMAIN u = 1..Len(u)
      /\ (s \o u)[i] = IF i <= Len(s) THEN s[i] ELSE u[i - Len(s)]
  OBVIOUS
<1>2. CASE i <= Len(s)
  BY <1>1, <1>2
<1>3. CASE ~ i <= Len(s)
  <2>1. i - Len(s) \in DOMAIN u
    BY <1>1, <1>3
  <2> QED  BY <1>1, <1>3, <2>1
<1> QED  BY <1>2, <1>3

\* What is appended comes last, behind everything that was there.
LEMMA Appended ==
  ASSUME NEW S, NEW s \in Seq(S), NEW e
  PROVE  /\ Len(s) + 1 \in DOMAIN Append(s, e)
         /\ Append(s, e)[Len(s) + 1] = e
         /\ \A n \in DOMAIN s : n \in DOMAIN Append(s, e) /\ Append(s, e)[n] = s[n]
OBVIOUS

\* The changes of a list are changes.
LEMMA StoredType ==
  ASSUME TypeOK, NEW l
  PROVE  Stored(l) \subseteq Changes
BY DEF TypeOK, Stored, Changes, Revision

------------------------------------------------------------------------
(* Types, and what is known to be committed.                               *)

\* Every revision anybody is about to hear of, from a signal, a greeting, a
\* refetch or an own write, is committed; a transaction has room for its change.
Committed ==
  /\ tx # NoTx => Revision < MaxRevision
  /\ \A signal \in publishing : signal.revision <= Revision
  /\ \A t \in Tabs :
       /\ greeting[t] <= Revision /\ writing[t] <= Revision
       /\ \A k \in DOMAIN fetches[t] : fetches[t][k].revision <= Revision

IInv == TypeOK /\ Committed /\ SignalsFollowCommits

\* What a step that leaves the log alone owes.
LEMMA LogAlone ==
  ASSUME IInv, UNCHANGED log
  PROVE  Revision' = Revision /\ Revision \in Revisions
BY DEF IInv, TypeOK, Revision, Revisions

\* The commit pipeline keeps the invariant.
LEMMA ServerSteps ==
  ASSUME IInv,
         \/ \E client \in Clients, list \in Lists : Mutate(client, list)
         \/ Rollback \/ Commit \/ Crash
         \/ \E signal \in publishing : Publish(signal)
  PROVE  IInv'
<1> USE DEF IInv
<1>1. ASSUME NEW client \in Clients, NEW list \in Lists, Mutate(client, list)
      PROVE  IInv'
  <2>1. tx' \in Transaction /\ UNCHANGED log
    BY <1>1 DEF Mutate, Transaction
  <2> QED
    BY <1>1, <2>1, LogAlone DEF Mutate, TypeOK, Committed, SignalsFollowCommits, Revision,
       socket, screen, bounds
<1>2. CASE Rollback
  BY <1>2 DEF Rollback, TypeOK, Committed, SignalsFollowCommits, Revision, socket, screen, bounds
<1>3. CASE Commit
  <2>1. /\ log' \in Seq(Change) /\ Revision' = Revision + 1 /\ Revision' \in Revisions
        /\ Revision \in Nat /\ UNCHANGED <<socket, screen, ref, last, fetches, bounds>> /\ tx' = NoTx
    BY <1>3 DEF Commit, TypeOK, Committed, Revision, Revisions, Change, Transaction
  <2>2. publishing' \subseteq Signal /\ \A signal \in publishing' : signal.revision <= Revision'
    BY <1>3, <2>1 DEF Commit, TypeOK, Committed, Signal, Transaction, Revisions
  <2>3. writing' \in [Tabs -> Revisions] /\ \A t \in Tabs : writing'[t] <= Revision'
    <3>1. /\ writing \in [Tabs -> Revisions] /\ Revision + 1 \in Revisions
          /\ \A t \in Tabs : writing[t] <= Revision
      BY <2>1 DEF TypeOK, Committed
    <3>2. CASE tx.awaited
      <4>1. writing' = [writing EXCEPT ![tx.by] = Revision + 1]
        BY <1>3, <3>2 DEF Commit
      <4>2. writing' \in [Tabs -> Revisions]
        BY <4>1, <3>1
      <4>3. \A t \in Tabs : writing'[t] = writing[t] \/ writing'[t] = Revision + 1
        BY <4>1, <3>1
      <4>4. \A t \in Tabs : writing[t] \in Nat
        <5>1. \A n \in Revisions : n \in Nat
          BY DEF Revisions
        <5> QED  BY <5>1, <3>1
      <4> QED  BY <4>2, <4>3, <4>4, <3>1, <2>1
    <3>3. CASE ~ tx.awaited
      <4>1. writing' = writing
        BY <1>3, <3>3 DEF Commit
      <4> QED  BY <4>1, <3>1, <2>1 DEF Revisions
    <3> QED  BY <3>2, <3>3
  <2>4. TypeOK'
    BY <2>1, <2>2, <2>3 DEF TypeOK, Revisions, socket, screen, bounds
  <2>5. /\ UNCHANGED <<ref, last, frames, greeting, fetches>> /\ tx' = NoTx
        /\ Revision' = Revision + 1
    BY <2>1 DEF socket
  <2>6. \A n \in Revisions : n <= Revision => n <= Revision + 1
    BY <2>1 DEF Revisions
  <2>7. SignalsFollowCommits'
    <3> SUFFICES ASSUME NEW t \in Tabs
                 PROVE  /\ ref[t] <= Revision + 1 /\ last[t] <= Revision + 1
                        /\ \A n \in DOMAIN frames[t] : frames[t][n].revision <= Revision + 1
      BY <2>5 DEF SignalsFollowCommits
    <3>1. /\ ref[t] \in Revisions /\ last[t] \in Revisions
          /\ \A n \in DOMAIN frames[t] : frames[t][n].revision \in Revisions
      <4>1. ref[t] \in Revisions /\ last[t] \in Revisions /\ frames[t] \in Seq(Signal)
        BY DEF TypeOK
      <4>2. \A n \in DOMAIN frames[t] : frames[t][n] \in Signal
        BY <4>1
      <4> QED  BY <4>1, <4>2 DEF Signal
    <3> QED  BY <2>6, <3>1 DEF SignalsFollowCommits
  <2>8. Committed'
    <3> SUFFICES ASSUME NEW t \in Tabs
                 PROVE  /\ greeting[t] <= Revision + 1
                        /\ \A k \in DOMAIN fetches[t] : fetches[t][k].revision <= Revision + 1
      BY <2>2, <2>3, <2>5 DEF Committed
    <3>1. /\ greeting[t] \in Revisions
          /\ \A k \in DOMAIN fetches[t] : fetches[t][k].revision \in Revisions
      <4>1. greeting[t] \in Revisions /\ fetches[t] \in Seq(Fetch)
        BY DEF TypeOK
      <4>2. \A k \in DOMAIN fetches[t] : fetches[t][k] \in Fetch
        BY <4>1
      <4> QED  BY <4>1, <4>2 DEF Fetch
    <3> QED  BY <2>6, <3>1 DEF Committed
  <2> QED  BY <2>4, <2>7, <2>8
<1>4. CASE Crash
  <2>1. /\ fetches' \in [Tabs -> Seq(Fetch)]
        /\ \A t \in Tabs : \A k \in DOMAIN fetches'[t] : fetches'[t][k].revision <= Revision
    <3>1. /\ fetches' = [t \in Tabs |-> [k \in DOMAIN fetches[t] |-> Lost(fetches[t][k])]]
          /\ fetches \in [Tabs -> Seq(Fetch)]
          /\ \A t \in Tabs : \A k \in DOMAIN fetches[t] : fetches[t][k].revision <= Revision
      BY <1>4 DEF Crash, TypeOK, Committed
    <3>2. \A e \in Fetch : Lost(e) \in Fetch /\ Lost(e).revision = e.revision
      BY DEF Lost, Fetch
    <3>3. ASSUME NEW t \in Tabs
          PROVE  /\ fetches'[t] \in Seq(Fetch)
                 /\ \A k \in DOMAIN fetches'[t] : fetches'[t][k].revision <= Revision
      <4>1. /\ fetches[t] \in Seq(Fetch)
            /\ fetches'[t] = [k \in DOMAIN fetches[t] |-> Lost(fetches[t][k])]
        BY <3>1
      <4>2. Len(fetches[t]) \in Nat /\ DOMAIN fetches[t] = 1..Len(fetches[t])
        BY <4>1
      <4>3. \A k \in DOMAIN fetches[t] : fetches[t][k] \in Fetch
        BY <4>1
      <4>4. fetches'[t] \in [1..Len(fetches[t]) -> Fetch]
        BY <3>2, <4>1, <4>2, <4>3
      <4>5. fetches'[t] \in Seq(Fetch)
        BY <4>2, <4>4, SeqDef
      <4> QED  BY <3>1, <3>2, <4>1, <4>3, <4>5
    <3> QED  BY <3>1, <3>3
  <2>2. TypeOK'
    BY <1>4, <2>1, LogAlone DEF Crash, TypeOK, Revisions, screen
  <2>5. /\ tx' = NoTx /\ publishing' = {} /\ greeting' = greeting /\ log' = log
        /\ writing' = [t \in Tabs |-> 0]
    BY <1>4 DEF Crash
  <2>6. Revision' = Revision /\ Revision \in Nat
    BY <2>5, LogAlone DEF Revisions
  <2>3. Committed'
    BY <2>1, <2>5, <2>6 DEF Committed
  <2>4. SignalsFollowCommits'
    BY <1>4, LogAlone DEF Crash, SignalsFollowCommits
  <2> QED  BY <2>2, <2>3, <2>4
<1>5. ASSUME NEW signal \in publishing, Publish(signal)
      PROVE  IInv'
  <2>1. /\ frames' \in [Tabs -> Seq(Signal)]
        /\ \A t \in Tabs : \A n \in DOMAIN frames'[t] : frames'[t][n].revision <= Revision
    BY <1>5 DEF Publish, TypeOK, Committed, SignalsFollowCommits
  <2> QED
    BY <1>5, <2>1, LogAlone DEF Publish, TypeOK, Committed, SignalsFollowCommits, screen, bounds
<1> QED  BY <1>1, <1>2, <1>3, <1>4, <1>5

\* Refetches as the invariant knows them.
Sound(f) == f \in Seq(Fetch) /\ \A k \in DOMAIN f : f[k].revision <= Revision

\* Requests stay sound when one is taken out and when one is added.
LEMMA Requests ==
  ASSUME IInv, NEW t \in Tabs
  PROVE  /\ Sound(fetches[t]) /\ Sound(<<>>)
         /\ \A k \in DOMAIN fetches[t] : fetches[t][k] \in Fetch /\ Sound(Without(fetches[t], k))
         /\ \A l \in Lists : Sound(Append(fetches[t], Ask(l)))
         /\ \A served \in Items : Sound(Append(fetches[t], Decrypt(served)))
<1>1. Sound(fetches[t]) /\ Sound(<<>>)
  BY DEF IInv, TypeOK, Committed, Sound
<1>2. \A k \in DOMAIN fetches[t] : Sound(Without(fetches[t], k))
  <2> TAKE k \in DOMAIN fetches[t]
  <2>1. /\ Without(fetches[t], k) \in Seq(Fetch)
        /\ \A i \in DOMAIN Without(fetches[t], k) :
             \E j \in DOMAIN fetches[t] : Without(fetches[t], k)[i] = fetches[t][j]
    BY <1>1, WithoutOne DEF Sound
  <2> QED  BY <1>1, <2>1 DEF Sound
<1>3. \A k \in DOMAIN fetches[t] : fetches[t][k] \in Fetch
  BY <1>1 DEF Sound
<1>4. ASSUME NEW l \in Lists
      PROVE  Sound(Append(fetches[t], Ask(l)))
  <2>1. Ask(l) \in Fetch /\ Ask(l).revision <= Revision
    BY DEF Ask, Fetch, Revisions, IInv, TypeOK, Revision
  <2> QED  BY <1>1, <2>1 DEF Sound
<1>5. ASSUME NEW served \in Items
      PROVE  Sound(Append(fetches[t], Decrypt(served)))
  <2>1. Decrypt(served) \in Fetch /\ Decrypt(served).revision <= Revision
    BY DEF Decrypt, Fetch, Items, Lists, Revisions, IInv, TypeOK, Revision
  <2> QED  BY <1>1, <2>1 DEF Sound
<1> QED  BY <1>1, <1>2, <1>3, <1>4, <1>5

\* What a step that replaces one tab's refetches owes.
LEMMA OneTabsRequests ==
  ASSUME IInv, NEW t \in Tabs, NEW f, Sound(f), fetches' = [fetches EXCEPT ![t] = f]
  PROVE  \A u \in Tabs : Sound(fetches'[u])
<1>1. fetches \in [Tabs -> Seq(Fetch)]
  BY DEF IInv, TypeOK
<1>2. \A u \in Tabs : fetches'[u] = IF u = t THEN f ELSE fetches[u]
  BY <1>1
<1> QED  BY <1>2, Requests

\* The sockets and the signals on them keep the invariant.
LEMMA SocketSteps ==
  ASSUME IInv, NEW t \in Tabs,
         \/ Connect(t) \/ LookUpRevision(t) \/ LookUpFails(t) \/ Greet(t) \/ Drop(t)
         \/ IgnoreStale(t) \/ SkipOwn(t) \/ Refetch(t) \/ RefetchDirectory(t)
  PROVE  IInv'
<1> USE DEF IInv
<1>1. CASE Connect(t)
  BY <1>1, LogAlone DEF Connect, TypeOK, Committed, SignalsFollowCommits, server, screen, bounds
<1>2. CASE LookUpRevision(t)
  <2>1. greeting' \in [Tabs -> Revisions] /\ \A u \in Tabs : greeting'[u] <= Revision
    <3>1. greeting' = [greeting EXCEPT ![t] = Revision] /\ greeting \in [Tabs -> Revisions]
      BY <1>2 DEF LookUpRevision, TypeOK
    <3>2. Revision \in Revisions /\ Revision \in Nat /\ \A u \in Tabs : greeting[u] <= Revision
      BY DEF TypeOK, Committed, Revisions, Revision
    <3> QED  BY <3>1, <3>2
  <2> QED
    BY <1>2, <2>1, LogAlone DEF LookUpRevision, TypeOK, Committed, SignalsFollowCommits,
       server, screen, bounds
<1>3. CASE LookUpFails(t)
  BY <1>3, LogAlone DEF LookUpFails, TypeOK, Committed, SignalsFollowCommits, server, screen, bounds
<1>4. CASE Greet(t)
  <2>1. [revision |-> greeting[t], origin |-> Elsewhere] \in Signal
    BY DEF TypeOK, Signal, Clients
  <2>2. /\ frames' \in [Tabs -> Seq(Signal)]
        /\ \A u \in Tabs : \A n \in DOMAIN frames'[u] : frames'[u][n].revision <= Revision
    BY <1>4, <2>1 DEF Greet, TypeOK, Committed, SignalsFollowCommits
  <2>3. /\ UNCHANGED <<log, tx, publishing, greeting, held, page, active, shown, payload,
                       directory, ref, last, fetches, writing, drops, switches>>
        /\ conn' \in [Tabs -> {"down", "subscribed", "greeting", "open"}] /\ Revision' = Revision
    BY <1>4, LogAlone DEF Greet, TypeOK, server, screen, bounds
  <2>4. TypeOK'
    BY <2>2, <2>3 DEF TypeOK
  <2>5. Committed' /\ SignalsFollowCommits'
    BY <2>2, <2>3 DEF Committed, SignalsFollowCommits
  <2> QED  BY <2>4, <2>5
<1>5. CASE Drop(t)
  BY <1>5, LogAlone DEF Drop, TypeOK, Committed, SignalsFollowCommits, server, screen
<1>6. ASSUME Receive(t)
      PROVE  /\ frames' \in [Tabs -> Seq(Signal)]
             /\ Head(frames[t]) \in Signal /\ Head(frames[t]).revision <= Revision
             /\ \A u \in Tabs : \A n \in DOMAIN frames'[u] : frames'[u][n].revision <= Revision
  BY <1>6 DEF Receive, TypeOK, SignalsFollowCommits
<1>7. CASE IgnoreStale(t)
  BY <1>6, <1>7, LogAlone DEF IgnoreStale, Receive, TypeOK, Committed, SignalsFollowCommits,
     server, screen, bounds
<1>8. CASE SkipOwn(t)
  <2>1. last' \in [Tabs -> Revisions] /\ \A u \in Tabs : last'[u] <= Revision
    BY <1>6, <1>8 DEF SkipOwn, TypeOK, SignalsFollowCommits, Signal
  <2>2. /\ UNCHANGED <<log, tx, publishing, conn, greeting, held, page, active, shown, payload,
                       directory, ref, fetches, writing, drops, switches>>
        /\ Revision' = Revision /\ Receive(t)
    BY <1>8, LogAlone DEF SkipOwn, Receive, server, bounds
  <2>3. TypeOK'
    BY <1>6, <2>1, <2>2 DEF TypeOK
  <2>4. Committed' /\ SignalsFollowCommits'
    BY <1>6, <2>1, <2>2 DEF Committed, SignalsFollowCommits
  <2> QED  BY <2>3, <2>4
<1>9. CASE Refetch(t)
  <2>1. Ask(active[t]) \in Fetch /\ Ask(Directory) \in Fetch
    BY DEF Ask, Fetch, Lists, Revisions, TypeOK
  <2>2. fetches' \in [Tabs -> Seq(Fetch)]
    BY <1>9, <2>1 DEF Refetch, TypeOK
  <2>3. \A u \in Tabs : \A k \in DOMAIN fetches'[u] : fetches'[u][k].revision <= Revision
    <3>1. fetches' = [fetches EXCEPT ![t] = @ \o <<Ask(active[t]), Ask(Directory)>>]
      BY <1>9 DEF Refetch
    <3>2. Ask(active[t]).revision <= Revision /\ Ask(Directory).revision <= Revision
      BY <1>9, LogAlone DEF Refetch, Receive, Ask, Revisions, server
    <3> DEFINE asked == <<Ask(active[t]), Ask(Directory)>>
    <3>3. asked \in Seq(Fetch) /\ \A k \in DOMAIN asked : asked[k].revision <= Revision
      BY <3>2, <2>1
    <3>4. /\ \A u \in Tabs : fetches[u] \in Seq(Fetch)
          /\ \A u \in Tabs : \A k \in DOMAIN fetches[u] : fetches[u][k].revision <= Revision
          /\ \A u \in Tabs : fetches'[u] = IF u = t THEN fetches[u] \o asked ELSE fetches[u]
      BY <3>1 DEF TypeOK, Committed
    <3> HIDE DEF asked
    <3>5. \A i \in DOMAIN (fetches[t] \o asked) : (fetches[t] \o asked)[i].revision <= Revision
      <4>1. fetches[t] \in Seq(Fetch)
        BY <3>4
      <4> QED  BY <3>3, <3>4, <4>1, Joined
    <3> QED  BY <3>4, <3>5
  <2>4. last' \in [Tabs -> Revisions] /\ \A u \in Tabs : last'[u] <= Revision
    BY <1>6, <1>9 DEF Refetch, TypeOK, SignalsFollowCommits, Signal
  <2>5. /\ UNCHANGED <<log, tx, publishing, conn, greeting, page, active, shown, payload,
                       directory, ref, writing, bounds>>
        /\ Revision' = Revision
    BY <1>9, LogAlone DEF Refetch, Receive, server
  <2>6. TypeOK'
    <3>1. frames' \in [Tabs -> Seq(Signal)] /\ held' \in [Tabs -> BOOLEAN]
      BY <1>6, <1>9 DEF Refetch, LoadKeys, TypeOK
    <3> QED  BY <3>1, <2>2, <2>4, <2>5 DEF TypeOK, bounds
  <2>7. Committed'
    BY <2>3, <2>5 DEF Committed
  <2>8. SignalsFollowCommits'
    BY <1>6, <1>9, <2>4, <2>5 DEF Refetch, SignalsFollowCommits
  <2> QED  BY <2>6, <2>7, <2>8
<1>10. CASE RefetchDirectory(t)
  <2>1. /\ UNCHANGED <<log, tx, publishing, conn, greeting, page, active, shown, payload,
                       directory, ref, writing, bounds>>
        /\ Revision' = Revision /\ Receive(t)
        /\ fetches' = [fetches EXCEPT ![t] = Append(fetches[t], Ask(Directory))]
        /\ held' = [held EXCEPT ![t] = FALSE]
        /\ last' = [last EXCEPT ![t] = Head(frames[t]).revision]
    BY <1>10, LogAlone DEF RefetchDirectory, Receive, LoadKeys, server
  <2>2. Sound(Append(fetches[t], Ask(Directory))) /\ fetches \in [Tabs -> Seq(Fetch)]
    BY Requests DEF Lists, TypeOK
  <2>3. \A u \in Tabs : Sound(fetches'[u])
    BY <2>1, <2>2, OneTabsRequests
  <2>4. fetches' \in [Tabs -> Seq(Fetch)] /\ held' \in [Tabs -> BOOLEAN]
    BY <2>1, <2>2 DEF Sound, TypeOK
  <2>5. last' \in [Tabs -> Revisions] /\ \A u \in Tabs : last'[u] <= Revision
    BY <1>6, <2>1 DEF TypeOK, SignalsFollowCommits, Signal
  <2>6. TypeOK'
    BY <1>6, <2>1, <2>4, <2>5 DEF TypeOK, bounds
  <2>7. Committed'
    BY <2>1, <2>3 DEF Committed, Sound
  <2>8. SignalsFollowCommits'
    BY <1>6, <2>1, <2>5 DEF SignalsFollowCommits
  <2> QED  BY <2>6, <2>7, <2>8
<1> QED  BY <1>1, <1>2, <1>3, <1>4, <1>5, <1>7, <1>8, <1>9, <1>10

\* The refetches keep the invariant.
LEMMA FetchSteps ==
  ASSUME IInv, NEW t \in Tabs, NEW k \in DOMAIN fetches[t],
         \/ ReadRows(t, k) \/ ReadRevision(t, k) \/ RowsArrive(t, k)
         \/ ItemsArrive(t, k) \/ DirectoryArrives(t, k) \/ FetchFails(t, k)
  PROVE  IInv'
<1>1. /\ fetches[t] \in Seq(Fetch) /\ fetches \in [Tabs -> Seq(Fetch)]
      /\ fetches[t][k] \in Fetch /\ fetches[t][k].revision <= Revision
      /\ Revision \in Revisions /\ Sound(Without(fetches[t], k))
  BY Requests DEF Sound, IInv, TypeOK, Revisions, Revision
<1>2. ASSUME NEW f, Sound(f), fetches' = [fetches EXCEPT ![t] = f], UNCHANGED log
      PROVE  /\ fetches' \in [Tabs -> Seq(Fetch)]
             /\ \A u \in Tabs : \A j \in DOMAIN fetches'[u] : fetches'[u][j].revision <= Revision'
  <2>1. \A u \in Tabs : Sound(fetches'[u])
    BY <1>2, OneTabsRequests
  <2>2. f \in Seq(Fetch) /\ Revision' = Revision
    BY <1>2, LogAlone DEF Sound
  <2> QED  BY <1>1, <1>2, <2>1, <2>2 DEF Sound
<1>3. ASSUME NEW e \in Fetch, e.revision <= Revision
      PROVE  Sound([fetches[t] EXCEPT ![k] = e])
  BY <1>1, <1>3, Replaced, Requests DEF Sound
<1>4. CASE ReadRows(t, k)
  <2> DEFINE e == [fetches[t][k] EXCEPT !.stage = "read", !.has = Stored(fetches[t][k].list)]
  <2>1. e \in Fetch /\ e.revision <= Revision
    BY <1>1, StoredType DEF Fetch, IInv
  <2>2. fetches' = [fetches EXCEPT ![t] = [fetches[t] EXCEPT ![k] = e]]
    BY <1>1, <1>4 DEF ReadRows
  <2>3. Sound([fetches[t] EXCEPT ![k] = e])
    BY <2>1, <1>3
  <2> HIDE DEF e
  <2>4. UNCHANGED <<server, socket, screen, ref, last, writing, bounds>>
    BY <1>4 DEF ReadRows
  <2>5. UNCHANGED <<log, tx, publishing, conn, greeting, frames, held, page, active, shown,
                    payload, directory, ref, last, writing, drops, switches>>
    BY <2>4 DEF server, socket, screen, bounds
  <2>6. /\ fetches' \in [Tabs -> Seq(Fetch)]
        /\ \A u \in Tabs : \A j \in DOMAIN fetches'[u] : fetches'[u][j].revision <= Revision'
    BY <1>2, <2>2, <2>3, <2>5
  <2> QED
    BY <2>5, <2>6, LogAlone DEF IInv, TypeOK, Committed, SignalsFollowCommits
<1>5. CASE ReadRevision(t, k)
  <2> DEFINE e == [fetches[t][k] EXCEPT !.stage = "answered", !.revision = Revision]
  <2>1. e \in Fetch /\ e.revision <= Revision
    <3>1. Revision <= Revision
      BY <1>1 DEF Revisions
    <3> QED  BY <1>1, <3>1 DEF Fetch
  <2>2. fetches' = [fetches EXCEPT ![t] = [fetches[t] EXCEPT ![k] = e]]
    BY <1>1, <1>5 DEF ReadRevision
  <2>3. Sound([fetches[t] EXCEPT ![k] = e])
    BY <2>1, <1>3
  <2> HIDE DEF e
  <2>4. UNCHANGED <<server, socket, screen, ref, last, writing, bounds>>
    BY <1>5 DEF ReadRevision
  <2>5. UNCHANGED <<log, tx, publishing, conn, greeting, frames, held, page, active, shown,
                    payload, directory, ref, last, writing, drops, switches>>
    BY <2>4 DEF server, socket, screen, bounds
  <2>6. /\ fetches' \in [Tabs -> Seq(Fetch)]
        /\ \A u \in Tabs : \A j \in DOMAIN fetches'[u] : fetches'[u][j].revision <= Revision'
    BY <1>2, <2>2, <2>3, <2>5
  <2> QED
    BY <2>5, <2>6, LogAlone DEF IInv, TypeOK, Committed, SignalsFollowCommits
<1>6. ASSUME fetches' = [fetches EXCEPT ![t] = Without(fetches[t], k)], UNCHANGED log
      PROVE  /\ fetches' \in [Tabs -> Seq(Fetch)]
             /\ \A u \in Tabs : \A j \in DOMAIN fetches'[u] : fetches'[u][j].revision <= Revision'
  BY <1>1, <1>2, <1>6
<1>7. CASE ItemsArrive(t, k)
  <2>1. fetches' = [fetches EXCEPT ![t] = Without(fetches[t], k)] /\ UNCHANGED log
    BY <1>7 DEF ItemsArrive, server
  <2>2. shown' \in [Tabs -> Items]
    BY <1>1, <1>7 DEF ItemsArrive, IInv, TypeOK, Items, Fetch, Lists
  <2> QED
    BY <1>6, <1>7, <2>1, <2>2, LogAlone
    DEF ItemsArrive, IInv, TypeOK, Committed, SignalsFollowCommits, server, socket, bounds
<1>8. CASE DirectoryArrives(t, k)
  <2>1. fetches' = [fetches EXCEPT ![t] = Without(fetches[t], k)] /\ UNCHANGED log
    BY <1>8 DEF DirectoryArrives, server
  <2>2. directory' \in [Tabs -> SUBSET Changes]
    BY <1>1, <1>8 DEF DirectoryArrives, IInv, TypeOK, Fetch
  <2>3. ref' \in [Tabs -> Revisions] /\ \A u \in Tabs : ref'[u] <= Revision
    BY <1>1, <1>8 DEF DirectoryArrives, IInv, TypeOK, SignalsFollowCommits, Fetch
  <2>4. CASE UNCHANGED <<socket, held, last, switches>>
    BY <1>6, <1>8, <2>1, <2>2, <2>3, <2>4, LogAlone
    DEF DirectoryArrives, IInv, TypeOK, Committed, SignalsFollowCommits, server, socket
  <2>5. CASE /\ switches < MaxSwitches /\ Resync(t, fetches[t][k].revision)
             /\ switches' = switches + 1 /\ held' = [held EXCEPT ![t] = TRUE]
    <3>1. /\ last' \in [Tabs -> Revisions] /\ \A u \in Tabs : last'[u] <= Revision
          /\ held' \in [Tabs -> BOOLEAN]
      BY <1>1, <2>5 DEF Resync, IInv, TypeOK, SignalsFollowCommits, Fetch
    <3>2. /\ conn' \in [Tabs -> {"down", "subscribed", "greeting", "open"}]
          /\ frames' \in [Tabs -> Seq(Signal)] /\ UNCHANGED greeting
          /\ \A u \in Tabs : \A n \in DOMAIN frames'[u] : frames'[u][n].revision <= Revision
      BY <2>5 DEF Resync, HangUp, IInv, TypeOK, SignalsFollowCommits
    <3>3. switches' \in 0..MaxSwitches
      BY <2>5 DEF IInv, TypeOK
    <3> QED
      BY <1>6, <1>8, <2>1, <2>2, <2>3, <3>1, <3>2, <3>3, LogAlone
      DEF DirectoryArrives, IInv, TypeOK, Committed, SignalsFollowCommits, server
  <2> QED  BY <1>8, <2>4, <2>5 DEF DirectoryArrives
<1>9. CASE FetchFails(t, k)
  <2>1. fetches' = [fetches EXCEPT ![t] = Without(fetches[t], k)] /\ UNCHANGED log
    BY <1>9 DEF FetchFails, server
  <2>2. shown' \in [Tabs -> Items]
    BY <1>9 DEF FetchFails, IInv, TypeOK, Items, OrEmpty
  <2> QED
    BY <1>6, <1>9, <2>1, <2>2, LogAlone
    DEF FetchFails, IInv, TypeOK, Committed, SignalsFollowCommits, server, socket, bounds
<1>10. CASE RowsArrive(t, k)
  <2> DEFINE e == [fetches[t][k] EXCEPT !.stage = "decrypting"]
  <2>1. e \in Fetch /\ e.revision <= Revision
    BY <1>1 DEF Fetch
  <2>2. fetches' = [fetches EXCEPT ![t] = [fetches[t] EXCEPT ![k] = e]]
    BY <1>1, <1>10 DEF RowsArrive
  <2>3. Sound([fetches[t] EXCEPT ![k] = e])
    BY <2>1, <1>3
  <2> HIDE DEF e
  <2>4. UNCHANGED <<log, tx, publishing, conn, greeting, frames, held, page, active, shown,
                    payload, directory, last, writing, drops, switches>>
    BY <1>10 DEF RowsArrive, server, socket, screen, bounds
  <2>5. /\ fetches' \in [Tabs -> Seq(Fetch)]
        /\ \A u \in Tabs : \A j \in DOMAIN fetches'[u] : fetches'[u][j].revision <= Revision'
    BY <1>2, <2>2, <2>3, <2>4
  <2>6. ref' \in [Tabs -> Revisions] /\ \A u \in Tabs : ref'[u] <= Revision
    BY <1>1, <1>10 DEF RowsArrive, IInv, TypeOK, SignalsFollowCommits, Fetch
  <2> QED
    BY <2>4, <2>5, <2>6, LogAlone DEF IInv, TypeOK, Committed, SignalsFollowCommits
<1> QED  BY <1>4, <1>5, <1>7, <1>8, <1>9, <1>10

\* What showing a vault owes: items of the page's or none, and sound refetches.
LEMMA VaultShown ==
  ASSUME IInv, UNCHANGED log, NEW t \in Tabs, NEW v \in Vaults, NEW served \in Items,
         NEW found, ShowVault(t, v, served, found)
  PROVE  /\ shown' \in [Tabs -> Items] /\ payload' \in [Tabs -> Items]
         /\ fetches' \in [Tabs -> Seq(Fetch)]
         /\ \A u \in Tabs : \A j \in DOMAIN fetches'[u] : fetches'[u][j].revision <= Revision'
<1>1. Nothing \in Items /\ v \in Lists
  BY DEF Nothing, Items, Lists
<1>2. shown' \in [Tabs -> Items] /\ payload' \in [Tabs -> Items]
  <2>1. /\ shown' = shown \/ shown' = [shown EXCEPT ![t] = Nothing]
        /\ \E b \in Items : payload' = [payload EXCEPT ![t] = b]
    BY <1>1 DEF ShowVault
  <2>2. shown \in [Tabs -> Items] /\ payload \in [Tabs -> Items]
    BY DEF IInv, TypeOK
  <2> QED  BY <1>1, <2>1, <2>2
<1>3. \/ UNCHANGED fetches
      \/ \E e \in {Ask(v), Decrypt(served)} :
           fetches' = [fetches EXCEPT ![t] = Append(fetches[t], e)]
  BY DEF ShowVault
<1>4. CASE UNCHANGED fetches
  BY <1>2, <1>4, LogAlone DEF IInv, TypeOK, Committed
<1>5. ASSUME NEW e \in {Ask(v), Decrypt(served)},
             fetches' = [fetches EXCEPT ![t] = Append(fetches[t], e)]
      PROVE  /\ fetches' \in [Tabs -> Seq(Fetch)]
             /\ \A u \in Tabs : \A j \in DOMAIN fetches'[u] : fetches'[u][j].revision <= Revision'
  <2>1. Sound(Append(fetches[t], e))
    BY <1>1, Requests
  <2>2. \A u \in Tabs : Sound(fetches'[u])
    BY <1>5, <2>1, OneTabsRequests
  <2>3. fetches' \in [Tabs -> Seq(Fetch)]
    BY <1>5, <2>1 DEF Sound, IInv, TypeOK
  <2> QED  BY <2>2, <2>3, LogAlone DEF Sound
<1> QED  BY <1>2, <1>3, <1>4, <1>5

\* What starting the sync over from a committed revision owes.
LEMMA Resynced ==
  ASSUME IInv, NEW t \in Tabs, NEW n \in Revisions, n <= Revision, Resync(t, n)
  PROVE  /\ last' \in [Tabs -> Revisions] /\ \A u \in Tabs : last'[u] <= Revision
         /\ conn' \in [Tabs -> {"down", "subscribed", "greeting", "open"}]
         /\ frames' \in [Tabs -> Seq(Signal)] /\ UNCHANGED greeting
         /\ \A u \in Tabs : \A j \in DOMAIN frames'[u] : frames'[u][j].revision <= Revision
BY DEF Resync, HangUp, IInv, TypeOK, SignalsFollowCommits

\* What closing the sync owes.
LEMMA HungUp ==
  ASSUME IInv, NEW t \in Tabs, HangUp(t)
  PROVE  /\ conn' \in [Tabs -> {"down", "subscribed", "greeting", "open"}]
         /\ frames' \in [Tabs -> Seq(Signal)] /\ UNCHANGED greeting
         /\ \A u \in Tabs : \A j \in DOMAIN frames'[u] : frames'[u][j].revision <= Revision
BY DEF HangUp, IInv, TypeOK, SignalsFollowCommits

\* The tab's own writes, its vaults and its pages keep the invariant.
LEMMA TabSteps ==
  ASSUME IInv, NEW t \in Tabs,
         \/ ApplyWrite(t) \/ LoseAnswer(t)
         \/ \E v \in Vaults : ApplyNewVault(t, v) \/ NewVaultLocked(t, v) \/ SelectVault(t, v)
         \/ Lock(t) \/ LockNow(t) \/ Unlock(t)
         \/ Navigate(t) \/ ShowPage(t) \/ ShowLockScreen(t)
  PROVE  IInv'
<1>1. ASSUME Answered(t)
      PROVE  /\ writing' \in [Tabs -> Revisions] /\ writing[t] \in Changes
             /\ \A u \in Tabs : writing'[u] <= Revision
             /\ writing[t] \in Revisions /\ writing[t] <= Revision
  BY <1>1 DEF Answered, IInv, TypeOK, Committed, Revisions, Changes, Revision
<1>2. CASE ApplyWrite(t)
  <2>1. shown' \in [Tabs -> Items]
    <3>1. [shown[t] EXCEPT !.has = @ \cup {writing[t]}] \in Items /\ shown \in [Tabs -> Items]
      <4>1. Answered(t)
        BY <1>2 DEF ApplyWrite
      <4>2. shown \in [Tabs -> Items] /\ shown[t] \in Items /\ writing[t] \in Changes
        BY <1>1, <4>1 DEF IInv, TypeOK
      <4>3. [shown[t] EXCEPT !.has = @ \cup {writing[t]}] \in Items
        BY <4>2 DEF Items
      <4> QED  BY <4>2, <4>3
    <3>2. \/ UNCHANGED shown
          \/ shown' = [shown EXCEPT ![t] = [shown[t] EXCEPT !.has = @ \cup {writing[t]}]]
      BY <1>2, <3>1 DEF ApplyWrite
    <3> QED  BY <3>1, <3>2
  <2>2. ref' \in [Tabs -> Revisions] /\ \A u \in Tabs : ref'[u] <= Revision
    BY <1>1, <1>2 DEF ApplyWrite, IInv, TypeOK, SignalsFollowCommits
  <2> QED
    BY <1>1, <1>2, <2>1, <2>2, LogAlone
    DEF ApplyWrite, IInv, TypeOK, Committed, SignalsFollowCommits, server, socket, bounds
<1>3. CASE LoseAnswer(t)
  BY <1>1, <1>3, LogAlone
  DEF LoseAnswer, IInv, TypeOK, Committed, SignalsFollowCommits, server, socket, screen, bounds
<1>4. ASSUME NEW v \in Vaults, ApplyNewVault(t, v)
      PROVE  IInv'
  <2>1. /\ UNCHANGED <<log, tx, publishing, page, drops>> /\ Answered(t)
        /\ ShowVault(t, v, payload[t], TRUE) /\ Resync(t, writing[t]) /\ switches' = switches + 1
        /\ switches < MaxSwitches /\ payload[t] \in Items /\ held' \in [Tabs -> BOOLEAN]
    BY <1>4 DEF ApplyNewVault, LoadKeys, server, IInv, TypeOK
  <2>2. /\ shown' \in [Tabs -> Items] /\ payload' \in [Tabs -> Items]
        /\ fetches' \in [Tabs -> Seq(Fetch)]
        /\ \A u \in Tabs : \A j \in DOMAIN fetches'[u] : fetches'[u][j].revision <= Revision'
    BY <2>1, VaultShown
  <2>3. /\ last' \in [Tabs -> Revisions] /\ \A u \in Tabs : last'[u] <= Revision
        /\ conn' \in [Tabs -> {"down", "subscribed", "greeting", "open"}]
        /\ frames' \in [Tabs -> Seq(Signal)] /\ UNCHANGED greeting
        /\ \A u \in Tabs : \A j \in DOMAIN frames'[u] : frames'[u][j].revision <= Revision
    BY <1>1, <2>1, Resynced
  <2>4. /\ ref' \in [Tabs -> Revisions] /\ \A u \in Tabs : ref'[u] <= Revision
        /\ active' \in [Tabs -> Vaults] /\ directory' \in [Tabs -> SUBSET Changes]
    BY <1>1, <1>4, <2>1 DEF ApplyNewVault, IInv, TypeOK, SignalsFollowCommits
  <2>5. writing' \in [Tabs -> Revisions] /\ \A u \in Tabs : writing'[u] <= Revision
    BY <1>1, <2>1
  <2>6. switches' \in 0..MaxSwitches /\ Revision' = Revision
    BY <2>1, LogAlone DEF IInv, TypeOK
  <2>7. TypeOK'
    BY <2>1, <2>2, <2>3, <2>4, <2>5, <2>6 DEF IInv, TypeOK
  <2>8. Committed'
    BY <2>1, <2>2, <2>3, <2>4, <2>5, <2>6 DEF IInv, Committed
  <2>9. SignalsFollowCommits'
    BY <2>1, <2>3, <2>4, <2>6 DEF IInv, SignalsFollowCommits
  <2> QED  BY <2>7, <2>8, <2>9 DEF IInv
<1>5. ASSUME NEW v \in Vaults, SelectVault(t, v)
      PROVE  IInv'
  <2>1. /\ UNCHANGED <<log, tx, publishing, held, page, directory, ref, writing, drops>>
        /\ ShowVault(t, v, payload[t], held[t]) /\ Resync(t, ref[t]) /\ switches' = switches + 1
        /\ switches < MaxSwitches /\ payload[t] \in Items
        /\ ref[t] \in Revisions /\ ref[t] <= Revision /\ active' \in [Tabs -> Vaults]
    BY <1>5 DEF SelectVault, server, IInv, TypeOK, SignalsFollowCommits
  <2>2. /\ shown' \in [Tabs -> Items] /\ payload' \in [Tabs -> Items]
        /\ fetches' \in [Tabs -> Seq(Fetch)]
        /\ \A u \in Tabs : \A j \in DOMAIN fetches'[u] : fetches'[u][j].revision <= Revision'
    BY <2>1, VaultShown
  <2>3. /\ last' \in [Tabs -> Revisions] /\ \A u \in Tabs : last'[u] <= Revision
        /\ conn' \in [Tabs -> {"down", "subscribed", "greeting", "open"}]
        /\ frames' \in [Tabs -> Seq(Signal)] /\ UNCHANGED greeting
        /\ \A u \in Tabs : \A j \in DOMAIN frames'[u] : frames'[u][j].revision <= Revision
    BY <2>1, Resynced
  <2>4. switches' \in 0..MaxSwitches /\ Revision' = Revision
    BY <2>1, LogAlone DEF IInv, TypeOK
  <2>5. TypeOK'
    BY <2>1, <2>2, <2>3, <2>4 DEF IInv, TypeOK
  <2>6. Committed'
    BY <2>1, <2>2, <2>3, <2>4 DEF IInv, Committed
  <2>7. SignalsFollowCommits'
    BY <2>1, <2>3, <2>4 DEF IInv, SignalsFollowCommits
  <2> QED  BY <2>5, <2>6, <2>7 DEF IInv
<1>6. CASE Navigate(t)
  <2>1. tx' \in Transaction \cup {NoTx} /\ (tx' # NoTx => tx # NoTx)
    BY <1>6 DEF Navigate, IInv, TypeOK, Transaction
  <2>2. /\ ref' \in [Tabs -> Revisions] /\ \A u \in Tabs : ref'[u] <= Revision
        /\ directory' \in [Tabs -> SUBSET Changes]
    <3>1. /\ ref' = [ref EXCEPT ![t] = Revision]
          /\ directory' = [directory EXCEPT ![t] = Stored(Directory)]
      BY <1>6 DEF Navigate
    <3>2. ref \in [Tabs -> Revisions] /\ directory \in [Tabs -> SUBSET Changes]
      BY DEF IInv, TypeOK
    <3>3. Revision \in Revisions /\ Revision \in Nat
      BY DEF IInv, TypeOK, Revisions, Revision
    <3>4. \A u \in Tabs : ref[u] <= Revision
      BY DEF IInv, SignalsFollowCommits
    <3>5. Stored(Directory) \subseteq Changes
      BY StoredType DEF IInv
    <3>6. \A u \in Tabs : ref'[u] <= Revision
      BY <3>1, <3>2, <3>3, <3>4
    <3> QED  BY <3>1, <3>2, <3>3, <3>5, <3>6
  <2>3. /\ shown' \in [Tabs -> Items] /\ payload' \in [Tabs -> Items]
        /\ page' \in [Tabs -> {"loading", "open", "locked"}]
        /\ conn' \in [Tabs -> {"down", "subscribed", "greeting", "open"}]
    BY <1>6 DEF Navigate, IInv, TypeOK, Items, Nothing
  <2>4. /\ frames' \in [Tabs -> Seq(Signal)] /\ fetches' \in [Tabs -> Seq(Fetch)]
        /\ \A u \in Tabs : \A j \in DOMAIN frames'[u] : frames'[u][j].revision <= Revision
        /\ \A u \in Tabs : \A j \in DOMAIN fetches'[u] : fetches'[u][j].revision <= Revision
    BY <1>6 DEF Navigate, IInv, TypeOK, Committed, SignalsFollowCommits
  <2>5. writing' \in [Tabs -> Revisions] /\ \A u \in Tabs : writing'[u] <= Revision
    <3>1. /\ writing \in [Tabs -> Revisions] /\ \A u \in Tabs : writing[u] <= Revision
          /\ writing' = [writing EXCEPT ![t] = 0] /\ 0 \in Revisions /\ 0 <= Revision
      <4>1. /\ writing \in [Tabs -> Revisions] /\ \A u \in Tabs : writing[u] <= Revision
            /\ Revision \in Nat
        BY DEF IInv, TypeOK, Committed, Revision
      <4>2. writing' = [writing EXCEPT ![t] = 0]
        BY <1>6 DEF Navigate
      <4> QED  BY <4>1, <4>2 DEF Revisions
    <3> QED  BY <3>1
  <2>6. UNCHANGED <<log, publishing, greeting, held, last, active, drops, switches>>
    BY <1>6 DEF Navigate, bounds
  <2>7. Revision' = Revision
    BY <2>6, LogAlone
  <2>8. TypeOK'
    BY <2>1, <2>2, <2>3, <2>4, <2>5, <2>6, <2>7 DEF IInv, TypeOK
  <2>9. Committed'
    BY <2>1, <2>4, <2>5, <2>6, <2>7 DEF IInv, Committed
  <2>10. SignalsFollowCommits'
    BY <2>2, <2>4, <2>6, <2>7 DEF IInv, SignalsFollowCommits
  <2> QED  BY <2>8, <2>9, <2>10 DEF IInv
<1>7. CASE ShowPage(t)
  <2>1. Served \in Items
    BY StoredType DEF Served, Items, IInv
  <2>2. /\ UNCHANGED <<log, tx, publishing, conn, greeting, frames, active, directory, ref,
                       writing, drops, switches>>
        /\ active[t] \in Vaults /\ page' \in [Tabs -> {"loading", "open", "locked"}]
        /\ held' \in [Tabs -> BOOLEAN]
    BY <1>7 DEF ShowPage, LoadKeys, server, socket, bounds, IInv, TypeOK
  <2>3. /\ shown' \in [Tabs -> Items] /\ payload' \in [Tabs -> Items]
        /\ fetches' \in [Tabs -> Seq(Fetch)]
        /\ \A u \in Tabs : \A j \in DOMAIN fetches'[u] : fetches'[u][j].revision <= Revision'
    BY <1>7, <2>1, <2>2, VaultShown DEF ShowPage
  <2>4. last' \in [Tabs -> Revisions] /\ \A u \in Tabs : last'[u] <= Revision
    BY <1>7 DEF ShowPage, IInv, TypeOK, SignalsFollowCommits
  <2> QED
    BY <2>2, <2>3, <2>4, LogAlone DEF IInv, TypeOK, Committed, SignalsFollowCommits
<1>8. ASSUME NEW v \in Vaults, NewVaultLocked(t, v)
      PROVE  IInv'
  <2>1. /\ UNCHANGED <<log, tx, publishing, shown, payload, last, fetches, drops, switches>>
        /\ Answered(t) /\ HangUp(t)
        /\ held' \in [Tabs -> BOOLEAN] /\ page' \in [Tabs -> {"loading", "open", "locked"}]
        /\ active' \in [Tabs -> Vaults]
    BY <1>8 DEF NewVaultLocked, LoadKeys, server, bounds, IInv, TypeOK
  <2>2. /\ ref' \in [Tabs -> Revisions] /\ \A u \in Tabs : ref'[u] <= Revision
        /\ directory' \in [Tabs -> SUBSET Changes]
    BY <1>1, <1>8, <2>1 DEF NewVaultLocked, IInv, TypeOK, SignalsFollowCommits
  <2> QED
    BY <1>1, <2>1, <2>2, HungUp, LogAlone DEF IInv, TypeOK, Committed, SignalsFollowCommits
<1>9. CASE Lock(t)
  <2>1. /\ UNCHANGED <<log, tx, publishing, active, payload, directory, ref, last, fetches,
                       writing, drops, switches>>
        /\ HangUp(t)
        /\ held' \in [Tabs -> BOOLEAN] /\ page' \in [Tabs -> {"loading", "open", "locked"}]
        /\ shown' \in [Tabs -> Items]
    BY <1>9 DEF Lock, server, bounds, IInv, TypeOK, Items, Nothing
  <2> QED
    BY <2>1, HungUp, LogAlone DEF IInv, TypeOK, Committed, SignalsFollowCommits
<1>10. CASE LockNow(t)
  <2>1. held' \in [Tabs -> BOOLEAN]
    BY <1>10 DEF LockNow, IInv, TypeOK
  <2> QED
    BY <1>10, <2>1, LogAlone
    DEF LockNow, IInv, TypeOK, Committed, SignalsFollowCommits, server, socket, bounds
<1>11. CASE Unlock(t)
  <2>1. /\ UNCHANGED <<log, tx, publishing, active, directory, ref, writing, drops>>
        /\ ShowVault(t, active[t], payload[t], TRUE) /\ Resync(t, ref[t])
        /\ switches' = switches + 1 /\ switches < MaxSwitches
        /\ payload[t] \in Items /\ active[t] \in Vaults
        /\ ref[t] \in Revisions /\ ref[t] <= Revision
        /\ held' \in [Tabs -> BOOLEAN] /\ page' \in [Tabs -> {"loading", "open", "locked"}]
    BY <1>11 DEF Unlock, server, IInv, TypeOK, SignalsFollowCommits
  <2>2. /\ shown' \in [Tabs -> Items] /\ payload' \in [Tabs -> Items]
        /\ fetches' \in [Tabs -> Seq(Fetch)]
        /\ \A u \in Tabs : \A j \in DOMAIN fetches'[u] : fetches'[u][j].revision <= Revision'
    BY <2>1, VaultShown
  <2>3. /\ last' \in [Tabs -> Revisions] /\ \A u \in Tabs : last'[u] <= Revision
        /\ conn' \in [Tabs -> {"down", "subscribed", "greeting", "open"}]
        /\ frames' \in [Tabs -> Seq(Signal)] /\ UNCHANGED greeting
        /\ \A u \in Tabs : \A j \in DOMAIN frames'[u] : frames'[u][j].revision <= Revision
    BY <2>1, Resynced
  <2>4. switches' \in 0..MaxSwitches /\ Revision' = Revision
    BY <2>1, LogAlone DEF IInv, TypeOK
  <2>5. TypeOK'
    BY <2>1, <2>2, <2>3, <2>4 DEF IInv, TypeOK
  <2>6. Committed'
    BY <2>1, <2>2, <2>3, <2>4 DEF IInv, Committed
  <2>7. SignalsFollowCommits'
    BY <2>1, <2>3, <2>4 DEF IInv, SignalsFollowCommits
  <2> QED  BY <2>5, <2>6, <2>7 DEF IInv
<1>12. CASE ShowLockScreen(t)
  <2>1. Served \in Items
    BY StoredType DEF Served, Items, IInv
  <2>2. /\ UNCHANGED <<log, tx, publishing, conn, greeting, frames, active, shown, directory,
                       ref, last, fetches, writing, drops, switches>>
        /\ payload' \in [Tabs -> Items] /\ held' \in [Tabs -> BOOLEAN]
        /\ page' \in [Tabs -> {"loading", "open", "locked"}]
    BY <1>12, <2>1 DEF ShowLockScreen, LoadKeys, server, socket, bounds, IInv, TypeOK
  <2> QED
    BY <2>2, LogAlone DEF IInv, TypeOK, Committed, SignalsFollowCommits
<1> QED  BY <1>2, <1>3, <1>4, <1>5, <1>6, <1>7, <1>8, <1>9, <1>10, <1>11, <1>12

\* Every step keeps the types and that what tabs are about to hear is committed.
THEOREM Invariant == Spec => []IInv
<1>1. Init => IInv
  BY DEF Init, IInv, TypeOK, Committed, SignalsFollowCommits, Revisions, Revision, Items, Nothing
<1>2. IInv /\ [Next]_vars => IInv'
  <2> SUFFICES ASSUME IInv, [Next]_vars
               PROVE  IInv'
    OBVIOUS
  <2>1. CASE UNCHANGED vars
    BY <2>1 DEF vars, IInv, TypeOK, Committed, SignalsFollowCommits, Revision
  <2>2. CASE Next
    BY <2>2, ServerSteps, SocketSteps, FetchSteps, TabSteps DEF Next
  <2> QED  BY <2>1, <2>2
<1> QED  BY <1>1, <1>2, PTL DEF Spec

\* The log, the sockets and the tabs have their types.
THEOREM TypeCorrect == Spec => []TypeOK
<1>1. IInv => TypeOK
  BY DEF IInv
<1> QED  BY <1>1, Invariant, PTL

\* No tab ever hears of a revision that is not committed, for any number of
\* tabs, whatever is rolled back, dropped or lost in a crash.
THEOREM SignalsAreCommitted == Spec => []SignalsFollowCommits
<1>1. IInv => SignalsFollowCommits
  BY DEF IInv
<1> QED  BY <1>1, Invariant, PTL

------------------------------------------------------------------------
(* A page whose items are not shown awaits them, or has lost its keys.     *)

\* Is a refetch of items, or their decryption, among these requests?
Asks(f) == \E k \in DOMAIN f : f[k].list # Directory

LEMMA StrandedIs ==
  \A t : /\ Stranded(t) <=> page[t] = "open" /\ shown[t] = Nothing /\ ~ Asks(fetches[t])
         /\ Stranded(t)' <=> page'[t] = "open" /\ shown'[t] = Nothing /\ ~ Asks(fetches'[t])
BY DEF Stranded, Open, AskedForItems, Asks, Nothing

\* Requests that are sent, or a request for the list of vaults that goes, leave
\* the one for the items where it was.
LEMMA AsksStay ==
  ASSUME IInv, NEW t \in Tabs
  PROVE  /\ \A l \in Lists \ {Directory} : Asks(Append(fetches[t], Ask(l)))
         /\ \A served : Asks(Append(fetches[t], Decrypt(served)))
         /\ \A v \in Vaults : Asks(fetches[t] \o <<Ask(v), Ask(Directory)>>)
         /\ \A k \in DOMAIN fetches[t] :
              Asks(fetches[t]) /\ fetches[t][k].list = Directory => Asks(Without(fetches[t], k))
<1>1. fetches[t] \in Seq(Fetch) /\ \A l : Ask(l).list = l
  BY DEF IInv, TypeOK, Ask
<1>2. ASSUME NEW e, e.list # Directory
      PROVE  Asks(Append(fetches[t], e))
  <2> DEFINE f == Append(fetches[t], e)
  <2>1. Len(f) \in DOMAIN f /\ f[Len(f)] = e
    BY <1>1
  <2> QED  BY <1>2, <2>1 DEF Asks
<1>3. \A l \in Lists \ {Directory} : Asks(Append(fetches[t], Ask(l)))
  BY <1>1, <1>2
<1>4. \A served : Asks(Append(fetches[t], Decrypt(served)))
  BY <1>2 DEF Decrypt
<1>5. ASSUME NEW v \in Vaults
      PROVE  Asks(fetches[t] \o <<Ask(v), Ask(Directory)>>)
  <2> DEFINE f == fetches[t] \o <<Ask(v), Ask(Directory)>>
  <2>1. Len(fetches[t]) + 1 \in DOMAIN f /\ f[Len(fetches[t]) + 1] = Ask(v)
    BY <1>1
  <2> QED  BY <1>1, <2>1 DEF Asks
<1>6. ASSUME NEW k \in DOMAIN fetches[t], Asks(fetches[t]), fetches[t][k].list = Directory
      PROVE  Asks(Without(fetches[t], k))
  <2>1. PICK j \in DOMAIN fetches[t] : fetches[t][j].list # Directory
    BY <1>6 DEF Asks
  <2>2. j # k
    BY <1>6, <2>1
  <2>3. PICK i \in DOMAIN Without(fetches[t], k) : Without(fetches[t], k)[i] = fetches[t][j]
    BY <1>1, <2>2, WithoutOthers
  <2> QED  BY <2>1, <2>3 DEF Asks
<1> QED  BY <1>3, <1>4, <1>5, <1>6

\* A tab whose page, items and requests for them nobody touches is not stranded.
LEMMA NotTouched ==
  ASSUME NEW u, page'[u] = page[u], shown'[u] = shown[u], Asks(fetches[u]) => Asks(fetches'[u]),
         Stranded(u)'
  PROVE  Stranded(u)
BY StrandedIs

\* Showing a vault asks for the items it does not have, if it finds its key.
LEMMA ShowsOrAsks ==
  ASSUME IInv, NEW t \in Tabs, NEW v \in Vaults, NEW served, NEW found \in BOOLEAN,
         ShowVault(t, v, served, found)
  PROVE  /\ found => Asks(fetches'[t])
         /\ \A u \in Tabs \ {t} : shown'[u] = shown[u] /\ fetches'[u] = fetches[u]
<1>1. shown \in [Tabs -> Items] /\ fetches \in [Tabs -> Seq(Fetch)] /\ v \in Lists \ {Directory}
  BY DEF IInv, TypeOK, Lists
<1>2. CASE v = FirstVault /\ served # Nothing
  <2>1. UNCHANGED shown /\ fetches' = [fetches EXCEPT ![t] = Append(fetches[t], Decrypt(served))]
    BY <1>2 DEF ShowVault
  <2> QED  BY <1>1, <2>1, AsksStay
<1>3. CASE ~ (v = FirstVault /\ served # Nothing)
  <2>1. /\ shown' = [shown EXCEPT ![t] = Nothing]
        /\ fetches' = IF found THEN [fetches EXCEPT ![t] = Append(fetches[t], Ask(v))] ELSE fetches
    BY <1>3 DEF ShowVault
  <2> QED  BY <1>1, <2>1, AsksStay
<1> QED  BY <1>2, <1>3

\* A request that goes on keeps its list.
LEMMA GoesOn ==
  ASSUME IInv, NEW t \in Tabs, NEW k \in DOMAIN fetches[t],
         ReadRows(t, k) \/ ReadRevision(t, k) \/ RowsArrive(t, k)
  PROVE  \A u \in Tabs : Asks(fetches[u]) => Asks(fetches'[u])
<1>1. fetches \in [Tabs -> Seq(Fetch)] /\ fetches[t] \in Seq(Fetch) /\ fetches[t][k] \in Fetch
  BY Requests DEF IInv, TypeOK
<1>2. PICK e : e.list = fetches[t][k].list /\ fetches' = [fetches EXCEPT ![t][k] = e]
  <2>1. CASE ReadRows(t, k)
    <3>1. fetches' = [fetches EXCEPT ![t][k] =
            [fetches[t][k] EXCEPT !.stage = "read", !.has = Stored(fetches[t][k].list)]]
      BY <1>1, <2>1 DEF ReadRows
    <3> QED  BY <1>1, <3>1 DEF Fetch
  <2>2. CASE ReadRevision(t, k)
    <3>1. fetches' = [fetches EXCEPT ![t][k] =
            [fetches[t][k] EXCEPT !.stage = "answered", !.revision = Revision]]
      BY <1>1, <2>2 DEF ReadRevision
    <3> QED  BY <1>1, <3>1 DEF Fetch
  <2>3. CASE RowsArrive(t, k)
    <3>1. fetches' = [fetches EXCEPT ![t][k] = [fetches[t][k] EXCEPT !.stage = "decrypting"]]
      BY <1>1, <2>3 DEF RowsArrive
    <3> QED  BY <1>1, <3>1 DEF Fetch
  <2> QED  BY <2>1, <2>2, <2>3
<1>3. \A u \in Tabs : DOMAIN fetches'[u] = DOMAIN fetches[u]
                      /\ \A j \in DOMAIN fetches[u] : fetches'[u][j].list = fetches[u][j].list
  BY <1>1, <1>2
<1> QED  BY <1>3 DEF Asks

\* No request strands a page, whether it is answered or fails.
LEMMA FetchesStrandNobody ==
  ASSUME IInv, NEW t \in Tabs, NEW k \in DOMAIN fetches[t],
         \/ ReadRows(t, k) \/ ReadRevision(t, k) \/ RowsArrive(t, k)
         \/ ItemsArrive(t, k) \/ DirectoryArrives(t, k) \/ FetchFails(t, k),
         NEW u \in Tabs, Stranded(u)'
  PROVE  Stranded(u)
<1>1. /\ fetches \in [Tabs -> Seq(Fetch)] /\ fetches[t] \in Seq(Fetch) /\ fetches[t][k] \in Fetch
      /\ shown \in [Tabs -> Items] /\ active[t] \in Vaults
  BY Requests DEF IInv, TypeOK
<1>2. \A v \in Vaults : \A has : [of |-> v, has |-> has] # Nothing
  BY DEF Nothing
<1>3. CASE ReadRows(t, k) \/ ReadRevision(t, k) \/ RowsArrive(t, k)
  <2>1. UNCHANGED <<page, shown>>
    BY <1>3 DEF ReadRows, ReadRevision, RowsArrive, screen
  <2> QED  BY <1>3, <2>1, GoesOn, NotTouched
<1>4. CASE ItemsArrive(t, k)
  <2>1. /\ UNCHANGED page /\ fetches[t][k].list \in Vaults
        /\ shown' = [shown EXCEPT ![t] = [of |-> fetches[t][k].list, has |-> fetches[t][k].has]]
        /\ fetches' = [fetches EXCEPT ![t] = Without(fetches[t], k)]
    BY <1>1, <1>4 DEF ItemsArrive, Fetch, Lists
  <2>2. CASE u = t
    BY <1>1, <1>2, <2>1, <2>2, StrandedIs
  <2>3. CASE u # t
    BY <1>1, <2>1, <2>3, NotTouched
  <2> QED  BY <2>2, <2>3
<1>5. CASE DirectoryArrives(t, k)
  <2>1. /\ UNCHANGED <<page, shown>> /\ fetches[t][k].list = Directory
        /\ fetches' = [fetches EXCEPT ![t] = Without(fetches[t], k)]
    BY <1>5 DEF DirectoryArrives
  <2>2. Asks(fetches[u]) => Asks(fetches'[u])
    BY <1>1, <2>1, AsksStay
  <2> QED  BY <2>1, <2>2, NotTouched
<1>6. CASE FetchFails(t, k)
  <2>1. UNCHANGED page /\ fetches' = [fetches EXCEPT ![t] = Without(fetches[t], k)]
    BY <1>6 DEF FetchFails
  <2>2. CASE fetches[t][k].list = Directory
    <3>1. UNCHANGED shown
      BY <1>6, <2>2 DEF FetchFails
    <3>2. Asks(fetches[u]) => Asks(fetches'[u])
      BY <1>1, <2>1, <2>2, AsksStay
    <3> QED  BY <2>1, <3>1, <3>2, NotTouched
  <2>3. CASE fetches[t][k].list # Directory
    <3>1. shown' = [shown EXCEPT ![t] = OrEmpty(t)] /\ OrEmpty(t) # Nothing
      BY <1>1, <1>2, <1>6, <2>3 DEF FetchFails, OrEmpty
    <3>2. CASE u = t
      BY <1>1, <3>1, <3>2, StrandedIs
    <3>3. CASE u # t
      BY <1>1, <2>1, <3>1, <3>3, NotTouched
    <3> QED  BY <3>2, <3>3
  <2> QED  BY <2>2, <2>3
<1> QED  BY <1>3, <1>4, <1>5, <1>6

\* Whatever fails, is lost or crashes, a page that unseals for ever has lost its
\* keys: for any number of tabs, vaults and requests, no other step leaves a
\* page without items and without a refetch of them on its way.
THEOREM OnlyLocksStrandPages == Spec => OnlyLocksStrand
<1>1. IInv /\ [Next]_vars => [\A t \in Tabs : Stranded(t)' => Stranded(t) \/ ~ held'[t]]_vars
  <2> SUFFICES ASSUME IInv, Next, NEW u \in Tabs, Stranded(u)', ~ Stranded(u)
               PROVE  ~ held'[u]
    OBVIOUS
  <2>1. /\ fetches \in [Tabs -> Seq(Fetch)] /\ shown \in [Tabs -> Items]
        /\ page \in [Tabs -> {"loading", "open", "locked"}] /\ active \in [Tabs -> Vaults]
        /\ held \in [Tabs -> BOOLEAN]
    BY DEF IInv, TypeOK
  <2>2. ~ UNCHANGED <<page, shown, fetches>>
    BY NotTouched
  <2>3. ASSUME \/ \E client \in Clients, list \in Lists : Mutate(client, list)
               \/ Rollback \/ Commit \/ \E signal \in publishing : Publish(signal)
        PROVE  FALSE
    BY <2>2, <2>3 DEF Mutate, Rollback, Commit, Publish, screen
  <2>4. ~ Crash
    <3> SUFFICES ASSUME Crash
                 PROVE  FALSE
      OBVIOUS
    <3>1. /\ UNCHANGED <<page, shown>>
          /\ fetches' = [t \in Tabs |-> [k \in DOMAIN fetches[t] |-> Lost(fetches[t][k])]]
      BY DEF Crash, screen
    <3>2. \A k \in DOMAIN fetches[u] : Lost(fetches[u][k]).list = fetches[u][k].list
      BY <2>1 DEF Lost, Fetch
    <3>3. Asks(fetches[u]) => Asks(fetches'[u])
      BY <3>1, <3>2 DEF Asks
    <3> QED  BY <3>1, <3>3, NotTouched
  <2>5. ASSUME NEW t \in Tabs,
               \/ Connect(t) \/ LookUpRevision(t) \/ LookUpFails(t) \/ Greet(t) \/ Drop(t)
               \/ IgnoreStale(t) \/ SkipOwn(t) \/ LoseAnswer(t) \/ LockNow(t)
        PROVE  FALSE
    BY <2>2, <2>5 DEF Connect, LookUpRevision, LookUpFails, Greet, Drop, IgnoreStale, SkipOwn,
       Receive, LoseAnswer, LockNow, screen
  <2>6. ASSUME NEW t \in Tabs, Refetch(t)
        PROVE  FALSE
    <3>1. /\ UNCHANGED <<page, shown>>
          /\ fetches' = [fetches EXCEPT ![t] = fetches[t] \o <<Ask(active[t]), Ask(Directory)>>]
      BY <2>6 DEF Refetch, Receive
    <3>2. Asks(fetches[u]) => Asks(fetches'[u])
      BY <2>1, <3>1, AsksStay
    <3> QED  BY <3>1, <3>2, NotTouched
  <2>7. ASSUME NEW t \in Tabs, RefetchDirectory(t)
        PROVE  ~ held'[u]
    <3>1. /\ UNCHANGED <<page, shown>> /\ held' = [held EXCEPT ![t] = FALSE]
          /\ fetches' = [fetches EXCEPT ![t] = Append(fetches[t], Ask(Directory))]
      BY <2>7 DEF RefetchDirectory, Receive, LoadKeys
    <3>2. u # t => fetches'[u] = fetches[u]
      BY <2>1, <3>1
    <3>3. u = t
      BY <3>1, <3>2, NotTouched
    <3> QED  BY <2>1, <3>1, <3>3
  <2>8. ASSUME NEW t \in Tabs, NEW k \in DOMAIN fetches[t],
               \/ ReadRows(t, k) \/ ReadRevision(t, k) \/ RowsArrive(t, k)
               \/ ItemsArrive(t, k) \/ DirectoryArrives(t, k) \/ FetchFails(t, k)
        PROVE  FALSE
    BY <2>8, FetchesStrandNobody
  <2>9. ASSUME NEW t \in Tabs, ApplyWrite(t)
        PROVE  FALSE
    <3>1. UNCHANGED <<page, fetches>> /\ writing[t] # 0
      BY <2>9 DEF ApplyWrite, Answered
    <3>2. shown'[u] = Nothing => shown[u] = Nothing
      <4>1. CASE shown[t] = Nothing
        BY <2>9, <4>1 DEF ApplyWrite
      <4>2. CASE shown[t] # Nothing
        <5>1. shown' = [shown EXCEPT ![t] = [shown[t] EXCEPT !.has = @ \cup {writing[t]}]]
          BY <2>1, <2>9, <4>2 DEF ApplyWrite
        <5>2. [shown[t] EXCEPT !.has = @ \cup {writing[t]}].has # {}
          <6>1. shown[t] \in Items
            BY <2>1
          <6>2. [shown[t] EXCEPT !.has = @ \cup {writing[t]}].has = shown[t].has \cup {writing[t]}
            BY <6>1 DEF Items
          <6> QED  BY <6>2
        <5> QED  BY <2>1, <5>1, <5>2 DEF Nothing
      <4> QED  BY <4>1, <4>2
    <3> QED  BY <3>1, <3>2, StrandedIs
  <2>10. ASSUME NEW t \in Tabs, NEW v \in Vaults, NEW served, NEW found \in BOOLEAN,
                ShowVault(t, v, served, found), \A w \in Tabs \ {t} : page'[w] = page[w]
         PROVE  u = t /\ ~ found
    <3>1. u = t
      BY <2>10, ShowsOrAsks, NotTouched
    <3> QED  BY <2>10, <3>1, ShowsOrAsks, StrandedIs
  <2>11. ASSUME NEW t \in Tabs, NEW v \in Vaults, ApplyNewVault(t, v)
         PROVE  FALSE
    <3>1. UNCHANGED page /\ ShowVault(t, v, payload[t], TRUE)
      BY <2>11 DEF ApplyNewVault
    <3> QED  BY <2>10, <3>1
  <2>12. ASSUME NEW t \in Tabs, NEW v \in Vaults, SelectVault(t, v)
         PROVE  ~ held'[u]
    <3>1. UNCHANGED <<held, page>> /\ ShowVault(t, v, payload[t], held[t]) /\ held[t] \in BOOLEAN
      BY <2>1, <2>12 DEF SelectVault
    <3>2. u = t /\ ~ held[t]
      BY <2>10, <3>1
    <3> QED  BY <3>1, <3>2
  <2>13. ASSUME NEW t \in Tabs, Unlock(t)
         PROVE  FALSE
    <3>1. /\ ShowVault(t, active[t], payload[t], TRUE) /\ active[t] \in Vaults
          /\ \A w \in Tabs \ {t} : page'[w] = page[w]
      BY <2>1, <2>13 DEF Unlock
    <3> QED  BY <2>10, <3>1
  <2>14. ASSUME NEW t \in Tabs, ShowPage(t)
         PROVE  FALSE
    <3>1. /\ ShowVault(t, active[t], Served, TRUE) /\ active[t] \in Vaults
          /\ \A w \in Tabs \ {t} : page'[w] = page[w]
      BY <2>1, <2>14 DEF ShowPage
    <3> QED  BY <2>10, <3>1
  <2>15. ASSUME NEW t \in Tabs,
                \/ Navigate(t) \/ Lock(t) \/ ShowLockScreen(t)
                \/ \E v \in Vaults : NewVaultLocked(t, v)
         PROVE  FALSE
    <3>1. /\ page'[t] # "open"
          /\ \A w \in Tabs \ {t} :
               page'[w] = page[w] /\ shown'[w] = shown[w] /\ fetches'[w] = fetches[w]
      BY <2>1, <2>15 DEF Navigate, Lock, ShowLockScreen, NewVaultLocked
    <3>2. u # t
      BY <3>1, StrandedIs
    <3> QED  BY <3>1, <3>2, NotTouched
  <2> QED
    BY <2>3, <2>4, <2>5, <2>6, <2>7, <2>8, <2>9, <2>11, <2>12, <2>13, <2>14, <2>15 DEF Next
<1> QED  BY <1>1, Invariant, PTL DEF Spec, OnlyLocksStrand

------------------------------------------------------------------------
(* What a tab that only watches has on screen.  From here on every change  *)
(* is made elsewhere, no request fails, no tab is locked, its refetches    *)
(* are answered one after the other and no sync starts over: the           *)
(* assumptions under which live sync keeps its promise.  Pages are still navigated and sockets     *)
(* dropped at any moment, and signals published in any order.              *)

Quiet ==
  /\ Writers = {}
  /\ OneAtATime = TRUE
  /\ RequestsMayFail = FALSE
  /\ KeysMayGo = FALSE
  /\ MaxSwitches = 0

\* What tab t has on screen of a list.
View(t, l) == IF l = Directory THEN directory[t] ELSE shown[t].has

\* Every change, and every signal of one, is from elsewhere, and the tabs stay
\* on the vault they were opened with and keep their keys.
OnlyWatching ==
  /\ tx # NoTx => tx.by = Elsewhere /\ ~ tx.awaited
  /\ \A i \in DOMAIN log : log[i].by = Elsewhere
  /\ \A signal \in publishing : signal.origin = Elsewhere
  /\ \A t \in Tabs :
       /\ writing[t] = 0 /\ active[t] = FirstVault
       /\ held[t] = TRUE /\ page[t] # "locked"
       /\ \A n \in DOMAIN frames[t] : frames[t][n].origin = Elsewhere

\* Views and answers hold nothing but stored changes of their list ...
ViewsAreStored(t) ==
  /\ \A l \in {FirstVault, Directory} : View(t, l) \subseteq Stored(l)
  /\ \A k \in DOMAIN fetches[t] :
       /\ fetches[t][k].list \in {FirstVault, Directory}
       /\ fetches[t][k].has \subseteq Stored(fetches[t][k].list)

\* ... and an answer, which only the oldest refetch has, takes nothing away.
AnswersAdd(t) ==
  \A k \in DOMAIN fetches[t] :
    fetches[t][k].stage # "sent" =>
      k = 1 /\ View(t, fetches[t][k].list) \subseteq fetches[t][k].has

\* An open page shows its vault, or no items while the oldest refetch brings them.
ShowsItsVault(t) ==
  \/ shown[t].of = FirstVault
  \/ shown[t].has = {} /\ fetches[t] # <<>> /\ fetches[t][1].list = FirstVault

\* A page that loads has asked for nothing yet, and the list of vaults it was
\* stamped with has all that its revision counts.
PageIsWhole(t) ==
  /\ Open(t) => ShowsItsVault(t)
  /\ ~ Open(t) =>
       /\ fetches[t] = <<>> /\ shown[t].has = {}
       /\ \A i \in 1..ref[t] : log[i].list = Directory => i \in directory[t]

\* What a tab has heard of is on its screen or being fetched.
HeardIsFetched(t) ==
  Open(t) =>
    \A i \in 1..last[t] :
      log[i].list \in {FirstVault, Directory}
        => i \in View(t, log[i].list) \/ Fetching(t, i)

ScreenInv(t) ==
  ViewsAreStored(t) /\ AnswersAdd(t) /\ PageIsWhole(t) /\ HeardIsFetched(t)

\* No signal is lost for good: a connected tab that is behind hears of the
\* latest revision from a signal or from its greeting.
NewsIsOnItsWay(t) ==
  Open(t) /\ conn[t] # "down" /\ last[t] < Revision =>
    \/ \E signal \in publishing : signal.revision = Revision
    \/ \E n \in DOMAIN frames[t] : frames[t][n].revision = Revision
    \/ conn[t] = "subscribed"
    \/ conn[t] = "greeting" /\ greeting[t] = Revision

SocketInv(t) ==
  /\ ~ Open(t) => conn[t] = "down"
  /\ conn[t] = "down" => frames[t] = <<>>
  /\ NewsIsOnItsWay(t)

WatchInv ==
  /\ IInv
  /\ OnlyWatching
  /\ \A t \in Tabs : ScreenInv(t) /\ SocketInv(t)

\* Types as the steps below need them.
LEMMA Typed ==
  ASSUME IInv, NEW t \in Tabs
  PROVE  /\ log \in Seq(Change) /\ Revision \in Nat /\ DOMAIN log = 1..Revision
         /\ Revision = Len(log)
         /\ last[t] \in Nat /\ ref[t] \in Nat /\ greeting[t] \in Nat
         /\ last[t] <= Revision /\ ref[t] <= Revision /\ greeting[t] <= Revision
         /\ fetches \in [Tabs -> Seq(Fetch)] /\ fetches[t] \in Seq(Fetch)
         /\ frames \in [Tabs -> Seq(Signal)] /\ frames[t] \in Seq(Signal)
         /\ shown \in [Tabs -> Items] /\ directory \in [Tabs -> SUBSET Changes]
         /\ page \in [Tabs -> {"loading", "open", "locked"}] /\ held \in [Tabs -> BOOLEAN]
         /\ conn \in [Tabs -> {"down", "subscribed", "greeting", "open"}]
         /\ last \in [Tabs -> Revisions] /\ ref \in [Tabs -> Revisions]
         /\ greeting \in [Tabs -> Revisions]
<1>1. Revision = Len(log) /\ log \in Seq(Change)
  BY DEF IInv, TypeOK, Revision
<1>2. \A n \in Revisions : n \in Nat
  BY DEF Revisions
<1> QED  BY <1>1, <1>2 DEF IInv, TypeOK, Committed, SignalsFollowCommits

\* What is left of the next-state relation: nobody writes here and nothing fails.
LEMMA WatchSteps ==
  ASSUME Quiet, IInv, OnlyWatching, Next
  PROVE  \/ \E list \in Lists : Mutate(Elsewhere, list)
         \/ Rollback \/ Commit
         \/ \E signal \in publishing : Publish(signal)
         \/ \E t \in Tabs :
              \/ Connect(t) \/ LookUpRevision(t) \/ Greet(t) \/ Drop(t)
              \/ IgnoreStale(t) \/ Refetch(t)
              \/ /\ 1 \in DOMAIN fetches[t]
                 /\ \/ ReadRows(t, 1) \/ ReadRevision(t, 1) \/ RowsArrive(t, 1)
                    \/ ItemsArrive(t, 1) \/ DirectoryArrives(t, 1)
              \/ Navigate(t) \/ ShowPage(t)
<1>1. /\ ~ Crash
      /\ \A t \in Tabs : ~ LookUpFails(t) /\ ~ LoseAnswer(t)
      /\ \A t \in Tabs : \A k : ~ FetchFails(t, k)
  BY DEF Quiet, Crash, LookUpFails, LoseAnswer, FetchFails
<1>2. \A t \in Tabs :
        ~ ApplyWrite(t) /\ \A v \in Vaults : ~ ApplyNewVault(t, v) /\ ~ NewVaultLocked(t, v)
  BY DEF OnlyWatching, ApplyWrite, ApplyNewVault, NewVaultLocked, Answered
<1>3. \A t \in Tabs, v \in Vaults : ~ SelectVault(t, v)
  BY DEF Quiet, SelectVault, IInv, TypeOK
<1>4. ASSUME NEW t \in Tabs, SkipOwn(t)
      PROVE  FALSE
  <2>1. frames[t] # <<>> /\ Head(frames[t]).origin = t /\ frames[t] \in Seq(Signal)
    BY <1>4, Typed DEF SkipOwn, Receive
  <2>2. 1 \in DOMAIN frames[t] /\ Head(frames[t]) = frames[t][1]
    BY <2>1
  <2> QED  BY <2>1, <2>2 DEF OnlyWatching
<1>5. \A client \in Clients, list \in Lists : Mutate(client, list) => client = Elsewhere
  BY DEF Quiet, Mutate, MayWrite
<1>7. \A t \in Tabs : ~ Lock(t) /\ ~ LockNow(t) /\ ~ Unlock(t)
  BY DEF Quiet, OnlyWatching, Lock, LockNow, Unlock
<1>8. \A t \in Tabs : ~ RefetchDirectory(t) /\ ~ ShowLockScreen(t)
  BY DEF Quiet, OnlyWatching, RefetchDirectory, ShowLockScreen, LoadKeys
<1>6. \A t \in Tabs : \A k \in DOMAIN fetches[t] :
        \/ ReadRows(t, k) \/ ReadRevision(t, k) \/ RowsArrive(t, k)
        \/ ItemsArrive(t, k) \/ DirectoryArrives(t, k)
        => k = 1
  BY DEF Quiet, ReadRows, ReadRevision, RowsArrive, ItemsArrive, DirectoryArrives, Turn
<1> QED  BY <1>1, <1>2, <1>3, <1>4, <1>5, <1>6, <1>7, <1>8 DEF Next

\* The log grew, or stayed as it was.
Grows == Revision <= Revision' /\ \A i \in 1..Revision : log'[i] = log[i]

\* What was stored stays stored.
LEMMA StoredStays ==
  ASSUME IInv, IInv', Grows
  PROVE  \A l : Stored(l) \subseteq Stored(l)'
<1>1. DOMAIN log = 1..Revision /\ Revision \in Nat
  BY DEF IInv, TypeOK, Revision
<1>2. DOMAIN log' = 1..Revision' /\ Revision' \in Nat
  BY DEF IInv, TypeOK, Revision
<1>3. 1..Revision \subseteq 1..Revision'
  BY <1>1, <1>2 DEF Grows
<1> QED  BY <1>1, <1>2, <1>3 DEF Grows, Stored

\* A step that leaves the log alone is one of these.
LEMMA LogUntouched ==
  ASSUME IInv, UNCHANGED log
  PROVE  Grows /\ Revision' = Revision /\ \A l : Stored(l)' = Stored(l)
<1>1. Revision \in Nat
  BY DEF IInv, TypeOK, Revision
<1> QED  BY <1>1 DEF Grows, Revision, Stored

\* A tab nobody touches keeps what it owes while the log grows.
LEMMA ScreenKept ==
  ASSUME IInv, IInv', Grows, NEW u \in Tabs, ScreenInv(u),
         page'[u] = page[u], shown'[u] = shown[u], directory'[u] = directory[u],
         fetches'[u] = fetches[u], ref'[u] = ref[u], last'[u] = last[u]
  PROVE  ScreenInv(u)'
<1>1. \A l : View(u, l)' = View(u, l)
  BY DEF View
<1>2. \A l : Stored(l) \subseteq Stored(l)'
  BY StoredStays
<1>3. /\ last[u] \in Nat /\ ref[u] \in Nat /\ last[u] <= Revision /\ ref[u] <= Revision
      /\ Revision \in Nat
  BY Typed
<1>4. \A i \in 1..last[u] : i \in 1..Revision
  BY <1>3
<1>5. \A i \in 1..ref[u] : i \in 1..Revision
  BY <1>3
<1>6. \A i \in 1..Revision : log'[i] = log[i]
  BY DEF Grows
<1>7. ViewsAreStored(u)'
  <2>1. \A l \in {FirstVault, Directory} : View(u, l) \subseteq Stored(l)
    BY DEF ScreenInv, ViewsAreStored
  <2>2. \A k \in DOMAIN fetches[u] :
          /\ fetches[u][k].list \in {FirstVault, Directory}
          /\ fetches[u][k].has \subseteq Stored(fetches[u][k].list)
    BY DEF ScreenInv, ViewsAreStored
  <2> QED  BY <1>1, <1>2, <2>1, <2>2 DEF ViewsAreStored
<1>8. AnswersAdd(u)'
  BY <1>1 DEF ScreenInv, AnswersAdd
<1>9. PageIsWhole(u)'
  BY <1>5, <1>6 DEF ScreenInv, PageIsWhole, ShowsItsVault, Open
<1>10. HeardIsFetched(u)'
  <2>1. \A i \in 1..last[u] : Fetching(u, i) => Fetching(u, i)'
    BY <1>4, <1>6 DEF Fetching
  <2> QED  BY <1>1, <1>4, <1>6, <2>1 DEF ScreenInv, HeardIsFetched, Open
<1> QED  BY <1>7, <1>8, <1>9, <1>10 DEF ScreenInv

\* A tab whose socket nobody touches keeps what it owes while nothing commits.
LEMMA SocketKept ==
  ASSUME NEW u \in Tabs, SocketInv(u), Revision' = Revision,
         publishing \subseteq publishing',
         page'[u] = page[u], conn'[u] = conn[u], frames'[u] = frames[u],
         greeting'[u] = greeting[u], last'[u] = last[u]
  PROVE  SocketInv(u)'
BY DEF SocketInv, NewsIsOnItsWay, Open

\* Nothing but the watched steps' own signals: what everyone shares stays as
\* it should be.
LEMMA NextOnlyWatching ==
  ASSUME Quiet, IInv, OnlyWatching, [Next]_vars
  PROVE  OnlyWatching'
<1>0. /\ log \in Seq(Change) /\ \A i \in DOMAIN log : log[i].by = Elsewhere
      /\ \A t \in Tabs : frames[t] \in Seq(Signal)
      /\ writing \in [Tabs -> Revisions] /\ active \in [Tabs -> Vaults]
  BY DEF IInv, TypeOK, OnlyWatching
<1>1. ASSUME UNCHANGED <<log, tx, publishing, held, page, writing, active>>,
             \A t \in Tabs : \A n \in DOMAIN frames'[t] : frames'[t][n].origin = Elsewhere
      PROVE  OnlyWatching'
  BY <1>1 DEF OnlyWatching
<1>2. ASSUME UNCHANGED <<log, tx, publishing, held, page, writing, active, frames>>
      PROVE  OnlyWatching'
  BY <1>2 DEF OnlyWatching
<1>3. ASSUME NEW list \in Lists, Mutate(Elsewhere, list)
      PROVE  OnlyWatching'
  <2>1. tx'.by = Elsewhere /\ ~ tx'.awaited
    BY <1>3 DEF Mutate
  <2> QED  BY <1>3, <2>1 DEF Mutate, OnlyWatching, socket, screen
<1>4. CASE Rollback
  BY <1>4 DEF Rollback, OnlyWatching, socket, screen
<1>5. CASE Commit
  <2>1. /\ tx.by = Elsewhere /\ ~ tx.awaited /\ tx' = NoTx
        /\ UNCHANGED <<frames, held, page, active, writing>>
        /\ log' = Append(log, [by |-> tx.by, list |-> tx.list])
        /\ publishing' = publishing \cup {[revision |-> Revision + 1, origin |-> tx.by]}
    BY <1>5 DEF Commit, OnlyWatching, socket, screen
  <2>2. \A i \in DOMAIN log' : log'[i].by = Elsewhere
    BY <1>0, <2>1
  <2>3. \A signal \in publishing' : signal.origin = Elsewhere
    BY <2>1 DEF OnlyWatching
  <2> QED  BY <2>1, <2>2, <2>3 DEF OnlyWatching
<1>6. ASSUME NEW signal \in publishing, Publish(signal)
      PROVE  OnlyWatching'
  <2>1. /\ UNCHANGED <<log, tx, held, page, writing, active>> /\ publishing' \subseteq publishing
        /\ \A t \in Tabs : frames'[t] \in {frames[t], Append(frames[t], signal)}
    BY <1>6 DEF Publish, screen
  <2>2. signal.origin = Elsewhere /\ signal \in Signal
    BY DEF OnlyWatching, IInv, TypeOK
  <2>3. ASSUME NEW t \in Tabs
        PROVE  \A n \in DOMAIN Append(frames[t], signal) :
                 Append(frames[t], signal)[n].origin = Elsewhere
    BY <1>0, <2>2 DEF OnlyWatching
  <2> QED  BY <2>1, <2>3 DEF OnlyWatching
<1>7. ASSUME NEW t \in Tabs, Connect(t) \/ LookUpRevision(t)
      PROVE  OnlyWatching'
  BY <1>2, <1>7 DEF Connect, LookUpRevision, server, screen
<1>15. ASSUME NEW t \in Tabs, ShowPage(t)
       PROVE  OnlyWatching'
  <2>1. /\ UNCHANGED <<log, tx, publishing, writing, active, frames>>
        /\ held' = [held EXCEPT ![t] = TRUE] /\ page' = [page EXCEPT ![t] = "open"]
    BY <1>15 DEF ShowPage, LoadKeys, server, socket
  <2>2. \A u \in Tabs : held'[u] = TRUE /\ page'[u] # "locked"
    BY <2>1, Typed DEF OnlyWatching
  <2> QED  BY <2>1, <2>2 DEF OnlyWatching
<1>8. ASSUME NEW t \in Tabs, Greet(t)
      PROVE  OnlyWatching'
  <2> DEFINE greeted == [revision |-> greeting[t], origin |-> Elsewhere]
  <2>1. /\ UNCHANGED <<log, tx, publishing, held, page, writing, active>>
        /\ frames' = [frames EXCEPT ![t] = Append(frames[t], greeted)]
    BY <1>8 DEF Greet, server, screen
  <2>2. \A n \in DOMAIN Append(frames[t], greeted) :
          Append(frames[t], greeted)[n].origin = Elsewhere
    BY <1>0 DEF OnlyWatching
  <2>3. \A u \in Tabs : frames'[u] = IF u = t THEN Append(frames[t], greeted) ELSE frames[u]
    BY <2>1 DEF IInv, TypeOK
  <2> QED  BY <1>1, <2>1, <2>2, <2>3 DEF OnlyWatching
<1>9. ASSUME NEW t \in Tabs, IgnoreStale(t) \/ Refetch(t)
      PROVE  OnlyWatching'
  <2>1. Receive(t)
    BY <1>9 DEF IgnoreStale, Refetch
  <2>5. UNCHANGED held
    <3>1. held[t] = TRUE /\ held \in [Tabs -> BOOLEAN]
      BY Typed DEF OnlyWatching
    <3> QED  BY <1>9, <3>1 DEF IgnoreStale, Refetch, LoadKeys
  <2>2. /\ UNCHANGED <<log, tx, publishing, held, page, writing, active>> /\ frames[t] # <<>>
        /\ frames' = [frames EXCEPT ![t] = Tail(frames[t])]
    BY <2>1, <2>5 DEF Receive, server
  <2>3. \A n \in DOMAIN Tail(frames[t]) : Tail(frames[t])[n].origin = Elsewhere
    BY <1>0, <2>2 DEF OnlyWatching
  <2>4. \A u \in Tabs : frames'[u] = IF u = t THEN Tail(frames[t]) ELSE frames[u]
    BY <2>2 DEF IInv, TypeOK
  <2> QED  BY <1>1, <2>2, <2>3, <2>4 DEF OnlyWatching
<1>10. ASSUME NEW t \in Tabs, Drop(t) \/ Navigate(t)
       PROVE  OnlyWatching'
  <2>1. \A u \in Tabs : frames'[u] = IF u = t THEN <<>> ELSE frames[u]
    BY <1>10 DEF Drop, Navigate, IInv, TypeOK
  <2>2. \A u \in Tabs : /\ writing'[u] = 0 /\ active'[u] = FirstVault
                         /\ held'[u] = TRUE /\ page'[u] # "locked"
    BY <1>0, <1>10, Typed DEF Drop, Navigate, OnlyWatching, screen
  <2>3. UNCHANGED <<log, publishing>> /\ tx' = tx
    <3>1. t # Elsewhere
      OBVIOUS
    <3> QED  BY <1>10, <3>1 DEF Drop, Navigate, OnlyWatching, server
  <2> QED  BY <2>1, <2>2, <2>3 DEF OnlyWatching
<1>11. ASSUME NEW t \in Tabs, ReadRows(t, 1) \/ ReadRevision(t, 1) \/ RowsArrive(t, 1)
       PROVE  OnlyWatching'
  BY <1>2, <1>11 DEF ReadRows, ReadRevision, RowsArrive, server, screen, socket
<1>12. ASSUME NEW t \in Tabs, ItemsArrive(t, 1)
       PROVE  OnlyWatching'
  BY <1>2, <1>12 DEF ItemsArrive, server, socket
<1>13. ASSUME NEW t \in Tabs, DirectoryArrives(t, 1)
       PROVE  OnlyWatching'
  <2>1. ~ switches < MaxSwitches
    BY DEF Quiet, IInv, TypeOK
  <2> QED  BY <1>2, <1>13, <2>1 DEF DirectoryArrives, server, socket
<1>14. CASE UNCHANGED vars
  BY <1>2, <1>14 DEF vars
<1> QED
  BY <1>3, <1>4, <1>5, <1>6, <1>7, <1>8, <1>9, <1>10, <1>11, <1>12, <1>13, <1>14, <1>15,
     WatchSteps

------------------------------------------------------------------------
(* What the screens owe, one action at a time.                             *)

\* A signal makes the tab ask for both lists: whatever it has heard of now is
\* on the screen or about to be read.
LEMMA RefetchKeepsScreen ==
  ASSUME IInv, IInv', OnlyWatching, NEW t \in Tabs, ScreenInv(t), SocketInv(t), Refetch(t)
  PROVE  ScreenInv(t)'
<1> DEFINE f == fetches[t]
           asked == <<Ask(FirstVault), Ask(Directory)>>
           g == f \o asked
<1>1. /\ UNCHANGED log /\ active[t] = FirstVault /\ frames[t] # <<>>
      /\ page'[t] = page[t] /\ shown'[t] = shown[t] /\ directory'[t] = directory[t]
      /\ ref'[t] = ref[t]
  BY DEF Refetch, Receive, server, OnlyWatching
<1>2. f \in Seq(Fetch) /\ fetches'[t] = g
  BY <1>1, Typed DEF Refetch
<1>3. /\ \A l : Ask(l).list = l /\ Ask(l).stage = "sent" /\ Ask(l).has = {}
      /\ asked \in Seq({Ask(FirstVault), Ask(Directory)})
  BY DEF Ask
<1>4. /\ Len(f) \in Nat /\ DOMAIN f = 1..Len(f)
      /\ DOMAIN g = 1..(Len(f) + 2)
      /\ \A k \in 1..Len(f) : g[k] = f[k]
      /\ g[Len(f) + 1] = Ask(FirstVault) /\ g[Len(f) + 2] = Ask(Directory)
  BY <1>2
<1>5. \A k \in DOMAIN g :
        \/ k \in DOMAIN f /\ g[k] = f[k]
        \/ g[k] = Ask(FirstVault) \/ g[k] = Ask(Directory)
  <2> TAKE k \in DOMAIN g
  <2>1. k \in 1..Len(f) \/ k = Len(f) + 1 \/ k = Len(f) + 2
    BY <1>4
  <2> QED  BY <1>4, <2>1
<1>6. Open(t)
  BY <1>1 DEF SocketInv
<1>7. /\ \A l : View(t, l)' = View(t, l)
      /\ \A l : Stored(l)' = Stored(l)
  BY <1>1, LogUntouched DEF View
<1> HIDE DEF f, g, asked
<1>8. ViewsAreStored(t)'
  <2>1. \A l \in {FirstVault, Directory} : View(t, l) \subseteq Stored(l)
    BY DEF ScreenInv, ViewsAreStored
  <2>2. \A k \in DOMAIN f : f[k].list \in {FirstVault, Directory} /\ f[k].has \subseteq Stored(f[k].list)
    BY DEF ScreenInv, ViewsAreStored, f
  <2>3. \A k \in DOMAIN g : g[k].list \in {FirstVault, Directory} /\ g[k].has \subseteq Stored(g[k].list)
    BY <1>3, <1>5, <2>2
  <2> QED  BY <1>2, <1>7, <2>1, <2>3 DEF ViewsAreStored
<1>9. AnswersAdd(t)'
  <2>1. \A k \in DOMAIN f :
          f[k].stage # "sent" => k = 1 /\ View(t, f[k].list) \subseteq f[k].has
    BY DEF ScreenInv, AnswersAdd, f
  <2>2. \A k \in DOMAIN g :
          g[k].stage # "sent" => k = 1 /\ View(t, g[k].list) \subseteq g[k].has
    BY <1>3, <1>5, <2>1
  <2> QED  BY <1>2, <1>7, <2>2 DEF AnswersAdd
<1>10. PageIsWhole(t)'
  <2>1. ShowsItsVault(t)
    BY <1>6 DEF ScreenInv, PageIsWhole
  <2>2. f # <<>> => g # <<>> /\ g[1] = f[1]
    <3>1. f # <<>> => 1 \in 1..Len(f)
      BY <1>2, <1>4
    <3>2. DOMAIN g # {}
      BY <1>4
    <3> QED  BY <1>4, <3>1, <3>2
  <2>3. ShowsItsVault(t)'
    BY <1>1, <1>2, <2>1, <2>2 DEF ShowsItsVault, f
  <2> QED  BY <1>1, <1>6, <2>3 DEF PageIsWhole, Open
<1>11. HeardIsFetched(t)'
  <2>1. /\ Len(f) + 1 \in DOMAIN g /\ Len(f) + 2 \in DOMAIN g
    BY <1>4
  <2>2. \A i : log[i].list \in {FirstVault, Directory} => Fetching(t, i)'
    <3>1. \A l \in {FirstVault, Directory} :
            \E k \in DOMAIN g : g[k].list = l /\ g[k].stage = "sent"
      BY <1>3, <1>4, <2>1
    <3> QED  BY <1>1, <1>2, <3>1 DEF Fetching
  <2> QED  BY <1>1, <2>2 DEF HeardIsFetched
<1> QED  BY <1>8, <1>9, <1>10, <1>11 DEF ScreenInv

\* A refetch goes on from stage to stage: once its rows are read, they hold
\* everything the list has, and so everything on screen.
LEMMA ReadsKeepScreen ==
  ASSUME IInv, IInv', NEW t \in Tabs, ScreenInv(t), 1 \in DOMAIN fetches[t],
         ReadRows(t, 1) \/ ReadRevision(t, 1) \/ RowsArrive(t, 1)
  PROVE  ScreenInv(t)'
<1> DEFINE f == fetches[t]
           g == fetches'[t]
<1>1. /\ UNCHANGED log /\ page'[t] = page[t] /\ shown'[t] = shown[t]
      /\ directory'[t] = directory[t] /\ last'[t] = last[t]
  BY DEF ReadRows, ReadRevision, RowsArrive, server, screen
<1>2. f \in Seq(Fetch) /\ f[1] \in Fetch /\ fetches \in [Tabs -> Seq(Fetch)]
  BY Typed, Requests
<1>3. /\ DOMAIN g = DOMAIN f /\ \A k \in DOMAIN f : k # 1 => g[k] = f[k]
      /\ g[1].list = f[1].list
      /\ \/ g[1].has = Stored(f[1].list)
         \/ g[1].has = f[1].has /\ f[1].stage # "sent"
  <2>1. CASE ReadRows(t, 1)
    <3>1. g = [f EXCEPT ![1] = [f[1] EXCEPT !.stage = "read", !.has = Stored(f[1].list)]]
      BY <1>2, <2>1 DEF ReadRows
    <3> QED  BY <1>2, <3>1 DEF Fetch
  <2>2. CASE ReadRevision(t, 1)
    <3>1. /\ g = [f EXCEPT ![1] = [f[1] EXCEPT !.stage = "answered", !.revision = Revision]]
          /\ f[1].stage = "read"
      BY <1>2, <2>2 DEF ReadRevision
    <3> QED  BY <1>2, <3>1 DEF Fetch
  <2>3. CASE RowsArrive(t, 1)
    <3>1. /\ g = [f EXCEPT ![1] = [f[1] EXCEPT !.stage = "decrypting"]]
          /\ f[1].stage = "answered"
      BY <1>2, <2>3 DEF RowsArrive
    <3> QED  BY <1>2, <3>1 DEF Fetch
  <2> QED  BY <2>1, <2>2, <2>3
<1>4. /\ \A l : View(t, l)' = View(t, l)
      /\ \A l : Stored(l)' = Stored(l)
  BY <1>1, LogUntouched DEF View
<1>5. /\ \A l \in {FirstVault, Directory} : View(t, l) \subseteq Stored(l)
      /\ \A k \in DOMAIN f : f[k].list \in {FirstVault, Directory} /\ f[k].has \subseteq Stored(f[k].list)
      /\ \A k \in DOMAIN f : f[k].stage # "sent" => k = 1 /\ View(t, f[k].list) \subseteq f[k].has
  BY DEF ScreenInv, ViewsAreStored, AnswersAdd
<1>6. /\ View(t, f[1].list) \subseteq g[1].has /\ g[1].has \subseteq Stored(f[1].list)
      /\ f[1].has \subseteq g[1].has
      /\ f[1].list \in {FirstVault, Directory}
  BY <1>3, <1>5
<1> HIDE DEF f, g
<1>7. ViewsAreStored(t)'
  <2>1. \A k \in DOMAIN g : g[k].list \in {FirstVault, Directory} /\ g[k].has \subseteq Stored(g[k].list)
    BY <1>3, <1>5, <1>6
  <2> QED  BY <1>4, <1>5, <2>1 DEF ViewsAreStored, g
<1>8. AnswersAdd(t)'
  <2>1. \A k \in DOMAIN g : g[k].stage # "sent" => k = 1 /\ View(t, g[k].list) \subseteq g[k].has
    BY <1>3, <1>5, <1>6
  <2> QED  BY <1>4, <2>1 DEF AnswersAdd, g
<1>9. PageIsWhole(t)'
  <2>1. f # <<>> /\ g # <<>>
    BY <1>2, <1>3 DEF f
  <2>2. Open(t) /\ ShowsItsVault(t)
    BY <2>1 DEF ScreenInv, PageIsWhole, f
  <2>3. ShowsItsVault(t)'
    BY <1>1, <1>3, <2>1, <2>2 DEF ShowsItsVault, f, g
  <2> QED  BY <1>1, <2>2, <2>3 DEF PageIsWhole, Open
<1>10. HeardIsFetched(t)'
  <2>1. ASSUME NEW i \in 1..last[t], Fetching(t, i)
        PROVE  Fetching(t, i)'
    <3>1. PICK k \in DOMAIN f : f[k].list = log[i].list /\ (f[k].stage = "sent" \/ i \in f[k].has)
      BY <2>1 DEF Fetching, f
    <3>2. CASE k # 1
      <4>1. k \in DOMAIN g /\ g[k] = f[k]
        BY <1>3, <3>2
      <4> QED  BY <1>1, <3>1, <4>1 DEF Fetching, g
    <3>3. CASE k = 1
      <4>1. i \in Stored(f[1].list)
        <5>1. i \in 1..Revision /\ DOMAIN log = 1..Revision
          BY Typed
        <5> QED  BY <3>1, <3>3, <5>1 DEF Stored
      <4>2. i \in g[1].has
        BY <1>3, <3>1, <3>3, <4>1
      <4>3. 1 \in DOMAIN g /\ g[1].list = log[i].list
        BY <1>3, <3>1, <3>3
      <4> QED  BY <1>1, <4>2, <4>3 DEF Fetching, g
    <3> QED  BY <3>2, <3>3
  <2> QED  BY <1>1, <1>4, <2>1 DEF ScreenInv, HeardIsFetched, Open
<1> QED  BY <1>7, <1>8, <1>9, <1>10 DEF ScreenInv

\* An answer replaces the view of its list by all it had, and more.
LEMMA AnswersKeepScreen ==
  ASSUME Quiet, IInv, IInv', NEW t \in Tabs, ScreenInv(t), 1 \in DOMAIN fetches[t],
         ItemsArrive(t, 1) \/ DirectoryArrives(t, 1)
  PROVE  /\ ScreenInv(t)'
         /\ \A l \in {FirstVault, Directory} : View(t, l) \subseteq View(t, l)'
         /\ Open(t) /\ UNCHANGED <<log, page>>
         /\ \A u \in Tabs \ {t} :
              shown'[u] = shown[u] /\ directory'[u] = directory[u] /\ fetches'[u] = fetches[u]
              /\ ref'[u] = ref[u]
         /\ UNCHANGED <<conn, greeting, frames, last, publishing>>
<1> DEFINE f == fetches[t]
           g == Without(f, 1)
<1>0. PICK list, has : list = f[1].list /\ has = f[1].has
  OBVIOUS
<1>1. ~ switches < MaxSwitches
  BY DEF Quiet, IInv, TypeOK
<1>2. /\ fetches \in [Tabs -> Seq(Fetch)] /\ f \in Seq(Fetch) /\ f[1] \in Fetch
      /\ shown \in [Tabs -> Items] /\ directory \in [Tabs -> SUBSET Changes]
      /\ ref \in [Tabs -> Revisions]
  BY Typed, Requests
<1>3. /\ UNCHANGED <<log, page, conn, greeting, frames, last, publishing>>
      /\ fetches' = [fetches EXCEPT ![t] = g]
      /\ ref' \in {ref, [ref EXCEPT ![t] = f[1].revision]}
      /\ f[1].stage # "sent"
      /\ \/ /\ list # Directory /\ UNCHANGED directory
            /\ shown' = [shown EXCEPT ![t] = [of |-> list, has |-> has]]
         \/ /\ list = Directory /\ UNCHANGED shown
            /\ directory' = [directory EXCEPT ![t] = has]
  BY <1>0, <1>1 DEF ItemsArrive, DirectoryArrives, server, socket
<1>4. /\ \A l \in {FirstVault, Directory} : View(t, l) \subseteq Stored(l)
      /\ \A k \in DOMAIN f : f[k].list \in {FirstVault, Directory} /\ f[k].has \subseteq Stored(f[k].list)
      /\ \A k \in DOMAIN f : f[k].stage # "sent" => k = 1 /\ View(t, f[k].list) \subseteq f[k].has
      /\ Open(t) => ShowsItsVault(t)
      /\ ~ Open(t) => f = <<>>
  BY DEF ScreenInv, ViewsAreStored, AnswersAdd, PageIsWhole
<1>5. /\ \A l \in {FirstVault, Directory} : l # list => View(t, l)' = View(t, l)
      /\ View(t, list)' = has /\ list \in {FirstVault, Directory}
      /\ View(t, list) \subseteq has /\ has \subseteq Stored(list)
  <2>1. /\ list \in {FirstVault, Directory} /\ View(t, list) \subseteq has
        /\ has \subseteq Stored(list)
    BY <1>0, <1>3, <1>4
  <2> QED  BY <1>2, <1>3, <2>1 DEF View
<1>6. Open(t) /\ shown'[t].of = FirstVault
  <2>1. f # <<>>
    BY <1>2
  <2>2. Open(t) /\ ShowsItsVault(t)
    BY <1>4, <2>1
  <2> QED  BY <1>0, <1>2, <1>3, <1>5, <2>2 DEF ShowsItsVault
<1>7. /\ fetches'[t] = g
      /\ \A i \in DOMAIN g : \E j \in DOMAIN f : j # 1 /\ g[i] = f[j]
      /\ \A j \in DOMAIN f : j # 1 => \E i \in DOMAIN g : g[i] = f[j]
  BY <1>2, <1>3, WithoutOne
<1>8. /\ \A l : Stored(l)' = Stored(l)
      /\ \A i \in 1..last[t] : log'[i] = log[i]
  BY <1>3, LogUntouched
<1> HIDE DEF f, g
<1>9. ViewsAreStored(t)'
  <2>1. \A l \in {FirstVault, Directory} : View(t, l)' \subseteq Stored(l)
    BY <1>4, <1>5
  <2>2. \A i \in DOMAIN g : g[i].list \in {FirstVault, Directory} /\ g[i].has \subseteq Stored(g[i].list)
    BY <1>4, <1>7
  <2> QED  BY <1>7, <1>8, <2>1, <2>2 DEF ViewsAreStored
<1>10. AnswersAdd(t)'
  <2>1. \A i \in DOMAIN g : g[i].stage = "sent"
    BY <1>4, <1>7
  <2> QED  BY <1>7, <2>1 DEF AnswersAdd
<1>11. PageIsWhole(t)'
  BY <1>3, <1>6 DEF PageIsWhole, ShowsItsVault, Open
<1>12. HeardIsFetched(t)'
  <2>1. ASSUME NEW i \in 1..last[t], NEW l \in {FirstVault, Directory}, log[i].list = l
        PROVE  i \in View(t, l)' \/ Fetching(t, i)'
    <3>1. CASE i \in View(t, l)
      BY <1>5, <3>1
    <3>2. CASE Fetching(t, i)
      <4>1. PICK k \in DOMAIN f : f[k].list = l /\ (f[k].stage = "sent" \/ i \in f[k].has)
        BY <2>1, <3>2 DEF Fetching, f
      <4>2. CASE k = 1
        <5>1. i \in has /\ list = l
          BY <1>0, <1>3, <4>1, <4>2
        <5> QED  BY <1>5, <5>1
      <4>3. CASE k # 1
        <5>1. PICK j \in DOMAIN g : g[j] = f[k]
          BY <1>7, <4>3
        <5> QED  BY <1>3, <1>7, <2>1, <4>1, <5>1 DEF Fetching
      <4> QED  BY <4>2, <4>3
    <3> QED  BY <1>6, <2>1, <3>1, <3>2 DEF ScreenInv, HeardIsFetched
  <2>2. last'[t] = last[t] /\ log' = log
    BY <1>3
  <2> QED  BY <2>1, <2>2 DEF HeardIsFetched
<1>13. \A l \in {FirstVault, Directory} : View(t, l) \subseteq View(t, l)'
  BY <1>5
<1>14. \A u \in Tabs \ {t} :
         shown'[u] = shown[u] /\ directory'[u] = directory[u] /\ fetches'[u] = fetches[u]
         /\ ref'[u] = ref[u]
  BY <1>2, <1>3
<1>15. ScreenInv(t)'
  BY <1>9, <1>10, <1>11, <1>12 DEF ScreenInv
<1> QED  BY <1>3, <1>6, <1>13, <1>14, <1>15

\* A navigation reads the list of vaults and the revision together, and forgets
\* the rest.
LEMMA NavigationKeepsScreen ==
  ASSUME IInv, IInv', NEW t \in Tabs, Navigate(t)
  PROVE  ScreenInv(t)'
<1>1. /\ UNCHANGED log
      /\ page'[t] = "loading" /\ ref'[t] = Revision /\ directory'[t] = Stored(Directory)
      /\ shown'[t] = Nothing /\ fetches'[t] = <<>>
  BY Typed DEF Navigate
<1>2. /\ \A l : Stored(l)' = Stored(l)
      /\ Revision \in Nat /\ DOMAIN log = 1..Revision
  BY <1>1, LogUntouched, Typed
<1>3. View(t, FirstVault)' = {} /\ View(t, Directory)' = Stored(Directory)
  BY <1>1 DEF View, Nothing
<1>4. ~ Open(t)'
  BY <1>1 DEF Open
<1>5. ViewsAreStored(t)' /\ AnswersAdd(t)'
  <2>1. DOMAIN fetches'[t] = {}
    BY <1>1
  <2> QED  BY <1>2, <1>3, <2>1 DEF ViewsAreStored, AnswersAdd
<1>6. PageIsWhole(t)'
  <2>1. \A i \in 1..Revision : log[i].list = Directory => i \in Stored(Directory)
    BY <1>2 DEF Stored
  <2> QED  BY <1>1, <1>4, <2>1 DEF PageIsWhole, Nothing
<1>7. HeardIsFetched(t)'
  BY <1>4 DEF HeardIsFetched
<1> QED  BY <1>5, <1>6, <1>7 DEF ScreenInv

\* The page that opens has, or decrypts, all its revision counts: it read the
\* items later.
LEMMA PageKeepsScreen ==
  ASSUME IInv, IInv', OnlyWatching, NEW t \in Tabs, ScreenInv(t), ShowPage(t)
  PROVE  /\ ScreenInv(t)'
         /\ UNCHANGED shown /\ \A u \in Tabs \ {t} : fetches'[u] = fetches[u]
<1> DEFINE e == Decrypt(Served)
<1>1. /\ UNCHANGED <<log, directory, ref>> /\ ~ Open(t)
      /\ page'[t] = "open" /\ last'[t] = ref[t]
      /\ ShowVault(t, FirstVault, Served, TRUE)
  BY Typed DEF ShowPage, server, socket, Open, OnlyWatching
<1>2. Served # Nothing
  BY DEF Served, Nothing
<1>3. UNCHANGED shown /\ fetches' = [fetches EXCEPT ![t] = Append(fetches[t], e)]
  BY <1>1, <1>2 DEF ShowVault
<1>4. /\ fetches[t] = <<>> /\ shown[t].has = {}
      /\ \A i \in 1..ref[t] : log[i].list = Directory => i \in directory[t]
      /\ directory[t] \subseteq Stored(Directory)
  BY <1>1 DEF ScreenInv, PageIsWhole, ViewsAreStored, View
<1>5. /\ fetches'[t] = <<e>> /\ \A u \in Tabs \ {t} : fetches'[u] = fetches[u]
      /\ e.list = FirstVault /\ e.has = Stored(FirstVault)
  BY <1>3, <1>4, Typed DEF Decrypt, Served
<1>6. /\ View(t, FirstVault)' = {}
      /\ View(t, Directory)' = directory[t]
      /\ \A l : Stored(l)' = Stored(l)
  BY <1>1, <1>3, <1>4, LogUntouched DEF View
<1> HIDE DEF e
<1>7. \A k \in DOMAIN fetches'[t] : k = 1 /\ fetches'[t][k] = e
  BY <1>5
<1>8. ViewsAreStored(t)' /\ AnswersAdd(t)'
  BY <1>4, <1>5, <1>6, <1>7 DEF ViewsAreStored, AnswersAdd
<1>9. PageIsWhole(t)'
  BY <1>1, <1>3, <1>4, <1>5 DEF PageIsWhole, ShowsItsVault, Open
<1>10. HeardIsFetched(t)'
  <2>1. ASSUME NEW i \in 1..ref[t], NEW l \in {FirstVault, Directory}, log[i].list = l
        PROVE  i \in View(t, l)' \/ Fetching(t, i)'
    <3>1. i \in Stored(l)
      <4>1. i \in 1..Revision /\ DOMAIN log = 1..Revision
        BY Typed
      <4> QED  BY <2>1, <4>1 DEF Stored
    <3>2. CASE l = FirstVault
      <4>1. 1 \in DOMAIN fetches'[t] /\ fetches'[t][1] = e
        BY <1>5
      <4> QED  BY <1>1, <1>5, <2>1, <3>1, <3>2, <4>1 DEF Fetching
    <3>3. CASE l = Directory
      BY <1>4, <1>6, <2>1, <3>3
    <3> QED  BY <3>2, <3>3
  <2> QED  BY <1>1, <2>1 DEF HeardIsFetched
<1> QED  BY <1>3, <1>5, <1>8, <1>9, <1>10 DEF ScreenInv

\* Every step leaves every screen as it should be.
LEMMA NextScreen ==
  ASSUME Quiet, WatchInv, IInv', [Next]_vars, NEW u \in Tabs
  PROVE  ScreenInv(u)'
<1>0. /\ IInv /\ OnlyWatching /\ \A t \in Tabs : ScreenInv(t) /\ SocketInv(t)
  BY DEF WatchInv
<1>1. ASSUME Grows,
             page'[u] = page[u], shown'[u] = shown[u], directory'[u] = directory[u],
             fetches'[u] = fetches[u], ref'[u] = ref[u], last'[u] = last[u]
      PROVE  ScreenInv(u)'
  BY <1>0, <1>1, ScreenKept
<1>2. ASSUME UNCHANGED <<log, page, shown, directory, fetches, ref, last>>
      PROVE  ScreenInv(u)'
  BY <1>0, <1>1, <1>2, LogUntouched
<1>3. CASE \/ \E list \in Lists : Mutate(Elsewhere, list)
           \/ Rollback
           \/ \E signal \in publishing : Publish(signal)
  BY <1>2, <1>3 DEF Mutate, Rollback, Publish, screen
<1>4. CASE Commit
  <2>1. /\ UNCHANGED <<page, shown, directory, fetches, ref, last>>
        /\ log' = Append(log, [by |-> tx.by, list |-> tx.list])
    BY <1>4 DEF Commit, screen
  <2>2. Grows
    BY <1>0, <2>1, Typed DEF Grows, Revision
  <2> QED  BY <1>1, <2>1, <2>2
<1>5. ASSUME NEW t \in Tabs,
             \/ Connect(t) \/ LookUpRevision(t) \/ Greet(t) \/ Drop(t) \/ IgnoreStale(t)
      PROVE  ScreenInv(u)'
  BY <1>2, <1>5
  DEF Connect, LookUpRevision, Greet, Drop, IgnoreStale, Receive, server, screen
<1>6. ASSUME NEW t \in Tabs, Refetch(t)
      PROVE  ScreenInv(u)'
  <2>1. CASE u = t
    BY <1>0, <1>6, <2>1, RefetchKeepsScreen
  <2>2. CASE u # t
    <3>1. /\ UNCHANGED <<log, page, shown, directory, ref>>
          /\ fetches'[u] = fetches[u] /\ last'[u] = last[u]
      BY <1>0, <1>6, <2>2, Typed DEF Refetch, Receive, server
    <3> QED  BY <1>0, <1>1, <3>1, LogUntouched
  <2> QED  BY <2>1, <2>2
<1>7. ASSUME NEW t \in Tabs, 1 \in DOMAIN fetches[t],
             ReadRows(t, 1) \/ ReadRevision(t, 1) \/ RowsArrive(t, 1)
      PROVE  ScreenInv(u)'
  <2>1. CASE u = t
    BY <1>0, <1>7, <2>1, ReadsKeepScreen
  <2>2. CASE u # t
    <3>1. /\ UNCHANGED <<log, page, shown, directory, last>>
          /\ fetches'[u] = fetches[u] /\ ref'[u] = ref[u]
      BY <1>0, <1>7, <2>2, Typed DEF ReadRows, ReadRevision, RowsArrive, server, screen
    <3> QED  BY <1>0, <1>1, <3>1, LogUntouched
  <2> QED  BY <2>1, <2>2
<1>8. ASSUME NEW t \in Tabs, 1 \in DOMAIN fetches[t],
             ItemsArrive(t, 1) \/ DirectoryArrives(t, 1)
      PROVE  ScreenInv(u)'
  <2>1. /\ ScreenInv(t)' /\ UNCHANGED <<log, page, last>>
        /\ \A w \in Tabs \ {t} :
             shown'[w] = shown[w] /\ directory'[w] = directory[w] /\ fetches'[w] = fetches[w]
             /\ ref'[w] = ref[w]
    BY <1>0, <1>8, AnswersKeepScreen
  <2>2. CASE u = t
    BY <2>1, <2>2
  <2>3. CASE u # t
    BY <1>0, <1>1, <2>1, <2>3, LogUntouched
  <2> QED  BY <2>2, <2>3
<1>9. ASSUME NEW t \in Tabs, Navigate(t)
      PROVE  ScreenInv(u)'
  <2>1. CASE u = t
    BY <1>0, <1>9, <2>1, NavigationKeepsScreen
  <2>2. CASE u # t
    <3>1. /\ UNCHANGED <<log, last>>
          /\ page'[u] = page[u] /\ shown'[u] = shown[u] /\ directory'[u] = directory[u]
          /\ ref'[u] = ref[u] /\ fetches'[u] = fetches[u]
      BY <1>0, <1>9, <2>2, Typed DEF Navigate
    <3> QED  BY <1>0, <1>1, <3>1, LogUntouched
  <2> QED  BY <2>1, <2>2
<1>10. ASSUME NEW t \in Tabs, ShowPage(t)
       PROVE  ScreenInv(u)'
  <2>1. /\ ScreenInv(t)'
        /\ UNCHANGED shown /\ \A w \in Tabs \ {t} : fetches'[w] = fetches[w]
    BY <1>0, <1>10, PageKeepsScreen
  <2>2. CASE u = t
    BY <2>1, <2>2
  <2>3. CASE u # t
    <3>1. /\ UNCHANGED <<log, directory, ref>>
          /\ page'[u] = page[u] /\ last'[u] = last[u]
      BY <1>0, <1>10, <2>3, Typed DEF ShowPage, server
    <3> QED  BY <1>0, <1>1, <2>1, <2>3, <3>1, LogUntouched
  <2> QED  BY <2>2, <2>3
<1>11. CASE UNCHANGED vars
  BY <1>2, <1>11 DEF vars
<1> QED
  BY <1>0, <1>3, <1>4, <1>5, <1>6, <1>7, <1>8, <1>9, <1>10, <1>11, WatchSteps

------------------------------------------------------------------------
(* What the sockets owe.                                                   *)

\* A commit is published to whoever is connected, and a socket is greeted.
LEMMA NextSocket ==
  ASSUME Quiet, WatchInv, IInv', [Next]_vars, NEW u \in Tabs
  PROVE  SocketInv(u)'
<1>0. /\ IInv /\ OnlyWatching /\ ScreenInv(u) /\ SocketInv(u)
      /\ frames[u] \in Seq(Signal) /\ last[u] \in Nat /\ Revision \in Nat
      /\ last[u] <= Revision
  BY Typed DEF WatchInv
<1>1. ASSUME Revision' = Revision, publishing \subseteq publishing',
             page'[u] = page[u], conn'[u] = conn[u], frames'[u] = frames[u],
             greeting'[u] = greeting[u], last'[u] = last[u]
      PROVE  SocketInv(u)'
  BY <1>0, <1>1, SocketKept
<1>2. ASSUME UNCHANGED <<log, publishing, page, conn, frames, greeting, last>>
      PROVE  SocketInv(u)'
  BY <1>0, <1>1, <1>2, LogUntouched
<1>3. CASE (\E list \in Lists : Mutate(Elsewhere, list)) \/ Rollback
  BY <1>2, <1>3 DEF Mutate, Rollback, screen, socket
<1>4. CASE Commit
  <2>1. /\ UNCHANGED <<page, conn, frames>> /\ Revision' = Revision + 1
        /\ publishing' = publishing \cup {[revision |-> Revision + 1, origin |-> tx.by]}
    <3>1. log' = Append(log, [by |-> tx.by, list |-> tx.list]) /\ log \in Seq(Change)
      BY <1>0, <1>4 DEF Commit, IInv, TypeOK
    <3>2. Revision' = Revision + 1
      BY <3>1 DEF Revision
    <3> QED  BY <1>4, <3>2 DEF Commit, screen, socket
  <2>2. \E signal \in publishing' : signal.revision = Revision'
    <3> DEFINE news == [revision |-> Revision + 1, origin |-> tx.by]
    <3>1. news \in publishing' /\ news.revision = Revision'
      BY <2>1
    <3> HIDE DEF news
    <3> QED  BY <3>1
  <2> QED  BY <1>0, <2>1, <2>2 DEF SocketInv, NewsIsOnItsWay, Open
<1>5. ASSUME NEW signal \in publishing, Publish(signal)
      PROVE  SocketInv(u)'
  <2>1. /\ UNCHANGED <<log, page, conn, greeting, last>>
        /\ publishing' = publishing \ {signal}
        /\ frames'[u] = IF conn[u] # "down" THEN Append(frames[u], signal) ELSE frames[u]
    BY <1>5 DEF Publish, screen
  <2>2. Revision' = Revision
    BY <1>0, <2>1, LogUntouched
  <2>3. conn[u] = "down" => frames'[u] = <<>>
    BY <1>0, <2>1 DEF SocketInv
  <2>4. ASSUME Open(u), conn[u] # "down", last[u] < Revision
        PROVE  \/ \E s \in publishing' : s.revision = Revision
               \/ \E n \in DOMAIN frames'[u] : frames'[u][n].revision = Revision
               \/ conn[u] = "subscribed"
               \/ conn[u] = "greeting" /\ greeting[u] = Revision
    <3>1. /\ frames'[u] = Append(frames[u], signal)
          /\ Len(frames[u]) \in Nat
          /\ Len(frames[u]) + 1 \in DOMAIN frames'[u]
          /\ frames'[u][Len(frames[u]) + 1] = signal
          /\ \A n \in DOMAIN frames[u] : n \in DOMAIN frames'[u] /\ frames'[u][n] = frames[u][n]
      <4>1. frames'[u] = Append(frames[u], signal)
        BY <2>1, <2>4
      <4> QED  BY <1>0, <4>1, Appended
    <3>2. CASE signal.revision = Revision
      BY <3>1, <3>2
    <3>3. CASE signal.revision # Revision
      BY <1>0, <2>1, <2>4, <3>1, <3>3 DEF SocketInv, NewsIsOnItsWay
    <3> QED  BY <3>2, <3>3
  <2> QED  BY <1>0, <2>1, <2>2, <2>3, <2>4 DEF SocketInv, NewsIsOnItsWay, Open
<1>6. ASSUME NEW t \in Tabs, Connect(t)
      PROVE  SocketInv(u)'
  <2>1. /\ UNCHANGED <<log, publishing, page, frames, greeting, last>>
        /\ Open(t) /\ conn' = [conn EXCEPT ![t] = "subscribed"]
    BY <1>6 DEF Connect, server, screen
  <2>2. CASE u # t
    BY <1>0, <1>1, <2>1, <2>2, LogUntouched, Typed
  <2>3. CASE u = t
    <3>1. conn'[u] = "subscribed" /\ Open(u)'
      BY <1>0, <2>1, <2>3, Typed DEF Open
    <3> QED  BY <3>1 DEF SocketInv, NewsIsOnItsWay
  <2> QED  BY <2>2, <2>3
<1>7. ASSUME NEW t \in Tabs, LookUpRevision(t)
      PROVE  SocketInv(u)'
  <2>1. /\ UNCHANGED <<log, publishing, page, frames, last>> /\ conn[t] = "subscribed"
        /\ conn' = [conn EXCEPT ![t] = "greeting"]
        /\ greeting' = [greeting EXCEPT ![t] = Revision]
    BY <1>7 DEF LookUpRevision, server, screen
  <2>2. CASE u # t
    BY <1>0, <1>1, <2>1, <2>2, LogUntouched, Typed
  <2>3. CASE u = t
    <3>1. conn'[u] = "greeting" /\ greeting'[u] = Revision' /\ (Open(u)' <=> Open(u))
      BY <1>0, <2>1, <2>3, LogUntouched, Typed DEF Open
    <3>2. Open(u)
      BY <1>0, <2>1, <2>3 DEF SocketInv
    <3> QED  BY <3>1, <3>2 DEF SocketInv, NewsIsOnItsWay
  <2> QED  BY <2>2, <2>3
<1>8. ASSUME NEW t \in Tabs, Greet(t)
      PROVE  SocketInv(u)'
  <2> DEFINE greeted == [revision |-> greeting[t], origin |-> Elsewhere]
  <2>1. /\ UNCHANGED <<log, publishing, page, greeting, last>> /\ conn[t] = "greeting"
        /\ conn' = [conn EXCEPT ![t] = "open"]
        /\ frames' = [frames EXCEPT ![t] = Append(frames[t], greeted)]
    BY <1>8 DEF Greet, server, screen
  <2>2. CASE u # t
    BY <1>0, <1>1, <2>1, <2>2, LogUntouched, Typed
  <2>3. CASE u = t
    <3>1. /\ conn'[u] = "open" /\ frames'[u] = Append(frames[u], greeted)
          /\ (Open(u)' <=> Open(u)) /\ Revision' = Revision
      BY <1>0, <2>1, <2>3, LogUntouched, Typed DEF Open
    <3>2. Open(u) /\ conn[u] = "greeting"
      BY <1>0, <2>1, <2>3 DEF SocketInv
    <3>3. /\ \A n \in DOMAIN frames[u] :
               n \in DOMAIN frames'[u] /\ frames'[u][n].revision = frames[u][n].revision
          /\ \E n \in DOMAIN frames'[u] : frames'[u][n].revision = greeting[u]
      <4>1. /\ Len(frames[u]) \in Nat
            /\ Len(frames[u]) + 1 \in DOMAIN frames'[u]
            /\ frames'[u][Len(frames[u]) + 1] = greeted
            /\ \A n \in DOMAIN frames[u] :
                 n \in DOMAIN frames'[u] /\ frames'[u][n] = frames[u][n]
        BY <1>0, <3>1, Appended
      <4> QED  BY <2>3, <4>1
    <3>4. NewsIsOnItsWay(u)'
      BY <1>0, <2>1, <3>1, <3>2, <3>3 DEF SocketInv, NewsIsOnItsWay
    <3> QED  BY <3>1, <3>2, <3>4 DEF SocketInv
  <2> QED  BY <2>2, <2>3
<1>9. ASSUME NEW t \in Tabs, Drop(t) \/ Navigate(t)
      PROVE  SocketInv(u)'
  <2>1. UNCHANGED <<log, publishing, greeting, last>>
    BY <1>9 DEF Drop, Navigate, server, screen
  <2>2. CASE u # t
    <3>1. page'[u] = page[u] /\ conn'[u] = conn[u] /\ frames'[u] = frames[u]
      BY <1>0, <1>9, <2>2, Typed DEF Drop, Navigate, screen
    <3> QED  BY <1>0, <1>1, <2>1, <3>1, LogUntouched
  <2>3. CASE u = t
    <3>1. conn'[u] = "down" /\ frames'[u] = <<>>
      BY <1>0, <1>9, <2>3, Typed DEF Drop, Navigate
    <3> QED  BY <3>1 DEF SocketInv, NewsIsOnItsWay
  <2> QED  BY <2>2, <2>3
<1>10. ASSUME NEW t \in Tabs, IgnoreStale(t) \/ Refetch(t)
       PROVE  SocketInv(u)'
  <2>1. /\ UNCHANGED <<log, publishing, page, conn, greeting>> /\ frames[t] # <<>>
        /\ frames' = [frames EXCEPT ![t] = Tail(frames[t])]
    BY <1>10 DEF IgnoreStale, Refetch, Receive, server
  <2>2. CASE u # t
    <3>1. frames'[u] = frames[u] /\ last'[u] = last[u]
      BY <1>0, <1>10, <2>1, <2>2, Typed DEF IgnoreStale, Refetch
    <3> QED  BY <1>0, <1>1, <2>1, <3>1, LogUntouched
  <2>3. CASE u = t
    <3>1. /\ Revision' = Revision /\ (Open(u)' <=> Open(u)) /\ conn'[u] = conn[u]
          /\ frames[u] # <<>> /\ frames'[u] = Tail(frames[u]) /\ Head(frames[u]) = frames[u][1]
          /\ greeting' = greeting /\ publishing' = publishing
      BY <1>0, <2>1, <2>3, LogUntouched, Typed DEF Open
    <3>2. Open(u) /\ conn[u] # "down"
      BY <1>0, <3>1 DEF SocketInv
    <3>3. last'[u] < Revision => frames[u][1].revision # Revision /\ last[u] < Revision
      <4>1. frames[u][1] \in Signal
        BY <1>0, <3>1
      <4>2. frames[u][1].revision \in Nat /\ frames[u][1].revision <= Revision
        BY <1>0, <3>1, <4>1 DEF Signal, Revisions, IInv, SignalsFollowCommits
      <4>3. CASE IgnoreStale(t)
        <5>1. last'[u] = last[u] /\ frames[u][1].revision <= last[u]
          BY <2>3, <3>1, <4>3 DEF IgnoreStale
        <5> QED  BY <1>0, <4>2, <5>1
      <4>4. CASE Refetch(t)
        <5>1. last'[u] = frames[u][1].revision /\ frames[u][1].revision > last[u]
          BY <1>0, <2>3, <3>1, <4>4, Typed DEF Refetch
        <5> QED  BY <1>0, <4>2, <5>1
      <4> QED  BY <1>10, <4>3, <4>4
    <3>4. \A n \in DOMAIN frames[u] :
            n # 1 => n - 1 \in DOMAIN frames'[u] /\ frames'[u][n - 1] = frames[u][n]
      BY <1>0, <3>1
    <3>5. NewsIsOnItsWay(u)'
      <4>1. SUFFICES ASSUME last'[u] < Revision
                     PROVE  \/ \E signal \in publishing : signal.revision = Revision
                            \/ \E n \in DOMAIN frames'[u] : frames'[u][n].revision = Revision
                            \/ conn[u] = "subscribed"
                            \/ conn[u] = "greeting" /\ greeting[u] = Revision
        BY <3>1 DEF NewsIsOnItsWay
      <4>2. CASE \E n \in DOMAIN frames[u] : frames[u][n].revision = Revision
        BY <3>3, <3>4, <4>1, <4>2
      <4>3. CASE ~ \E n \in DOMAIN frames[u] : frames[u][n].revision = Revision
        BY <1>0, <3>2, <3>3, <4>1, <4>3 DEF SocketInv, NewsIsOnItsWay
      <4> QED  BY <4>2, <4>3
    <3> QED  BY <3>1, <3>2, <3>5 DEF SocketInv
  <2> QED  BY <2>2, <2>3
<1>11. ASSUME NEW t \in Tabs, 1 \in DOMAIN fetches[t],
              ReadRows(t, 1) \/ ReadRevision(t, 1) \/ RowsArrive(t, 1)
       PROVE  SocketInv(u)'
  BY <1>2, <1>11 DEF ReadRows, ReadRevision, RowsArrive, server, socket, screen
<1>12. ASSUME NEW t \in Tabs, 1 \in DOMAIN fetches[t],
              ItemsArrive(t, 1) \/ DirectoryArrives(t, 1)
       PROVE  SocketInv(u)'
  <2>1. ScreenInv(t)
    BY DEF WatchInv
  <2>2. UNCHANGED <<log, page, conn, greeting, frames, last, publishing>>
    BY <1>0, <1>12, <2>1, AnswersKeepScreen
  <2> QED  BY <1>2, <2>2
<1>13. ASSUME NEW t \in Tabs, ShowPage(t)
       PROVE  SocketInv(u)'
  <2>1. UNCHANGED <<log, publishing, conn, greeting, frames>>
    BY <1>13 DEF ShowPage, server, socket
  <2>2. CASE u # t
    <3>1. page'[u] = page[u] /\ last'[u] = last[u]
      BY <1>0, <1>13, <2>2, Typed DEF ShowPage
    <3> QED  BY <1>0, <1>1, <2>1, <3>1, LogUntouched
  <2>3. CASE u = t
    <3>1. conn[u] = "down"
      BY <1>0, <1>13, <2>3 DEF ShowPage, SocketInv, Open
    <3> QED  BY <1>0, <2>1, <3>1 DEF SocketInv, NewsIsOnItsWay
  <2> QED  BY <2>2, <2>3
<1>14. CASE UNCHANGED vars
  BY <1>2, <1>14 DEF vars
<1> QED
  BY <1>0, <1>3, <1>4, <1>5, <1>6, <1>7, <1>8, <1>9, <1>10, <1>11, <1>12, <1>13, <1>14,
     WatchSteps

------------------------------------------------------------------------
(* What a quiet account's tabs are promised.                               *)

\* The watched steps keep the invariant.
LEMMA WatchInvariant ==
  ASSUME Quiet
  PROVE  Spec => []WatchInv
<1>1. Init /\ IInv => WatchInv
  <2> SUFFICES ASSUME Init, IInv
               PROVE  WatchInv
    OBVIOUS
  <2>1. OnlyWatching
    BY DEF Init, OnlyWatching
  <2>2. ASSUME NEW t \in Tabs
        PROVE  ScreenInv(t) /\ SocketInv(t)
    <3>1. /\ page[t] = "open" /\ conn[t] = "down" /\ frames[t] = <<>> /\ fetches[t] = <<>>
          /\ last[t] = 0 /\ ref[t] = 0 /\ directory[t] = {}
          /\ shown[t] = [of |-> FirstVault, has |-> {}]
      BY DEF Init
    <3>2. DOMAIN fetches[t] = {} /\ 1..last[t] = {}
      BY <3>1
    <3>3. \A l : View(t, l) = {}
      BY <3>1 DEF View
    <3>4. ScreenInv(t)
      BY <3>1, <3>2, <3>3
      DEF ScreenInv, ViewsAreStored, AnswersAdd, PageIsWhole, ShowsItsVault, HeardIsFetched, Open
    <3>5. SocketInv(t)
      BY <3>1 DEF SocketInv, NewsIsOnItsWay, Open
    <3> QED  BY <3>4, <3>5
  <2> QED  BY <2>1, <2>2 DEF WatchInv
<1>2. WatchInv /\ IInv' /\ [Next]_vars => WatchInv'
  <2> SUFFICES ASSUME WatchInv, IInv', [Next]_vars
               PROVE  WatchInv'
    OBVIOUS
  <2>1. OnlyWatching'
    BY NextOnlyWatching DEF WatchInv
  <2>2. \A t \in Tabs : ScreenInv(t)' /\ SocketInv(t)'
    BY NextScreen, NextSocket
  <2> QED  BY <2>1, <2>2 DEF WatchInv
<1> QED  BY <1>1, <1>2, Invariant, PTL DEF Spec

\* The order of publication, dropped sockets and navigations never make a tab
\* skip a change: what it takes as applied is on its screen or being fetched,
\* for any number of tabs, changes and refetches.
THEOREM WatchersFetchEverySignal ==
  ASSUME Quiet
  PROVE  Spec => []EverySignalIsFetched
<1>1. WatchInv => EverySignalIsFetched
  <2> SUFFICES ASSUME WatchInv, NEW t \in Tabs, Open(t), NEW i \in 1..last[t],
                      log[i].list \in {active[t], Directory}
               PROVE  Shows(t, i) \/ Fetching(t, i)
    BY DEF EverySignalIsFetched
  <2>1. active[t] = FirstVault /\ (shown[t].has # {} => shown[t].of = FirstVault)
    BY DEF WatchInv, OnlyWatching, ScreenInv, PageIsWhole, ShowsItsVault
  <2>2. i \in View(t, log[i].list) \/ Fetching(t, i)
    BY <2>1 DEF WatchInv, ScreenInv, HeardIsFetched
  <2> QED  BY <2>1, <2>2 DEF View, Shows
<1> QED  BY <1>1, WatchInvariant, PTL

\* Once everything has arrived, nothing is missing from the screen, and nothing
\* on it was not stored.
LEMMA SettledIsFresh ==
  ASSUME WatchInv, NEW t \in Tabs, Settled(t)
  PROVE  /\ \A l \in {FirstVault, Directory} : View(t, l) = Stored(l)
         /\ shown[t].of = FirstVault /\ active[t] = FirstVault
<1>0. IInv /\ OnlyWatching /\ ScreenInv(t) /\ SocketInv(t)
  BY DEF WatchInv
<1>1. /\ Open(t) /\ conn[t] = "open" /\ frames[t] = <<>> /\ fetches[t] = <<>>
      /\ publishing = {}
  BY DEF Settled
<1>2. DOMAIN frames[t] = {} /\ DOMAIN fetches[t] = {}
  BY <1>1
<1>3. ~ last[t] < Revision
  BY <1>0, <1>1, <1>2 DEF SocketInv, NewsIsOnItsWay
<1>4. last[t] = Revision /\ DOMAIN log = 1..Revision
  BY <1>0, <1>3, Typed
<1>5. ASSUME NEW l \in {FirstVault, Directory}
      PROVE  View(t, l) = Stored(l)
  <2>1. View(t, l) \subseteq Stored(l)
    BY <1>0 DEF ScreenInv, ViewsAreStored
  <2>2. ASSUME NEW i \in Stored(l)
        PROVE  i \in View(t, l)
    <3>1. i \in 1..last[t] /\ log[i].list = l
      BY <1>4 DEF Stored
    <3>2. ~ Fetching(t, i)
      BY <1>2 DEF Fetching
    <3> QED  BY <1>0, <1>1, <3>1, <3>2 DEF ScreenInv, HeardIsFetched
  <2> QED  BY <2>1, <2>2
<1>6. shown[t].of = FirstVault /\ active[t] = FirstVault
  BY <1>0, <1>1 DEF ScreenInv, PageIsWhole, ShowsItsVault, OnlyWatching
<1> QED  BY <1>5, <1>6

\* Once everything has arrived, a connected tab shows the stored items of its
\* vault, for any number of tabs, changes and dropped sockets ...
THEOREM WatchersItemsAreFresh ==
  ASSUME Quiet
  PROVE  Spec => []SettledItemsAreFresh
<1>1. WatchInv => SettledItemsAreFresh
  <2> SUFFICES ASSUME WatchInv, NEW t \in Tabs, Settled(t)
               PROVE  shown[t] = [of |-> active[t], has |-> Stored(active[t])]
    BY DEF SettledItemsAreFresh
  <2>1. /\ View(t, FirstVault) = Stored(FirstVault)
        /\ shown[t].of = FirstVault /\ active[t] = FirstVault
    BY SettledIsFresh
  <2>2. shown[t] \in Items
    BY DEF WatchInv, IInv, TypeOK
  <2> QED  BY <2>1, <2>2 DEF View, Items
<1> QED  BY <1>1, WatchInvariant, PTL

\* ... and the stored list of vaults.
THEOREM WatchersDirectoryIsFresh ==
  ASSUME Quiet
  PROVE  Spec => []SettledDirectoryIsFresh
<1>1. WatchInv => SettledDirectoryIsFresh
  BY SettledIsFresh DEF SettledDirectoryIsFresh, View
<1> QED  BY <1>1, WatchInvariant, PTL

------------------------------------------------------------------------
(* The safety of the promise: every step of live sync is a step of what it *)
(* promises, or one nobody sees.                                           *)

\* What the promise sees of a tab.
Seen(t) == IF Open(t) THEN shown[t].has \cup directory[t] ELSE {}

\* In a step in which nothing is committed and one tab's view only grows, it
\* gains what was written.
LEMMA ViewGains ==
  ASSUME IInv, WatchInv', Revision' = Revision, NEW t \in Tabs,
         Seen(t) \subseteq Seen(t)', \A u \in Tabs \ {t} : Seen(u)' = Seen(u)
  PROVE  Promise!Gain(t)
<1> DEFINE seen == [u \in Tabs |-> Seen(u)]
<1>1. Seen(t)' \subseteq 1..Revision
  <2>1. DOMAIN log' = 1..Revision'
    BY DEF WatchInv, IInv, TypeOK, Revision
  <2>2. View(t, FirstVault)' \subseteq 1..Revision /\ View(t, Directory)' \subseteq 1..Revision
    BY <2>1 DEF WatchInv, ScreenInv, ViewsAreStored, Stored
  <2>3. FirstVault # Directory
    OBVIOUS
  <2> QED  BY <2>2, <2>3 DEF Seen, View
<1>2. seen' = [seen EXCEPT ![t] = @ \cup Seen(t)']
  <2>1. seen' = [u \in Tabs |-> Seen(u)']
    OBVIOUS
  <2>2. \A u \in Tabs : Seen(u)' = IF u = t THEN Seen(t) \cup Seen(t)' ELSE Seen(u)
    OBVIOUS
  <2> QED  BY <2>1, <2>2
<1> QED  BY <1>1, <1>2 DEF Promise!Gain, Seen

\* Every step is one of the promise's.
LEMMA StepsArePromised ==
  ASSUME Quiet, WatchInv, WatchInv', [Next]_vars
  PROVE  [Promise!Next]_(Promise!vars)
<1> DEFINE seen == [u \in Tabs |-> Seen(u)]
<1>0. IInv /\ IInv' /\ OnlyWatching /\ \A t \in Tabs : ScreenInv(t)
  BY DEF WatchInv
<1>1. ASSUME UNCHANGED <<log, page, shown, directory>>
      PROVE  UNCHANGED Promise!vars
  BY <1>1 DEF Promise!vars, Revision, Open
<1>2. CASE Commit
  <2>1. UNCHANGED <<page, shown, directory>>
    BY <1>2 DEF Commit, screen
  <2>2. Revision < MaxRevision /\ Revision' = Revision + 1
    <3>1. log' = Append(log, [by |-> tx.by, list |-> tx.list]) /\ log \in Seq(Change)
      BY <1>0, <1>2 DEF Commit, IInv, TypeOK
    <3>2. Revision < MaxRevision
      BY <1>0, <1>2 DEF Commit, IInv, Committed
    <3>3. Revision' = Revision + 1
      BY <3>1 DEF Revision
    <3> QED  BY <3>2, <3>3
  <2>3. Promise!Write
    BY <2>1, <2>2 DEF Promise!Write, Open
  <2> QED  BY <2>3 DEF Promise!Next
<1>3. CASE \/ \E list \in Lists : Mutate(Elsewhere, list)
           \/ Rollback
           \/ \E signal \in publishing : Publish(signal)
           \/ \E t \in Tabs :
                \/ Connect(t) \/ LookUpRevision(t) \/ Greet(t) \/ Drop(t)
                \/ IgnoreStale(t) \/ Refetch(t)
                \/ ReadRows(t, 1) \/ ReadRevision(t, 1) \/ RowsArrive(t, 1)
           \/ UNCHANGED vars
  BY <1>1, <1>3
  DEF Mutate, Rollback, Publish, Connect, LookUpRevision, Greet, Drop, IgnoreStale, Refetch,
      Receive, ReadRows, ReadRevision, RowsArrive, server, screen, vars
<1>4. ASSUME NEW t \in Tabs, 1 \in DOMAIN fetches[t],
             ItemsArrive(t, 1) \/ DirectoryArrives(t, 1)
      PROVE  Promise!Next
  <2>1. /\ \A l \in {FirstVault, Directory} : View(t, l) \subseteq View(t, l)'
        /\ Open(t) /\ UNCHANGED <<log, page>>
        /\ \A u \in Tabs \ {t} : shown'[u] = shown[u] /\ directory'[u] = directory[u]
    BY <1>0, <1>4, AnswersKeepScreen
  <2>2. FirstVault # Directory
    OBVIOUS
  <2>3. Seen(t) \subseteq Seen(t)' /\ \A u \in Tabs \ {t} : Seen(u)' = Seen(u)
    BY <2>1, <2>2 DEF Seen, View, Open
  <2>4. Promise!Gain(t)
    BY <1>0, <2>1, <2>3, ViewGains, LogUntouched
  <2>5. Promise!Refresh(t)
    BY <2>1, <2>4 DEF Promise!Refresh, Open, Revision
  <2> QED  BY <2>5 DEF Promise!Next
<1>5. ASSUME NEW t \in Tabs, Navigate(t)
      PROVE  Promise!Next
  <2>1. /\ UNCHANGED log /\ page'[t] = "loading" /\ page' = [page EXCEPT ![t] = "loading"]
        /\ \A u \in Tabs \ {t} :
             page'[u] = page[u] /\ shown'[u] = shown[u] /\ directory'[u] = directory[u]
    BY <1>0, <1>5, Typed DEF Navigate
  <2>2. \A u \in Tabs : Seen(u)' = IF u = t THEN {} ELSE Seen(u)
    BY <2>1 DEF Seen, Open
  <2>3. seen' = [seen EXCEPT ![t] = {}]
    BY <2>2
  <2>5. [u \in Tabs |-> Open(u)]' = [[u \in Tabs |-> Open(u)] EXCEPT ![t] = FALSE]
    BY <2>1 DEF Open
  <2>4. Promise!Reopen(t)
    BY <2>1, <2>3, <2>5 DEF Promise!Reopen, Seen, Revision
  <2> QED  BY <2>4 DEF Promise!Next
<1>6. ASSUME NEW t \in Tabs, ShowPage(t)
      PROVE  Promise!Next
  <2>1. /\ UNCHANGED <<log, directory>> /\ ~ Open(t) /\ page'[t] = "open"
        /\ \A u \in Tabs \ {t} : page'[u] = page[u] /\ shown'[u] = shown[u]
    BY <1>0, <1>6, PageKeepsScreen, Typed DEF ShowPage, server, Open
  <2>2. Seen(t) = {} /\ \A u \in Tabs \ {t} : Seen(u)' = Seen(u)
    BY <2>1 DEF Seen, Open
  <2>3. Promise!Gain(t)
    BY <1>0, <2>1, <2>2, ViewGains, LogUntouched
  <2>4. [u \in Tabs |-> Open(u)]' = [[u \in Tabs |-> Open(u)] EXCEPT ![t] = TRUE]
    BY <2>1 DEF Open
  <2>5. Promise!Show(t)
    BY <2>1, <2>3, <2>4 DEF Promise!Show, Revision
  <2> QED  BY <2>5 DEF Promise!Next
<1> QED  BY <1>0, <1>2, <1>3, <1>4, <1>5, <1>6, WatchSteps

\* Live sync implements the safety of its promise: an open tab shows what was
\* written, never less than before unless its page is opened again, whatever
\* the order signals and answers arrive in.
THEOREM WatchersImplementLiveView ==
  ASSUME Quiet
  PROVE  Spec => Promise!Init /\ [][Promise!Next]_(Promise!vars)
<1>1. Init => Promise!Init
  <2> SUFFICES ASSUME Init
               PROVE  Promise!Init
    OBVIOUS
  <2>1. Revision = 0 /\ \A t \in Tabs : Open(t) /\ shown[t].has \cup directory[t] = {}
    BY DEF Init, Revision, Open
  <2>2. /\ [t \in Tabs |-> Open(t)] = [t \in Tabs |-> TRUE]
        /\ [t \in Tabs |-> IF Open(t) THEN shown[t].has \cup directory[t] ELSE {}]
             = [t \in Tabs |-> {}]
    BY <2>1
  <2> QED  BY <2>1, <2>2 DEF Promise!Init
<1>2. WatchInv /\ WatchInv' /\ [Next]_vars => [Promise!Next]_(Promise!vars)
  BY StepsArePromised
<1> QED  BY <1>1, <1>2, WatchInvariant, PTL DEF Spec
============================================================================
