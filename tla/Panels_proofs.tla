---------------------------- MODULE Panels_proofs ----------------------------
(***************************************************************************)
(* Proofs about the panels of the vault page, for every number of items,   *)
(* vaults, links and requests.                                             *)
(*                                                                         *)
(* LinkDialogs: a dialog with nothing under way shows the links there are, *)
(* if the user waits for what they asked for and answers come in order.    *)
(* ItemForm: the page shows items of one vault only, if the user lets a    *)
(* write finish before choosing another; without any of these hypotheses   *)
(* TLC finds a counterexample.  And a save stores what was on screen with  *)
(* what was typed, whatever else happens.                                  *)
(***************************************************************************)
EXTENDS LinkDialogs, ItemForm, TLAPS

------------------------------------------------------------------------
(* The dialogs that hand out links.                                        *)

Once == {"create", "rename", "drop"}

\* A creation that the server served and the dialog has not heard of.
Minted(l) ==
  \E i \in DOMAIN calls :
    calls[i].what = "create" /\ calls[i].at = "served" /\ calls[i].link = l

\* S, and what the creations under way will add, are the links to s.
Covers(S, s) ==
  /\ \A l \in S : madeFor[l] = s
  /\ \A l \in LinksOf(s) : l \in S \/ Minted(l)

\* The i-th request will fill in the list of dialog d.
Coming(d, i) == calls[i].what = "list" /\ calls[i].from = d /\ calls[i].mounted

Modal ==
  /\ \A d, e \in Kinds : dialogs[d].open /\ dialogs[e].open => d = e
  /\ dialogs["share"].open => selected # NoItem

\* No link is named before it was created, nor opens what a request says it does not.
CallKnown(c) ==
  /\ c.shows \subseteq DOMAIN madeFor
  /\ c.what = "create" /\ c.at = "served" =>
       c.link \in DOMAIN madeFor /\ madeFor[c.link] = c.on
  /\ c.what = "revoke" =>
       c.link \in DOMAIN madeFor /\ (c.at = "served" => c.link \notin liveLinks)

Known ==
  /\ \A d \in Kinds :
       /\ dialogs[d].list # Unknown => dialogs[d].list \subseteq DOMAIN madeFor
       /\ dialogs[d].fresh # NoLink => dialogs[d].fresh \in DOMAIN madeFor
  /\ \A i \in DOMAIN calls : CallKnown(calls[i])

\* The dialog that asked is as it was, but for lists: there is one request at a
\* time, but for lists and revocations, and no list is asked for after a creation.
Asker(c) ==
  /\ c.what # "list" => c.mounted
  /\ c.what \in Once => dialogs[c.from].open /\ c.on = Subject(c.from)
  /\ c.what \in {"rename", "drop"} => c.from = "manage"

Asking ==
  /\ \A i \in DOMAIN calls : Asker(calls[i])
  /\ \A i, j \in DOMAIN calls :
       /\ calls[i].what \in Once /\ calls[j].what \in Once => i = j
       /\ calls[i].what = "create" /\ calls[j].what = "list" => j < i

\* What an open dialog shows, and what will be shown in it last, is right.
FreshInv(d) == dialogs[d].fresh # NoLink => madeFor[dialogs[d].fresh] = Subject(d)

ListedInv(d) ==
  (\A i \in DOMAIN calls : ~Coming(d, i)) =>
    /\ dialogs[d].list # Unknown
    /\ ~dialogs[d].failed /\ ~dialogs[d].doubt => Covers(dialogs[d].list, Subject(d))

ComingInv(d, i) ==
  \/ \E j \in DOMAIN calls : i < j /\ Coming(d, j)
  \/ /\ calls[i].on = Subject(d)
     /\ calls[i].at = "served" => Covers(calls[i].shows, Subject(d))

DialogInv(d) ==
  /\ FreshInv(d) /\ ListedInv(d)
  /\ \A i \in DOMAIN calls : Coming(d, i) => ComingInv(d, i)

LinksInvariant ==
  /\ LinkTypes /\ Modal /\ Known /\ Asking
  /\ \A d \in Kinds : dialogs[d].open => DialogInv(d)

\* Taking a request off the wire moves up those behind it.
LEMMA Removed ==
  ASSUME NEW S, NEW s \in Seq(S), NEW i \in DOMAIN s
  PROVE  /\ RemoveAt(s, i) \in Seq(S)
         /\ Len(RemoveAt(s, i)) = Len(s) - 1
         /\ \A j \in 1..Len(s) - 1 :
              RemoveAt(s, i)[j] = IF j < i THEN s[j] ELSE s[j + 1]
  <1> DEFINE a == SubSeq(s, 1, i - 1)
             b == SubSeq(s, i + 1, Len(s))
  <1>0. i \in 1..Len(s) /\ Len(s) \in Nat
    OBVIOUS
  <1>1. a \in Seq(S) /\ Len(a) = i - 1 /\ \A j \in 1..i - 1 : a[j] = s[j]
    BY <1>0
  <1>2. b \in Seq(S) /\ Len(b) = Len(s) - i /\ \A j \in 1..Len(s) - i : b[j] = s[j + i]
    BY <1>0
  <1>3. RemoveAt(s, i) = a \o b
    BY DEF RemoveAt
  <1> HIDE DEF a, b
  <1>4. a \o b \in Seq(S) /\ Len(a \o b) = Len(s) - 1
    BY <1>0, <1>1, <1>2
  <1>5. ASSUME NEW j \in 1..Len(s) - 1
        PROVE  (a \o b)[j] = IF j < i THEN s[j] ELSE s[j + 1]
    <2>1. CASE j < i
      <3>1. j \in 1..i - 1
        BY <1>0, <2>1
      <3>2. (a \o b)[j] = a[j]
        BY <1>0, <1>1, <1>2, <3>1
      <3> QED BY <1>1, <2>1, <3>1, <3>2
    <2>2. CASE j >= i
      <3>1. (a \o b)[j] = b[j - (i - 1)]
        BY <1>0, <1>1, <1>2, <2>2
      <3>2. j - (i - 1) \in 1..Len(s) - i
        BY <1>0, <2>2
      <3>3. b[j - (i - 1)] = s[j - (i - 1) + i]
        BY <1>2, <3>2
      <3>4. j - (i - 1) + i = j + 1
        BY <1>0
      <3> QED BY <1>0, <2>2, <3>1, <3>3, <3>4
    <2>3. j \in Int /\ i \in Int
      BY <1>0
    <2>4. j < i \/ j >= i
      BY <2>3
    <2> QED BY <2>1, <2>2, <2>4
  <1> QED BY <1>3, <1>4, <1>5

LEMMA CoversKept ==
  ASSUME LinkTypes, NEW S, NEW s, S \subseteq DOMAIN madeFor, Covers(S, s),
         \A l \in DOMAIN madeFor : madeFor'[l] = madeFor[l],
         \A l \in Links : l \in liveLinks' \ liveLinks \/ Minted(l) => Minted(l)',
         liveLinks' \subseteq Links
  PROVE  Covers(S, s)'
BY DEF Covers, LinksOf, LinkTypes

\* The server serves the i-th request: what it answers is in the request, a new
\* link is in the answer to a creation, a list shows the links there are.
Serving(i, c) ==
  /\ i \in DOMAIN calls /\ calls' = [calls EXCEPT ![i] = c]
  /\ c \in LinkCall /\ calls[i].at = "sent" /\ c.at = "served"
  /\ c.what = calls[i].what /\ c.from = calls[i].from /\ c.on = calls[i].on
  /\ c.mounted = calls[i].mounted
  /\ UNCHANGED <<vaults, selected, active, dialogs>>
  /\ DOMAIN madeFor \subseteq DOMAIN madeFor'
  /\ \A l \in DOMAIN madeFor : madeFor'[l] = madeFor[l]
  /\ \A l \in liveLinks' \ liveLinks :
       c.what = "create" /\ c.link = l /\ l \notin DOMAIN madeFor
  /\ DOMAIN madeFor' \subseteq Links /\ liveLinks' \subseteq DOMAIN madeFor'
  /\ \A l \in DOMAIN madeFor' : madeFor'[l] \in Subjects
  /\ CallKnown(c)'
  /\ c.what = "list" => c.shows = LinksOf(c.on)'

LEMMA ServingKeeps ==
  ASSUME LinksInvariant, NEW i, NEW c, Serving(i, c)
  PROVE  LinksInvariant'
<1> USE DEF LinksInvariant
<1>0. calls \in Seq(LinkCall) /\ calls' \in Seq(LinkCall) /\ DOMAIN calls' = DOMAIN calls
      /\ calls'[i] = c /\ i \in DOMAIN calls
      /\ \A j \in DOMAIN calls \ {i} : calls'[j] = calls[j]
  BY DEF Serving, LinkTypes
<1>1. LinkTypes'
  BY <1>0 DEF Serving, LinkTypes
<1>2. Modal'
  BY DEF Serving, Modal
<1>3. Known'
  <2>1. ASSUME NEW d \in Kinds
        PROVE  /\ dialogs'[d].list # Unknown => dialogs'[d].list \subseteq DOMAIN madeFor'
               /\ dialogs'[d].fresh # NoLink => dialogs'[d].fresh \in DOMAIN madeFor'
    BY DEF Serving, Known
  <2>2. ASSUME NEW j \in DOMAIN calls, j # i PROVE CallKnown(calls[j])'
    <3>1. CallKnown(calls[j]) /\ calls'[j] = calls[j]
      BY <1>0, <2>2 DEF Known
    <3>2. /\ DOMAIN madeFor \subseteq DOMAIN madeFor'
          /\ \A l \in DOMAIN madeFor : madeFor'[l] = madeFor[l]
          /\ \A l \in liveLinks' \ liveLinks : l \notin DOMAIN madeFor
      BY DEF Serving
    <3> QED
      BY <3>1, <3>2 DEF CallKnown
  <2>3. CallKnown(calls[i])'
    BY <1>0 DEF Serving
  <2> QED
    BY <1>0, <2>1, <2>2, <2>3 DEF Known
<1>4. \A j \in DOMAIN calls :
        /\ calls'[j].what = calls[j].what /\ calls'[j].from = calls[j].from
        /\ calls'[j].on = calls[j].on /\ calls'[j].mounted = calls[j].mounted
        /\ calls[j].at = "served" => calls'[j] = calls[j]
        /\ j # i => calls'[j] = calls[j]
  BY <1>0 DEF Serving
<1>5. dialogs' = dialogs /\ \A d \in Kinds : Subject(d)' = Subject(d)
  BY DEF Serving, Subject
<1>6. Asking'
  <2>1. ASSUME NEW j \in DOMAIN calls PROVE Asker(calls[j])'
    <3>1. Asker(calls[j]) /\ calls[j].from \in Kinds
      <4>1. calls[j] \in LinkCall
        BY <1>0
      <4> QED
        BY <4>1 DEF Asking, LinkCall
    <3> QED
      BY <1>4, <1>5, <3>1 DEF Asker
  <2> QED
    BY <1>0, <1>4, <2>1 DEF Asking
<1>7. \A d \in Kinds, j \in DOMAIN calls : Coming(d, j)' <=> Coming(d, j)
  BY <1>4 DEF Coming
<1>8. \A l \in Links : l \in liveLinks' \ liveLinks \/ Minted(l) => Minted(l)'
  <2>1. ASSUME NEW l \in liveLinks' \ liveLinks PROVE Minted(l)'
    BY <1>0 DEF Serving, Minted
  <2>2. ASSUME NEW l \in Links, Minted(l) PROVE Minted(l)'
    BY <1>0, <1>4, <2>2 DEF Minted
  <2> QED
    BY <2>1, <2>2
<1>9. \A S, s : S \subseteq DOMAIN madeFor /\ Covers(S, s) => Covers(S, s)'
  <2>1. liveLinks' \subseteq Links /\ \A l \in DOMAIN madeFor : madeFor'[l] = madeFor[l]
    BY DEF Serving
  <2> QED
    BY <1>8, <2>1, CoversKept
<1>10. ASSUME NEW d \in Kinds, dialogs[d].open PROVE DialogInv(d)'
  <2>1. DialogInv(d)
    BY <1>10
  <2>2. FreshInv(d)'
    BY <1>5, <2>1 DEF DialogInv, FreshInv, Known, Serving
  <2>3. ListedInv(d)'
    <3>1. PICK S : S = dialogs[d].list OBVIOUS
    <3>2. PICK s : s = Subject(d) OBVIOUS
    <3>3. Covers(S, s) /\ S # Unknown => Covers(S, s)'
      BY <1>9, <3>1 DEF Known
    <3>4. dialogs'[d].list = S /\ Subject(d)' = s
      BY <1>5, <3>1, <3>2
    <3>5. Covers(S, s)' => Covers(dialogs[d].list, Subject(d))'
      BY <3>4 DEF Covers
    <3> QED
      BY <1>0, <1>5, <1>7, <2>1, <3>1, <3>2, <3>3, <3>5 DEF DialogInv, ListedInv
  <2>4. ASSUME NEW j \in DOMAIN calls, Coming(d, j) PROVE ComingInv(d, j)'
    <3>1. ComingInv(d, j)
      BY <2>1, <2>4 DEF DialogInv
    <3>2. CASE \E k \in DOMAIN calls : j < k /\ Coming(d, k)
      BY <1>0, <1>7, <3>2 DEF ComingInv
    <3>3. CASE /\ calls[j].on = Subject(d)
               /\ calls[j].at = "served" => Covers(calls[j].shows, Subject(d))
      <4>1. PICK S : S = calls'[j].shows OBVIOUS
      <4>2. PICK s : s = Subject(d) OBVIOUS
      <4>3. calls'[j].on = s /\ Subject(d)' = s
        BY <1>4, <1>5, <3>3, <4>2
      <4>4. calls'[j].at = "served" => Covers(S, s)'
        <5>1. CASE j = i
          <6>1. S = LinksOf(s)'
            BY <1>0, <2>4, <4>1, <4>3, <5>1 DEF Serving, Coming, LinksOf
          <6> QED
            BY <6>1 DEF Covers, LinksOf
        <5>2. CASE j # i
          <6>1. S \subseteq DOMAIN madeFor /\ S = calls[j].shows
            BY <1>0, <1>4, <4>1, <5>2 DEF Known, CallKnown
          <6> QED
            BY <1>4, <1>9, <3>3, <4>2, <5>2, <6>1
        <5> QED
          BY <5>1, <5>2
      <4>5. Covers(S, s)' => Covers(calls[j].shows, Subject(d))'
        BY <4>1, <4>3 DEF Covers
      <4> QED
        BY <4>3, <4>4, <4>5 DEF ComingInv
    <3> QED
      BY <3>1, <3>2, <3>3 DEF ComingInv
  <2> QED
    BY <1>0, <1>7, <2>2, <2>3, <2>4 DEF DialogInv
<1> QED
  BY <1>1, <1>2, <1>3, <1>5, <1>6, <1>10

LEMMA ServingSteps ==
  ASSUME LinksInvariant, NEW i \in DOMAIN calls, LinksServe(i)
  PROVE  LinksInvariant'
<1>0. LinkTypes /\ calls[i] \in LinkCall /\ CallKnown(calls[i])
  BY DEF LinksInvariant, LinkTypes, Known
<1>1. CASE ServeList(i)
  <2>0. PICK c : c = [calls[i] EXCEPT !.at = "served", !.shows = LinksOf(calls[i].on)]
    OBVIOUS
  <2>1. c \in LinkCall /\ c.what = "list" /\ c.shows = LinksOf(c.on) /\ c.at = "served"
        /\ c.from = calls[i].from /\ c.on = calls[i].on /\ c.mounted = calls[i].mounted
        /\ calls[i].what = "list"
    BY <1>0, <1>1, <2>0 DEF ServeList, LinkCall, LinksOf, LinkTypes
  <2>2. UNCHANGED <<madeFor, liveLinks, vaults, selected, active, dialogs>>
        /\ calls' = [calls EXCEPT ![i] = c] /\ calls[i].at = "sent"
    BY <1>1, <2>0 DEF ServeList, Serves
  <2>3. CallKnown(c)'
    BY <1>0, <2>1, <2>2 DEF CallKnown, LinksOf, LinkTypes
  <2>4. c.shows = LinksOf(c.on)'
    BY <2>1, <2>2 DEF LinksOf
  <2>5. Serving(i, c)
    BY <1>0, <2>1, <2>2, <2>3, <2>4 DEF Serving, LinkTypes
  <2> QED
    BY <2>5, ServingKeeps
<1>2. CASE ServeCreate(i)
  <2>1. PICK l \in Links \ DOMAIN madeFor :
          /\ madeFor' = [k \in DOMAIN madeFor \cup {l} |->
                           IF k = l THEN calls[i].on ELSE madeFor[k]]
          /\ liveLinks' = liveLinks \cup {l}
          /\ Serves(i, [calls[i] EXCEPT !.at = "served", !.link = l])
    BY <1>2 DEF ServeCreate
  <2>0. PICK c : c = [calls[i] EXCEPT !.at = "served", !.link = l]
    OBVIOUS
  <2>2. c \in LinkCall /\ c.what = "create" /\ c.link = l /\ c.shows = calls[i].shows
        /\ c.from = calls[i].from /\ c.on = calls[i].on /\ c.mounted = calls[i].mounted
        /\ calls[i].what = "create" /\ c.on \in Subjects /\ c.at = "served"
    BY <1>0, <1>2, <2>0 DEF ServeCreate, LinkCall
  <2>3. UNCHANGED <<vaults, selected, active, dialogs>>
        /\ calls' = [calls EXCEPT ![i] = c] /\ calls[i].at = "sent"
    BY <2>0, <2>1 DEF Serves
  <2>4. /\ DOMAIN madeFor' = DOMAIN madeFor \cup {l} /\ madeFor'[l] = c.on
        /\ \A k \in DOMAIN madeFor : madeFor'[k] = madeFor[k]
    BY <2>1, <2>2
  <2>5. CallKnown(c)'
    BY <1>0, <2>2, <2>4 DEF CallKnown
  <2>6. Serving(i, c)
    BY <1>0, <2>1, <2>2, <2>3, <2>4, <2>5 DEF Serving, LinkTypes
  <2> QED
    BY <2>6, ServingKeeps
<1>3. CASE ServeRevoke(i) \/ ServeRename(i) \/ ServeDrop(i)
  <2>0. PICK c : c = [calls[i] EXCEPT !.at = "served"]
    OBVIOUS
  <2>1. c \in LinkCall /\ c.what \in {"revoke", "rename", "drop"} /\ c.at = "served"
        /\ c.what = calls[i].what /\ c.from = calls[i].from /\ c.on = calls[i].on
        /\ c.mounted = calls[i].mounted /\ c.link = calls[i].link /\ c.shows = calls[i].shows
    BY <1>0, <1>3, <2>0 DEF ServeRevoke, ServeRename, ServeDrop, LinkCall
  <2>2. UNCHANGED <<madeFor, vaults, selected, active, dialogs>>
        /\ calls' = [calls EXCEPT ![i] = c] /\ calls[i].at = "sent"
        /\ liveLinks' \subseteq liveLinks
        /\ (c.what = "revoke" => liveLinks' = liveLinks \ {calls[i].link})
    BY <1>3, <2>0 DEF ServeRevoke, ServeRename, ServeDrop, Serves
  <2>3. CallKnown(c)'
    BY <1>0, <2>1, <2>2 DEF CallKnown
  <2>4. Serving(i, c)
    BY <1>0, <2>1, <2>2, <2>3 DEF Serving, LinkTypes
  <2> QED
    BY <2>4, ServingKeeps
<1> QED
  BY <1>1, <1>2, <1>3 DEF LinksServe

LEMMA LapseSteps ==
  ASSUME LinksInvariant, NEW l \in Links, LinkLapses(l)
  PROVE  LinksInvariant'
<1> USE DEF LinksInvariant
<1>1. UNCHANGED <<madeFor, vaults, selected, active, dialogs, calls>>
      /\ liveLinks' \subseteq liveLinks
  BY DEF LinkLapses
<1>2. LinkTypes' /\ Modal' /\ Known' /\ Asking'
  BY <1>1 DEF LinkTypes, Modal, Known, CallKnown, Asking, Asker, Subject
<1>3. \A S, s : Covers(S, s) => Covers(S, s)'
  BY <1>1 DEF Covers, LinksOf, Minted
<1>4. ASSUME NEW d \in Kinds, dialogs[d].open PROVE DialogInv(d)'
  <2>1. DialogInv(d) /\ \A i \in DOMAIN calls : Coming(d, i)' <=> Coming(d, i)
    BY <1>1, <1>4 DEF Coming
  <2>2. Subject(d)' = Subject(d)
    BY <1>1 DEF Subject
  <2>3. PICK s : s = Subject(d) OBVIOUS
  <2>4. PICK S : S = dialogs[d].list OBVIOUS
  <2>5. Covers(dialogs[d].list, Subject(d)) => Covers(dialogs[d].list, Subject(d))'
    <3>1. Covers(S, s)' <=> Covers(dialogs[d].list, Subject(d))'
      BY <1>1, <2>2, <2>3, <2>4 DEF Covers
    <3> QED
      BY <1>3, <2>3, <2>4, <3>1
  <2>6. ASSUME NEW i \in DOMAIN calls
        PROVE  Covers(calls[i].shows, Subject(d)) => Covers(calls[i].shows, Subject(d))'
    <3>1. PICK T : T = calls[i].shows OBVIOUS
    <3>2. Covers(T, s)' <=> Covers(calls[i].shows, Subject(d))'
      BY <1>1, <2>2, <2>3, <3>1 DEF Covers
    <3> QED
      BY <1>3, <2>3, <3>1, <3>2
  <2> QED
    BY <1>1, <2>1, <2>2, <2>5, <2>6 DEF DialogInv, FreshInv, ListedInv, ComingInv
<1> QED
  BY <1>1, <1>2, <1>4

\* A patient user opens and closes dialogs, and chooses what is on show, with no
\* request under way but for lists.
LEMMA OnlyLists ==
  ASSUME LinkTypes, Patient, ~Hurried
  PROVE  \A i \in DOMAIN calls : calls[i] \in LinkCall /\ calls[i].what = "list"
<1> SUFFICES ASSUME NEW i \in DOMAIN calls
             PROVE  calls[i] \in LinkCall /\ calls[i].what = "list"
  OBVIOUS
<1>1. calls[i] \in LinkCall
  BY DEF LinkTypes
<1>2. calls[i].from \in Kinds
  BY <1>1 DEF LinkCall
<1> QED
  BY <1>1, <1>2 DEF Hurried, Asked

\* With lists alone under way and no dialog open, all is well.
LEMMA AllClosed ==
  ASSUME LinkTypes', Known', \A d \in Kinds : ~dialogs'[d].open,
         \A i \in DOMAIN calls' : calls'[i].what \in {"list", "revoke"}
           /\ (calls'[i].what # "list" => calls'[i].mounted)
  PROVE  LinksInvariant'
<1>1. Modal'
  BY DEF Modal, Kinds
<1>2. Asking'
  BY DEF Asking, Asker, Once
<1> QED
  BY <1>1, <1>2 DEF LinksInvariant

LEMMA ChoosingSteps ==
  ASSUME LinksInvariant, Patient,
         \/ \E x \in Items \cup {NoItem} : ChooseItem(x)
         \/ \E v \in Vaults : ChooseVault(v)
  PROVE  LinksInvariant'
<1> USE DEF LinksInvariant
<1>0. \A i \in DOMAIN calls : calls[i] \in LinkCall /\ calls[i].what = "list"
  BY OnlyLists DEF ChooseItem, ChooseVault
<1>1. ASSUME NEW x \in Items \cup {NoItem}, ChooseItem(x) PROVE LinksInvariant'
  <2>1. /\ \A d \in Kinds : ~dialogs[d].open
        /\ selected' = x /\ UNCHANGED <<madeFor, liveLinks, vaults, active>>
    BY <1>1 DEF ChooseItem
  <2>2. CASE x = NoItem
    <3>1. /\ dialogs' = [dialogs EXCEPT !["share"] = Closed]
          /\ calls' = [i \in DOMAIN calls |-> IF calls[i].from = "share"
                         THEN [calls[i] EXCEPT !.mounted = FALSE] ELSE calls[i]]
      BY <1>1, <2>2 DEF ChooseItem
    <3>2. /\ DOMAIN calls' = DOMAIN calls
          /\ \A i \in DOMAIN calls : calls'[i] \in LinkCall /\ calls'[i].what = "list"
               /\ calls'[i].shows = calls[i].shows
      BY <1>0, <3>1 DEF LinkCall
    <3>3. calls' \in Seq(LinkCall)
      <4>1. calls \in Seq(LinkCall) BY DEF LinkTypes
      <4>2. DOMAIN calls = 1..Len(calls) /\ Len(calls) \in Nat BY <4>1
      <4>3. calls' = [i \in 1..Len(calls) |-> calls'[i]] BY <3>1, <4>2
      <4>4. \A i \in 1..Len(calls) : calls'[i] \in LinkCall BY <3>2, <4>2
      <4> QED BY <4>2, <4>3, <4>4
    <3>4. Closed \in Dialog /\ Closed.list = Unknown /\ Closed.fresh = NoLink /\ ~Closed.open
      BY DEF Closed, Dialog
    <3>5. dialogs' \in [Kinds -> Dialog] /\ dialogs'["share"] = Closed
          /\ \A d \in Kinds : d # "share" => dialogs'[d] = dialogs[d]
      BY <3>1, <3>4 DEF LinkTypes, Kinds
    <3>6. LinkTypes'
      BY <2>1, <2>2, <3>3, <3>5 DEF LinkTypes
    <3>7. Known'
      BY <2>1, <3>2, <3>4, <3>5 DEF Known, CallKnown
    <3>8. \A d \in Kinds : ~dialogs'[d].open
      BY <2>1, <3>4, <3>5
    <3> QED
      BY <3>2, <3>6, <3>7, <3>8, AllClosed
  <2>3. CASE x # NoItem
    <3>1. UNCHANGED <<dialogs, calls>>
      BY <1>1, <2>3 DEF ChooseItem
    <3>2. LinkTypes' /\ Known'
      BY <1>1, <2>1, <3>1 DEF LinkTypes, Known, CallKnown
    <3> QED
      BY <1>0, <2>1, <3>1, <3>2, AllClosed
  <2> QED
    BY <2>2, <2>3
<1>2. ASSUME NEW v \in Vaults, ChooseVault(v) PROVE LinksInvariant'
  <2>1. /\ \A d \in Kinds : ~dialogs[d].open
        /\ active' = v /\ v \in vaults
        /\ UNCHANGED <<madeFor, liveLinks, vaults, selected, dialogs, calls>>
    BY <1>2 DEF ChooseVault
  <2>2. LinkTypes' /\ Known'
    BY <2>1 DEF LinkTypes, Known, CallKnown
  <2> QED
    BY <1>0, <2>1, <2>2, AllClosed
<1> QED
  BY <1>1, <1>2

\* A dialog that opens, or starts over, asks for its list: whatever else is under
\* way comes before that.
LEMMA Reopened ==
  ASSUME LinkTypes, Known, NEW d \in Kinds, NEW s \in Seq(LinkCall),
         \A i \in DOMAIN s : s[i].what \in {"list", "revoke"} /\ CallKnown(s[i])
           /\ (s[i].what # "list" => s[i].mounted),
         Subject(d) \in Subjects, d = "share" => selected # NoItem,
         \A e \in Kinds : dialogs[e].open => e = d,
         dialogs' = Reset(d), calls' = Append(s, Call("list", d, Subject(d))),
         UNCHANGED <<madeFor, liveLinks, vaults, selected, active>>
  PROVE  LinksInvariant'
<1>1. PICK c : c = Call("list", d, Subject(d))
  OBVIOUS
<1>2. /\ c \in LinkCall /\ c.what = "list" /\ c.from = d /\ c.mounted /\ c.at = "sent"
      /\ c.on = Subject(d) /\ c.shows = {}
  BY <1>1 DEF Call, LinkCall
<1>3. /\ calls' \in Seq(LinkCall) /\ DOMAIN calls' = 1..Len(s) + 1 /\ Len(s) \in Nat
      /\ calls'[Len(s) + 1] = c /\ \A i \in 1..Len(s) : calls'[i] = s[i]
  BY <1>1, <1>2
<1>4. PICK o : o = [Closed EXCEPT !.open = TRUE,
                      !.list = IF d = "manage" THEN dialogs[d].list ELSE @]
  OBVIOUS
<1>5. o \in Dialog /\ o.open /\ o.list \in {dialogs[d].list, Unknown} /\ o.fresh = NoLink
  <2>1. dialogs[d].list \in (SUBSET Links) \cup {Unknown}
    BY DEF LinkTypes, Dialog
  <2> QED
    BY <1>4, <2>1 DEF Closed, Dialog
<1>6. /\ dialogs' \in [Kinds -> Dialog] /\ dialogs'[d] = o
      /\ \A e \in Kinds : e # d => dialogs'[e] = dialogs[e]
  BY <1>4, <1>5 DEF Reset, LinkTypes
<1>7. LinkTypes'
  BY <1>3, <1>6 DEF LinkTypes
<1>8. Modal'
  BY <1>6 DEF Modal, Kinds
<1>9. Known'
  <2>1. ASSUME NEW i \in DOMAIN calls' PROVE CallKnown(calls'[i])
    <3>1. CASE i \in 1..Len(s)
      BY <1>3, <3>1
    <3>2. CASE i = Len(s) + 1
      BY <1>2, <1>3, <3>2 DEF CallKnown
    <3> QED
      BY <1>3, <3>1, <3>2
  <2>2. ASSUME NEW i \in DOMAIN calls' PROVE CallKnown(calls[i])'
    BY <2>1, <2>2 DEF CallKnown
  <2>3. \A e \in Kinds :
          /\ dialogs'[e].list # Unknown => dialogs'[e].list \subseteq DOMAIN madeFor
          /\ dialogs'[e].fresh # NoLink => dialogs'[e].fresh \in DOMAIN madeFor
    BY <1>5, <1>6 DEF Known
  <2> QED
    BY <2>2, <2>3 DEF Known
<1>10. \A i \in DOMAIN calls' : calls'[i].what \in {"list", "revoke"}
         /\ (calls'[i].what # "list" => calls'[i].mounted)
  <2> SUFFICES ASSUME NEW i \in DOMAIN calls'
               PROVE  calls'[i].what \in {"list", "revoke"}
                      /\ (calls'[i].what # "list" => calls'[i].mounted)
    OBVIOUS
  <2>1. CASE i \in 1..Len(s)
    BY <1>3, <2>1
  <2>2. CASE i = Len(s) + 1
    BY <1>2, <1>3, <2>2
  <2> QED
    BY <1>3, <2>1, <2>2
<1>11. Asking'
  BY <1>10 DEF Asking, Asker, Once
<1>12. ASSUME NEW e \in Kinds, dialogs'[e].open PROVE DialogInv(e)'
  <2>1. e = d
    BY <1>6, <1>12
  <2>2. FreshInv(e)'
    BY <1>5, <1>6, <2>1 DEF FreshInv
  <2>3. Len(s) + 1 \in DOMAIN calls' /\ Coming(e, Len(s) + 1)'
    BY <1>2, <1>3, <2>1 DEF Coming
  <2>4. ListedInv(e)'
    BY <2>3 DEF ListedInv
  <2>5. ASSUME NEW i \in DOMAIN calls' PROVE ComingInv(e, i)'
    <3>1. CASE i \in 1..Len(s)
      <4>1. i < Len(s) + 1
        BY <1>3, <3>1
      <4> QED
        BY <2>3, <4>1 DEF ComingInv
    <3>2. CASE i = Len(s) + 1
      <4>1. calls'[i].on = Subject(d) /\ calls'[i].at = "sent"
        BY <1>2, <1>3, <3>2
      <4>2. Subject(e)' = Subject(d)
        BY <2>1 DEF Subject
      <4> QED
        BY <4>1, <4>2 DEF ComingInv
    <3> QED
      BY <1>3, <3>1, <3>2
  <2> QED
    BY <2>2, <2>4, <2>5 DEF DialogInv
<1> QED
  BY <1>7, <1>8, <1>9, <1>11, <1>12 DEF LinksInvariant

LEMMA OpeningSteps ==
  ASSUME LinksInvariant, Patient, NEW d \in Kinds, Open(d) \/ Close(d)
  PROVE  LinksInvariant'
<1> USE DEF LinksInvariant
<1>0. \A i \in DOMAIN calls : calls[i] \in LinkCall /\ calls[i].what = "list"
  BY OnlyLists DEF Open, Close
<1>1. CASE Open(d)
  <2>1. /\ Subject(d) # NoItem /\ \A k \in Kinds : ~dialogs[k].open
        /\ dialogs' = Reset(d) /\ calls' = Append(calls, Call("list", d, Subject(d)))
        /\ UNCHANGED <<madeFor, liveLinks, vaults, selected, active>>
    BY <1>1 DEF Open
  <2>2. calls \in Seq(LinkCall) /\ Subject(d) \in Subjects /\ (d = "share" => selected # NoItem)
    BY <2>1 DEF LinkTypes, Subject, Subjects
  <2>3. \A i \in DOMAIN calls : calls[i].what \in {"list", "revoke"} /\ CallKnown(calls[i])
          /\ (calls[i].what # "list" => calls[i].mounted)
    BY <1>0 DEF Known
  <2> QED
    BY <2>1, <2>2, <2>3, Reopened
<1>2. CASE Close(d)
  <2>1. /\ dialogs[d].open /\ dialogs' = [dialogs EXCEPT ![d].open = FALSE]
        /\ UNCHANGED <<madeFor, liveLinks, vaults, selected, active, calls>>
    BY <1>2 DEF Close
  <2>2. /\ dialogs' \in [Kinds -> Dialog] /\ ~dialogs'[d].open
        /\ dialogs'[d].list = dialogs[d].list /\ dialogs'[d].fresh = dialogs[d].fresh
        /\ \A e \in Kinds : e # d => dialogs'[e] = dialogs[e]
    <3>1. dialogs \in [Kinds -> Dialog]
      BY DEF LinkTypes
    <3>2. PICK o : o = [dialogs[d] EXCEPT !.open = FALSE]
      OBVIOUS
    <3>3. o \in Dialog /\ ~o.open /\ o.list = dialogs[d].list /\ o.fresh = dialogs[d].fresh
      BY <3>1, <3>2 DEF Dialog
    <3>4. dialogs' = [dialogs EXCEPT ![d] = o]
      BY <2>1, <3>2
    <3> QED
      BY <3>1, <3>3, <3>4
  <2>3. LinkTypes'
    BY <2>1, <2>2 DEF LinkTypes
  <2>4. Known'
    BY <2>1, <2>2 DEF Known, CallKnown
  <2>5. \A e \in Kinds : ~dialogs'[e].open
    BY <2>1, <2>2 DEF Modal
  <2> QED
    BY <1>0, <2>1, <2>3, <2>4, <2>5, AllClosed
<1> QED
  BY <1>1, <1>2

\* A button press sends a request about what its dialog is open on.
LEMMA Pressed ==
  ASSUME LinksInvariant, NEW d \in Kinds, NEW c \in LinkCall, Requests(d, c),
         c.what # "list", c.from = d, c.on = Subject(d), c.shows = {}, c.at = "sent",
         c.mounted, c.what = "revoke" => c.link \in DOMAIN madeFor,
         c.what \in {"rename", "drop"} => d = "manage"
  PROVE  LinksInvariant'
<1> USE DEF LinksInvariant
<1>1. /\ dialogs[d].open /\ calls' = Append(calls, c)
      /\ UNCHANGED <<madeFor, liveLinks, vaults, selected, active, dialogs>>
      /\ \A i \in DOMAIN calls : calls[i].mounted /\ calls[i].from = d =>
           IF c.what = "revoke" THEN calls[i].what # "revoke"
           ELSE calls[i].what \notin {"create", "rename", "drop"}
  BY DEF Requests
<1>2. PICK n : n = Len(calls) + 1
  OBVIOUS
<1>3. /\ calls \in Seq(LinkCall) /\ calls' \in Seq(LinkCall) /\ n \in Nat \ {0}
      /\ DOMAIN calls = 1..n - 1 /\ DOMAIN calls' = 1..n /\ calls'[n] = c
      /\ \A i \in 1..n - 1 : calls'[i] = calls[i]
  BY <1>1, <1>2 DEF LinkTypes
<1>4. n \in 1..n /\ n \notin 1..n - 1 /\ (\A i \in 1..n : i # n => i \in 1..n - 1)
      /\ 1..n - 1 \subseteq 1..n
  BY <1>3
<1>5. LinkTypes' /\ Modal'
  BY <1>1, <1>3 DEF LinkTypes, Modal
<1>6. Known'
  <2>1. ASSUME NEW i \in DOMAIN calls' PROVE CallKnown(calls'[i])
    <3>1. i = n => CallKnown(calls'[i])
      BY <1>3 DEF CallKnown
    <3>2. i # n => CallKnown(calls'[i])
      BY <1>3, <1>4 DEF Known
    <3> QED
      BY <3>1, <3>2
  <2>2. ASSUME NEW i \in DOMAIN calls' PROVE CallKnown(calls[i])'
    BY <1>1, <2>1 DEF CallKnown
  <2> QED
    BY <1>1, <2>2 DEF Known
<1>7. \A e \in Kinds : Subject(e)' = Subject(e)
  BY <1>1 DEF Subject
<1>8. c.what \in Once => \A i \in DOMAIN calls : calls[i].what \notin Once
  <2> SUFFICES ASSUME c.what \in Once, NEW i \in DOMAIN calls, calls[i].what \in Once
               PROVE  FALSE
    OBVIOUS
  <2>1. calls[i] \in LinkCall /\ Asker(calls[i])
    BY <1>3 DEF Asking
  <2>2. calls[i].mounted /\ dialogs[calls[i].from].open /\ calls[i].from \in Kinds
    BY <2>1 DEF Asker, Once, LinkCall
  <2>3. calls[i].from = d
    BY <1>1, <2>2 DEF Modal
  <2> QED
    BY <1>1, <2>2, <2>3 DEF Once
<1>9. Asking'
  <2>1. ASSUME NEW i \in DOMAIN calls' PROVE Asker(calls[i])'
    <3>1. calls'[i] \in LinkCall
      BY <1>3
    <3>2. i = n => Asker(calls[i])'
      BY <1>1, <1>3, <1>7 DEF Asker
    <3>3. i # n => Asker(calls[i])'
      <4>1. i # n => Asker(calls[i]) /\ calls'[i] = calls[i]
        BY <1>3, <1>4 DEF Asking
      <4>2. calls'[i].from \in Kinds
        BY <3>1 DEF LinkCall
      <4> QED
        BY <1>1, <1>7, <4>1, <4>2 DEF Asker
    <3> QED
      BY <3>2, <3>3
  <2>2. ASSUME NEW i \in DOMAIN calls', NEW j \in DOMAIN calls'
        PROVE  /\ calls'[i].what \in Once /\ calls'[j].what \in Once => i = j
               /\ calls'[i].what = "create" /\ calls'[j].what = "list" => j < i
    <3>1. CASE i = n /\ j # n
      <4>1. j \in DOMAIN calls /\ calls'[j] = calls[j] /\ calls'[i] = c /\ j < i
        BY <1>3, <1>4, <3>1
      <4> QED
        BY <1>8, <4>1
    <3>2. CASE i # n /\ j = n
      <4>1. i \in DOMAIN calls /\ calls'[i] = calls[i] /\ calls'[j] = c
        BY <1>3, <1>4, <3>2
      <4> QED
        BY <1>8, <4>1
    <3>3. CASE i # n /\ j # n
      <4>1. i \in DOMAIN calls /\ j \in DOMAIN calls
            /\ calls'[i] = calls[i] /\ calls'[j] = calls[j]
        BY <1>3, <1>4, <3>3
      <4> QED
        BY <4>1 DEF Asking
    <3>4. CASE i = n /\ j = n
      <4>1. calls'[i].what # "list" /\ calls'[j].what # "list"
        BY <1>3, <3>4
      <4> QED
        BY <3>4, <4>1
    <3> QED
      BY <3>1, <3>2, <3>3, <3>4
  <2> QED
    BY <2>1, <2>2 DEF Asking
<1>10. \A e \in Kinds : /\ ~Coming(e, n)'
                        /\ \A i \in DOMAIN calls : Coming(e, i)' <=> Coming(e, i)
  BY <1>3 DEF Coming
<1>11. \A S, s : Covers(S, s) => Covers(S, s)'
  <2>1. \A l : Minted(l) => Minted(l)'
    BY <1>3, <1>4 DEF Minted
  <2> QED
    BY <1>1, <2>1 DEF Covers, LinksOf
<1>12. ASSUME NEW e \in Kinds, dialogs[e].open PROVE DialogInv(e)'
  <2>1. DialogInv(e)
    BY <1>12
  <2>2. PICK s : s = Subject(e) OBVIOUS
  <2>3. PICK S : S = dialogs[e].list OBVIOUS
  <2>4. FreshInv(e)'
    BY <1>1, <1>7, <2>1 DEF DialogInv, FreshInv
  <2>5. Covers(dialogs[e].list, Subject(e)) => Covers(dialogs[e].list, Subject(e))'
    <3>1. Covers(S, s)' <=> Covers(dialogs[e].list, Subject(e))'
      BY <1>1, <1>7, <2>2, <2>3 DEF Covers
    <3> QED
      BY <1>11, <2>2, <2>3, <3>1
  <2>6. ListedInv(e)'
    <3>1. (\A i \in DOMAIN calls' : ~Coming(e, i)') => \A i \in DOMAIN calls : ~Coming(e, i)
      BY <1>3, <1>4, <1>10
    <3> QED
      BY <1>1, <2>1, <2>5, <3>1 DEF DialogInv, ListedInv
  <2>7. ASSUME NEW i \in DOMAIN calls', Coming(e, i)' PROVE ComingInv(e, i)'
    <3>1. i \in DOMAIN calls /\ Coming(e, i) /\ calls'[i] = calls[i]
      BY <1>3, <1>4, <1>10, <2>7
    <3>2. ComingInv(e, i)
      BY <2>1, <3>1 DEF DialogInv
    <3>3. CASE \E j \in DOMAIN calls : i < j /\ Coming(e, j)
      BY <1>3, <1>4, <1>10, <3>3 DEF ComingInv
    <3>4. CASE /\ calls[i].on = Subject(e)
               /\ calls[i].at = "served" => Covers(calls[i].shows, Subject(e))
      <4>1. PICK T : T = calls[i].shows OBVIOUS
      <4>2. Covers(T, s)' <=> Covers(calls[i].shows, Subject(e))'
        BY <1>1, <1>7, <2>2, <3>1, <4>1 DEF Covers
      <4> QED
        BY <1>7, <1>11, <2>2, <3>1, <3>4, <4>1, <4>2 DEF ComingInv
    <3> QED
      BY <3>2, <3>3, <3>4 DEF ComingInv
  <2> QED
    BY <2>4, <2>6, <2>7 DEF DialogInv
<1> QED
  BY <1>1, <1>5, <1>6, <1>9, <1>12

LEMMA PressingSteps ==
  ASSUME LinksInvariant,
         \/ \E d \in Kinds : Create(d) \/ \E l \in Links : Revoke(d, l)
         \/ Rename \/ DropVault
  PROVE  LinksInvariant'
<1>0. /\ LinkTypes /\ Modal
      /\ \A d \in Kinds : dialogs[d].list # Unknown => dialogs[d].list \subseteq DOMAIN madeFor
  BY DEF LinksInvariant, Known
<1>1. ASSUME NEW d \in Kinds, dialogs[d].open PROVE Subject(d) \in Subjects
  BY <1>0, <1>1 DEF LinkTypes, Modal, Subject, Subjects
<1>2. ASSUME NEW d \in Kinds, NEW what \in {"create", "rename", "drop"},
             Requests(d, Call(what, d, Subject(d))), what # "create" => d = "manage"
      PROVE  LinksInvariant'
  <2>1. PICK c : c = Call(what, d, Subject(d))
    OBVIOUS
  <2>2. /\ c \in LinkCall /\ c.what = what /\ c.from = d /\ c.on = Subject(d)
        /\ c.shows = {} /\ c.at = "sent" /\ c.mounted
    BY <1>1, <1>2, <2>1 DEF Call, LinkCall, Requests
  <2>3. what # "list" /\ what # "revoke"
    OBVIOUS
  <2> QED
    BY <1>2, <2>1, <2>2, <2>3, Pressed
<1>3. ASSUME NEW d \in Kinds, NEW l \in Links, Revoke(d, l) PROVE LinksInvariant'
  <2>1. PICK c : c = [Call("revoke", d, Subject(d)) EXCEPT !.link = l]
    OBVIOUS
  <2>2. Requests(d, c) /\ l \in DOMAIN madeFor
    BY <1>0, <1>3, <2>1 DEF Revoke
  <2>3. /\ c \in LinkCall /\ c.what = "revoke" /\ c.from = d /\ c.on = Subject(d)
        /\ c.shows = {} /\ c.at = "sent" /\ c.mounted /\ c.link = l
    BY <1>1, <2>1, <2>2 DEF Call, LinkCall, Requests
  <2> QED
    BY <2>2, <2>3, Pressed
<1>4. Rename \/ DropVault => \E what \in {"rename", "drop"} :
        Requests("manage", Call(what, "manage", Subject("manage")))
  BY DEF Rename, DropVault, Subject
<1>5. "manage" \in Kinds
  BY DEF Kinds
<1>6. \A d \in Kinds : Create(d) => Requests(d, Call("create", d, Subject(d)))
  BY DEF Create
<1> QED
  BY <1>2, <1>3, <1>4, <1>5, <1>6

LEMMA ArmSteps ==
  ASSUME LinksInvariant, Arm
  PROVE  LinksInvariant'
<1> USE DEF LinksInvariant
<1>1. UNCHANGED <<madeFor, liveLinks, vaults, selected, active, calls>>
      /\ dialogs' = [dialogs EXCEPT !["manage"].armed = TRUE]
  BY DEF Arm
<1>2. dialogs' \in [Kinds -> Dialog] /\ \A d \in Kinds :
        /\ dialogs'[d].open = dialogs[d].open /\ dialogs'[d].list = dialogs[d].list
        /\ dialogs'[d].fresh = dialogs[d].fresh /\ dialogs'[d].failed = dialogs[d].failed
        /\ dialogs'[d].doubt = dialogs[d].doubt
  <2>1. dialogs \in [Kinds -> Dialog] /\ "manage" \in Kinds
    BY DEF LinkTypes, Kinds
  <2>2. PICK o : o = [dialogs["manage"] EXCEPT !.armed = TRUE]
    OBVIOUS
  <2>3. o \in Dialog /\ o.open = dialogs["manage"].open /\ o.list = dialogs["manage"].list
        /\ o.fresh = dialogs["manage"].fresh /\ o.failed = dialogs["manage"].failed
        /\ o.doubt = dialogs["manage"].doubt
    BY <2>1, <2>2 DEF Dialog
  <2>4. dialogs' = [dialogs EXCEPT !["manage"] = o]
    BY <1>1, <2>2
  <2> QED
    BY <2>1, <2>3, <2>4
<1>3. LinkTypes' /\ Modal' /\ Known'
  BY <1>1, <1>2 DEF LinkTypes, Modal, Known, CallKnown, Kinds
<1>4. Asking'
  <2>1. ASSUME NEW i \in DOMAIN calls PROVE Asker(calls[i])'
    <3>1. calls[i] \in LinkCall
      BY DEF LinkTypes
    <3>2. Asker(calls[i]) /\ calls[i].from \in Kinds
      BY <3>1 DEF Asking, LinkCall
    <3>3. Subject(calls[i].from)' = Subject(calls[i].from)
      BY <1>1 DEF Subject
    <3> QED
      BY <1>1, <1>2, <3>2, <3>3 DEF Asker
  <2> QED
    BY <1>1, <2>1 DEF Asking
<1>5. ASSUME NEW d \in Kinds, dialogs'[d].open PROVE DialogInv(d)'
  <2>1. DialogInv(d) /\ Subject(d)' = Subject(d)
    BY <1>1, <1>2, <1>5 DEF Subject
  <2>2. \A i \in DOMAIN calls : Coming(d, i)' <=> Coming(d, i)
    BY <1>1 DEF Coming
  <2>3. /\ Covers(dialogs[d].list, Subject(d)) => Covers(dialogs[d].list, Subject(d))'
        /\ \A i \in DOMAIN calls :
             Covers(calls[i].shows, Subject(d)) => Covers(calls[i].shows, Subject(d))'
    BY <1>1, <1>2, <2>1 DEF Covers, LinksOf, Minted
  <2> QED
    BY <1>1, <1>2, <2>1, <2>2, <2>3 DEF DialogInv, FreshInv, ListedInv, ComingInv
<1> QED
  BY <1>3, <1>4, <1>5

\* The first request is answered: those behind it move up.
LEMMA MovedUp ==
  ASSUME LinkTypes, 1 \in DOMAIN calls, calls' = RemoveAt(calls, 1)
  PROVE  /\ calls' \in Seq(LinkCall)
         /\ \A i \in DOMAIN calls' : i + 1 \in DOMAIN calls /\ calls'[i] = calls[i + 1]
         /\ \A i \in DOMAIN calls : i # 1 => i - 1 \in DOMAIN calls' /\ calls'[i - 1] = calls[i]
         /\ DOMAIN calls \subseteq Nat /\ DOMAIN calls' \subseteq Nat
<1>1. calls \in Seq(LinkCall)
  BY DEF LinkTypes
<1>2. PICK n \in Nat : n = Len(calls) /\ DOMAIN calls = 1..n
  BY <1>1
<1>3. /\ calls' \in Seq(LinkCall) /\ Len(calls') = n - 1
      /\ \A j \in 1..n - 1 : calls'[j] = IF j < 1 THEN calls[j] ELSE calls[j + 1]
  BY <1>1, <1>2, Removed
<1>4. DOMAIN calls' = 1..n - 1
  BY <1>3
<1>5. ASSUME NEW i \in 1..n - 1 PROVE i + 1 \in 1..n /\ calls'[i] = calls[i + 1]
  BY <1>2, <1>3
<1>6. ASSUME NEW i \in 1..n, i # 1 PROVE i - 1 \in 1..n - 1 /\ calls'[i - 1] = calls[i]
  <2>1. i - 1 \in 1..n - 1 /\ i - 1 + 1 = i
    BY <1>2, <1>6
  <2> QED
    BY <1>5, <2>1
<1> QED
  BY <1>2, <1>3, <1>4, <1>5, <1>6

\* What an answer leaves to show: what its dialog then holds is right.
LEMMA Answering ==
  ASSUME LinksInvariant, 1 \in DOMAIN calls, calls' = RemoveAt(calls, 1),
         UNCHANGED <<madeFor, liveLinks, vaults, selected, active>>,
         dialogs' \in [Kinds -> Dialog],
         \A d \in Kinds :
           /\ dialogs'[d].open = dialogs[d].open
           /\ dialogs'[d].list # Unknown => dialogs'[d].list \subseteq DOMAIN madeFor
           /\ dialogs'[d].fresh # NoLink => dialogs'[d].fresh \in DOMAIN madeFor
           /\ dialogs[d].open => FreshInv(d)' /\ ListedInv(d)'
  PROVE  LinksInvariant'
<1> USE DEF LinksInvariant
<1>1. /\ calls' \in Seq(LinkCall)
      /\ \A i \in DOMAIN calls' : i + 1 \in DOMAIN calls /\ calls'[i] = calls[i + 1]
      /\ \A i \in DOMAIN calls : i # 1 => i - 1 \in DOMAIN calls' /\ calls'[i - 1] = calls[i]
      /\ DOMAIN calls \subseteq Nat /\ DOMAIN calls' \subseteq Nat
  BY MovedUp
<1>2. LinkTypes' /\ Modal'
  BY <1>1 DEF LinkTypes, Modal, Kinds
<1>3. Known'
  <2>1. ASSUME NEW i \in DOMAIN calls' PROVE CallKnown(calls[i])'
    <3>1. CallKnown(calls'[i])
      BY <1>1 DEF Known
    <3> QED
      BY <3>1 DEF CallKnown
  <2> QED
    BY <2>1 DEF Known
<1>4. \A e \in Kinds : Subject(e)' = Subject(e)
  BY DEF Subject
<1>5. Asking'
  <2>1. ASSUME NEW i \in DOMAIN calls' PROVE Asker(calls[i])'
    <3>1. calls'[i] \in LinkCall /\ Asker(calls'[i])
      BY <1>1 DEF Asking
    <3>2. calls'[i].from \in Kinds
      BY <3>1 DEF LinkCall
    <3> QED
      BY <1>4, <3>1, <3>2 DEF Asker
  <2>2. ASSUME NEW i \in DOMAIN calls', NEW j \in DOMAIN calls'
        PROVE  /\ calls'[i].what \in Once /\ calls'[j].what \in Once => i = j
               /\ calls'[i].what = "create" /\ calls'[j].what = "list" => j < i
    <3>1. /\ calls[i + 1].what \in Once /\ calls[j + 1].what \in Once => i + 1 = j + 1
          /\ calls[i + 1].what = "create" /\ calls[j + 1].what = "list" => j + 1 < i + 1
      BY <1>1 DEF Asking
    <3>2. /\ i \in Nat /\ j \in Nat
          /\ calls'[i] = calls[i + 1] /\ calls'[j] = calls[j + 1]
      BY <1>1
    <3>3. (i + 1 = j + 1 => i = j) /\ (j + 1 < i + 1 => j < i)
      BY <3>2
    <3> QED
      BY <3>1, <3>2, <3>3
  <2> QED
    BY <2>1, <2>2 DEF Asking
<1>6. ASSUME NEW d \in Kinds, dialogs[d].open, NEW i \in DOMAIN calls', Coming(d, i)'
      PROVE  ComingInv(d, i)'
  <2>1. i + 1 \in DOMAIN calls /\ calls'[i] = calls[i + 1] /\ Coming(d, i + 1)
    BY <1>1, <1>6 DEF Coming
  <2>2. ComingInv(d, i + 1)
    BY <1>6, <2>1 DEF DialogInv
  <2>3. CASE \E j \in DOMAIN calls : i + 1 < j /\ Coming(d, j)
    <3>1. PICK j \in DOMAIN calls : i + 1 < j /\ Coming(d, j)
      BY <2>3
    <3>2. j \in Nat /\ i \in Nat
      BY <1>1
    <3>3. j # 1 /\ i < j - 1
      BY <3>1, <3>2
    <3>4. j - 1 \in DOMAIN calls' /\ calls'[j - 1] = calls[j]
      BY <1>1, <3>3
    <3>5. PICK k : k = j - 1
      OBVIOUS
    <3>6. k \in DOMAIN calls' /\ i < k /\ Coming(d, k)'
      BY <3>1, <3>3, <3>4, <3>5 DEF Coming
    <3> QED
      BY <3>6 DEF ComingInv
  <2>4. CASE /\ calls[i + 1].on = Subject(d)
             /\ calls[i + 1].at = "served" => Covers(calls[i + 1].shows, Subject(d))
    <3>1. \A l : Minted(l) => Minted(l)'
      <4> SUFFICES ASSUME NEW l, Minted(l) PROVE Minted(l)'
        OBVIOUS
      <4>1. PICK k \in DOMAIN calls :
              calls[k].what = "create" /\ calls[k].at = "served" /\ calls[k].link = l
        BY DEF Minted
      <4>2. i + 1 < k
        BY <2>1, <4>1 DEF Asking, Coming
      <4>3. k # 1
        BY <1>1, <2>1, <4>2
      <4>4. k - 1 \in DOMAIN calls' /\ calls'[k - 1] = calls[k]
        BY <1>1, <4>3
      <4> QED
        BY <4>1, <4>4 DEF Minted
    <3>2. Covers(calls[i + 1].shows, Subject(d)) => Covers(calls[i].shows, Subject(d))'
      BY <1>4, <2>1, <3>1 DEF Covers, LinksOf
    <3> QED
      BY <1>4, <2>1, <2>4, <3>2 DEF ComingInv
  <2> QED
    BY <2>2, <2>3, <2>4 DEF ComingInv
<1>7. \A d \in Kinds : dialogs'[d].open => DialogInv(d)'
  BY <1>6 DEF DialogInv
<1> QED
  BY <1>2, <1>3, <1>5, <1>7

\* What holds of the request that is answered.
LEMMA TheFirst ==
  ASSUME LinksInvariant, 1 \in DOMAIN calls
  PROVE  /\ calls[1] \in LinkCall /\ calls[1].from \in Kinds
         /\ calls[1].shows \subseteq Links
         /\ CallKnown(calls[1]) /\ Asker(calls[1])
<1>1. LinkTypes /\ CallKnown(calls[1]) /\ Asker(calls[1])
  BY DEF LinksInvariant, Known, Asking
<1>2. calls[1] \in LinkCall
  BY <1>1 DEF LinkTypes
<1> QED
  BY <1>1, <1>2 DEF LinkCall

\* What the lists show, once the first request is gone, when it was no creation
\* that the server served.
LEMMA StillCovers ==
  ASSUME LinkTypes, 1 \in DOMAIN calls, calls' = RemoveAt(calls, 1),
         UNCHANGED <<madeFor, liveLinks>>,
         calls[1].what # "create" \/ calls[1].at # "served",
         NEW S, NEW s, Covers(S, s)
  PROVE  Covers(S, s)'
<1>1. ASSUME NEW l, Minted(l) PROVE Minted(l)'
  <2>1. PICK i \in DOMAIN calls :
          calls[i].what = "create" /\ calls[i].at = "served" /\ calls[i].link = l
    BY <1>1 DEF Minted
  <2>2. i # 1
    BY <2>1
  <2>3. i - 1 \in DOMAIN calls' /\ calls'[i - 1] = calls[i]
    BY <2>2, MovedUp
  <2> QED
    BY <2>1, <2>3 DEF Minted
<1> QED
  BY <1>1 DEF Covers, LinksOf

\* A dialog that the answer was not for.
LEMMA Undisturbed ==
  ASSUME LinksInvariant, 1 \in DOMAIN calls, calls' = RemoveAt(calls, 1),
         UNCHANGED <<madeFor, liveLinks, vaults, selected, active>>,
         calls[1].what # "create" \/ calls[1].at # "served",
         NEW d \in Kinds, dialogs[d].open, ~Coming(d, 1), dialogs'[d].open,
         dialogs'[d].fresh = dialogs[d].fresh, dialogs'[d].list = dialogs[d].list,
         dialogs'[d].failed = dialogs[d].failed, dialogs'[d].doubt = dialogs[d].doubt
  PROVE  FreshInv(d)' /\ ListedInv(d)'
<1> USE DEF LinksInvariant
<1>1. DialogInv(d) /\ Subject(d)' = Subject(d)
  BY DEF Subject
<1>2. (\A i \in DOMAIN calls' : ~Coming(d, i)') => \A i \in DOMAIN calls : ~Coming(d, i)
  <2> SUFFICES ASSUME NEW i \in DOMAIN calls, Coming(d, i)
               PROVE  \E k \in DOMAIN calls' : Coming(d, k)'
    OBVIOUS
  <2>1. i # 1
    OBVIOUS
  <2>2. PICK k : k = i - 1
    OBVIOUS
  <2>3. k \in DOMAIN calls' /\ calls'[k] = calls[i]
    BY <2>1, <2>2, MovedUp
  <2> QED
    BY <2>3 DEF Coming
<1>3. PICK S : S = dialogs[d].list OBVIOUS
<1>4. PICK s : s = Subject(d) OBVIOUS
<1>5. Covers(S, s) => Covers(S, s)'
  BY StillCovers
<1>6. Covers(S, s)' <=> Covers(dialogs[d].list, Subject(d))'
  BY <1>1, <1>3, <1>4 DEF Covers
<1> QED
  BY <1>1, <1>2, <1>3, <1>4, <1>5, <1>6 DEF DialogInv, FreshInv, ListedInv

\* The answer changes the dialog that asked, if it is still there to hear it.
LEMMA Heard ==
  ASSUME LinkTypes, 1 \in DOMAIN calls, NEW o \in Dialog, Hears(1, o)
  PROVE  /\ calls' = RemoveAt(calls, 1) /\ UNCHANGED <<vaults, selected, active>>
         /\ calls[1] \in LinkCall /\ calls[1].from \in Kinds
         /\ dialogs' \in [Kinds -> Dialog]
         /\ \A d \in Kinds : ~(calls[1].mounted /\ d = calls[1].from) => dialogs'[d] = dialogs[d]
         /\ calls[1].mounted => dialogs'[calls[1].from] = o
<1>1. calls[1] \in LinkCall
  BY DEF LinkTypes
<1>2. calls[1].from \in Kinds
  BY <1>1 DEF LinkCall
<1> QED
  BY <1>1, <1>2 DEF Hears, LinkTypes

LEMMA ListedSteps ==
  ASSUME LinksInvariant, 1 \in DOMAIN calls, Listed(1)
  PROVE  LinksInvariant'
<1> USE DEF LinksInvariant
<1>1. PICK o : o = [Sender(1) EXCEPT !.list = calls[1].shows]
  OBVIOUS
<1>2. calls[1] \in LinkCall /\ calls[1].from \in Kinds /\ calls[1].shows \subseteq Links
      /\ calls[1].shows \subseteq DOMAIN madeFor
  BY TheFirst DEF CallKnown
<1>3. dialogs[calls[1].from] \in Dialog
  BY <1>2 DEF LinkTypes
<1>4. o \in Dialog /\ o.list = calls[1].shows /\ o.open = dialogs[calls[1].from].open
      /\ o.fresh = dialogs[calls[1].from].fresh
  BY <1>1, <1>2, <1>3 DEF Dialog, Sender
<1>5. Hears(1, o) /\ calls[1].what = "list" /\ calls[1].at = "served"
      /\ UNCHANGED <<madeFor, liveLinks>>
  BY <1>1 DEF Listed, Answers
<1>6. /\ calls' = RemoveAt(calls, 1) /\ UNCHANGED <<vaults, selected, active>>
      /\ dialogs' \in [Kinds -> Dialog]
      /\ \A d \in Kinds : ~(calls[1].mounted /\ d = calls[1].from) => dialogs'[d] = dialogs[d]
      /\ calls[1].mounted => dialogs'[calls[1].from] = o
  BY <1>4, <1>5, Heard
<1>7. ASSUME NEW d \in Kinds
      PROVE  /\ dialogs'[d].open = dialogs[d].open
             /\ dialogs'[d].list # Unknown => dialogs'[d].list \subseteq DOMAIN madeFor
             /\ dialogs'[d].fresh # NoLink => dialogs'[d].fresh \in DOMAIN madeFor
  BY <1>2, <1>4, <1>6 DEF Known
<1>8. ASSUME NEW d \in Kinds, dialogs[d].open PROVE FreshInv(d)' /\ ListedInv(d)'
  <2>1. CASE ~Coming(d, 1)
    <3>1. dialogs'[d] = dialogs[d]
      BY <1>5, <1>6, <2>1 DEF Coming
    <3> QED
      BY <1>5, <1>6, <1>8, <2>1, <3>1, Undisturbed
  <2>2. CASE Coming(d, 1)
    <3>1. dialogs'[d] = o /\ calls[1].from = d
      BY <1>6, <2>2 DEF Coming
    <3>2. DialogInv(d) /\ Subject(d)' = Subject(d)
      BY <1>6, <1>8 DEF Subject
    <3>3. FreshInv(d)'
      BY <1>4, <1>5, <3>1, <3>2 DEF DialogInv, FreshInv
    <3>4. ASSUME \A i \in DOMAIN calls' : ~Coming(d, i)'
          PROVE  dialogs'[d].list # Unknown /\ Covers(dialogs[d].list, Subject(d))'
      <4>1. ComingInv(d, 1)
        BY <2>2, <3>2 DEF DialogInv
      <4>2. ASSUME NEW j \in DOMAIN calls, 1 < j, Coming(d, j) PROVE FALSE
        <5>1. PICK k : k = j - 1
          OBVIOUS
        <5>2. k \in DOMAIN calls' /\ calls'[k] = calls[j]
          BY <1>6, <4>2, <5>1, MovedUp
        <5> QED
          BY <3>4, <4>2, <5>2 DEF Coming
      <4>3. PICK S : S = calls[1].shows OBVIOUS
      <4>4. PICK s : s = Subject(d) OBVIOUS
      <4>5. Covers(S, s)
        BY <1>5, <4>1, <4>2, <4>3, <4>4 DEF ComingInv
      <4>6. Covers(S, s)'
        BY <1>5, <1>6, <4>5, StillCovers
      <4>7. dialogs'[d].list = S /\ Subject(d)' = s /\ S \subseteq Links
        BY <1>2, <1>4, <3>1, <3>2, <4>3, <4>4
      <4>8. S # Unknown
        BY <4>7, LinksAssumption
      <4> QED
        BY <4>6, <4>7, <4>8 DEF Covers
    <3> QED
      BY <3>3, <3>4 DEF ListedInv
  <2> QED
    BY <2>1, <2>2
<1> QED
  BY <1>5, <1>6, <1>7, <1>8, Answering

LEMMA CreatedSteps ==
  ASSUME LinksInvariant, 1 \in DOMAIN calls, Created(1)
  PROVE  LinksInvariant'
<1> USE DEF LinksInvariant
<1>1. PICK o : o = [Sender(1) EXCEPT !.fresh = calls[1].link,
                      !.list = (IF @ = Unknown THEN {} ELSE @) \cup {calls[1].link}]
  OBVIOUS
<1>2. PICK d : d = calls[1].from
  OBVIOUS
<1>3. PICK l : l = calls[1].link
  OBVIOUS
<1>4. calls[1].what = "create" /\ calls[1].at = "served" /\ Hears(1, o)
      /\ UNCHANGED <<madeFor, liveLinks>>
  BY <1>1 DEF Created, Answers
<1>5. calls[1] \in LinkCall /\ d \in Kinds /\ l \in DOMAIN madeFor /\ l \in Links
      /\ madeFor[l] = calls[1].on
  BY <1>2, <1>3, <1>4, TheFirst DEF CallKnown, LinkTypes
<1>6. calls[1].mounted /\ dialogs[d].open /\ madeFor[l] = Subject(d)
  BY <1>2, <1>4, <1>5 DEF Asking, Asker, Once
<1>7. PICK S : S = IF dialogs[d].list = Unknown THEN {} ELSE dialogs[d].list
  OBVIOUS
<1>8. dialogs[d] \in Dialog /\ S \subseteq DOMAIN madeFor /\ S \subseteq Links
  BY <1>5, <1>7 DEF LinkTypes, Known
<1>9. /\ o \in Dialog /\ o.fresh = l /\ o.list = S \cup {l} /\ o.open = dialogs[d].open
      /\ o.failed = dialogs[d].failed /\ o.doubt = dialogs[d].doubt
  BY <1>1, <1>2, <1>3, <1>5, <1>7, <1>8 DEF Dialog, Sender
<1>10. /\ calls' = RemoveAt(calls, 1) /\ UNCHANGED <<vaults, selected, active>>
       /\ dialogs' \in [Kinds -> Dialog] /\ dialogs'[d] = o
       /\ \A e \in Kinds : e # d => dialogs'[e] = dialogs[e]
  BY <1>2, <1>4, <1>6, <1>9, Heard
<1>11. ASSUME NEW e \in Kinds
       PROVE  /\ dialogs'[e].open = dialogs[e].open
              /\ dialogs'[e].list # Unknown => dialogs'[e].list \subseteq DOMAIN madeFor
              /\ dialogs'[e].fresh # NoLink => dialogs'[e].fresh \in DOMAIN madeFor
  BY <1>5, <1>8, <1>9, <1>10 DEF Known
<1>12. DialogInv(d) /\ \A i \in DOMAIN calls : ~Coming(d, i)
  <2>1. ASSUME NEW i \in DOMAIN calls, calls[i].what = "list" PROVE FALSE
    <3>1. i < 1
      BY <1>4, <2>1 DEF Asking
    <3>2. i \in Nat /\ i # 0
      BY DEF LinkTypes
    <3> QED
      BY <3>1, <3>2
  <2> QED
    BY <1>5, <1>6, <2>1 DEF Coming
<1>13. Subject(d)' = Subject(d) /\ FreshInv(d)'
  BY <1>4, <1>6, <1>9, <1>10 DEF Subject, FreshInv
<1>14. ASSUME ~dialogs'[d].failed, ~dialogs'[d].doubt
       PROVE  Covers(dialogs[d].list, Subject(d))'
  <2>1. dialogs[d].list = S /\ Covers(S, Subject(d))
    BY <1>7, <1>9, <1>10, <1>12, <1>14 DEF DialogInv, ListedInv
  <2>2. \A k \in S \cup {l} : madeFor[k] = Subject(d)
    BY <1>6, <2>1 DEF Covers
  <2>3. ASSUME NEW k, Minted(k) PROVE k = l
    BY <1>3, <1>4, <2>3 DEF Minted, Asking, Once
  <2>4. \A k \in LinksOf(Subject(d)) : k \in S \cup {l}
    BY <2>1, <2>3 DEF Covers
  <2> QED
    BY <1>4, <1>9, <1>10, <1>13, <2>2, <2>4 DEF Covers, LinksOf
<1>15. dialogs'[d].list # Unknown
  BY <1>5, <1>8, <1>9, <1>10, LinksAssumption
<1>16. ListedInv(d)'
  BY <1>14, <1>15 DEF ListedInv
<1>17. \A e \in Kinds : dialogs[e].open => FreshInv(e)' /\ ListedInv(e)'
  BY <1>5, <1>6, <1>13, <1>16 DEF Modal
<1> QED
  BY <1>4, <1>10, <1>11, <1>17, Answering

LEMMA RevokedSteps ==
  ASSUME LinksInvariant, 1 \in DOMAIN calls, Revoked(1)
  PROVE  LinksInvariant'
<1> USE DEF LinksInvariant
<1>1. PICK o : o = [Sender(1) EXCEPT !.list = IF @ = Unknown THEN @ ELSE @ \ {calls[1].link}]
  OBVIOUS
<1>2. PICK d : d = calls[1].from
  OBVIOUS
<1>3. calls[1].what = "revoke" /\ calls[1].at = "served" /\ Hears(1, o)
      /\ UNCHANGED <<madeFor, liveLinks>>
  BY <1>1 DEF Revoked, Answers
<1>4. d \in Kinds /\ calls[1].link \notin liveLinks /\ calls[1].mounted
  BY <1>2, <1>3, TheFirst DEF CallKnown, Asker
<1>5. dialogs[d] \in Dialog
  BY <1>4 DEF LinkTypes
<1>6. PICK S : S = IF dialogs[d].list = Unknown THEN Unknown
                   ELSE dialogs[d].list \ {calls[1].link}
  OBVIOUS
<1>7. S \in (SUBSET Links) \cup {Unknown}
  BY <1>5, <1>6 DEF Dialog
<1>8. /\ o \in Dialog /\ o.list = S /\ o.open = dialogs[d].open /\ o.fresh = dialogs[d].fresh
      /\ o.failed = dialogs[d].failed /\ o.doubt = dialogs[d].doubt
  BY <1>1, <1>2, <1>5, <1>6, <1>7 DEF Dialog, Sender
<1>9. /\ calls' = RemoveAt(calls, 1) /\ UNCHANGED <<vaults, selected, active>>
      /\ dialogs' \in [Kinds -> Dialog] /\ dialogs'[d] = o
      /\ \A e \in Kinds : e # d => dialogs'[e] = dialogs[e]
  BY <1>2, <1>3, <1>4, <1>8, Heard
<1>10. ASSUME NEW e \in Kinds
       PROVE  /\ dialogs'[e].open = dialogs[e].open
              /\ dialogs'[e].list # Unknown => dialogs'[e].list \subseteq DOMAIN madeFor
              /\ dialogs'[e].fresh # NoLink => dialogs'[e].fresh \in DOMAIN madeFor
  BY <1>6, <1>8, <1>9 DEF Known
<1>11. ASSUME NEW e \in Kinds, dialogs[e].open PROVE FreshInv(e)' /\ ListedInv(e)'
  <2>1. CASE e # d
    <3>1. ~Coming(e, 1)
      BY <1>3 DEF Coming
    <3> QED
      BY <1>3, <1>9, <1>11, <2>1, <3>1, Undisturbed
  <2>2. CASE e = d
    <3>1. DialogInv(d) /\ Subject(d)' = Subject(d)
      BY <1>9, <1>11, <2>2 DEF Subject
    <3>2. FreshInv(d)'
      BY <1>3, <1>8, <1>9, <3>1 DEF DialogInv, FreshInv
    <3>3. ASSUME \A i \in DOMAIN calls' : ~Coming(d, i)'
          PROVE  \A i \in DOMAIN calls : ~Coming(d, i)
      <4> SUFFICES ASSUME NEW i \in DOMAIN calls, Coming(d, i) PROVE FALSE
        OBVIOUS
      <4>1. i # 1
        BY <1>3 DEF Coming
      <4>2. PICK k : k = i - 1
        OBVIOUS
      <4>3. k \in DOMAIN calls' /\ calls'[k] = calls[i]
        BY <1>9, <4>1, <4>2, MovedUp
      <4> QED
        BY <3>3, <4>3 DEF Coming
    <3>4. ASSUME \A i \in DOMAIN calls' : ~Coming(d, i)'
          PROVE  dialogs[d].list # Unknown /\ S = dialogs[d].list \ {calls[1].link}
      BY <1>6, <3>1, <3>3, <3>4 DEF DialogInv, ListedInv
    <3>5. ASSUME \A i \in DOMAIN calls' : ~Coming(d, i)'
          PROVE  dialogs'[d].list # Unknown
      <4>1. dialogs[d].list \subseteq Links
        BY <1>5, <3>4, <3>5 DEF Dialog
      <4> QED
        BY <1>8, <1>9, <3>4, <3>5, <4>1, LinksAssumption
    <3>6. ASSUME \A i \in DOMAIN calls' : ~Coming(d, i)',
                 ~dialogs'[d].failed, ~dialogs'[d].doubt
          PROVE  Covers(dialogs[d].list, Subject(d))'
      <4>1. PICK s : s = Subject(d) OBVIOUS
      <4>2. Covers(dialogs[d].list, s)
        BY <1>8, <1>9, <3>1, <3>3, <3>6, <4>1 DEF DialogInv, ListedInv
      <4>3. Covers(S, s)
        BY <1>4, <3>4, <3>6, <4>2 DEF Covers, LinksOf
      <4>4. Covers(S, s)'
        BY <1>3, <1>9, <4>3, StillCovers
      <4>5. dialogs'[d].list = S /\ Subject(d)' = s
        BY <1>8, <1>9, <3>1, <4>1
      <4> QED
        BY <4>4, <4>5 DEF Covers
    <3> QED
      BY <2>2, <3>2, <3>5, <3>6 DEF ListedInv
  <2> QED
    BY <2>1, <2>2
<1> QED
  BY <1>3, <1>9, <1>10, <1>11, Answering

\* An answer that changes no list, or says that there is none to rely on.
LEMMA FailSteps ==
  ASSUME LinksInvariant, 1 \in DOMAIN calls, Fails(1)
  PROVE  LinksInvariant'
<1> USE DEF LinksInvariant
<1>1. PICK o : o =
        CASE calls[1].what = "list" -> [Sender(1) EXCEPT !.list = {}, !.failed = TRUE]
          [] calls[1].what = "drop" -> [Sender(1) EXCEPT !.armed = FALSE]
          [] calls[1].what = "create" -> [Sender(1) EXCEPT !.doubt = @ \/ calls[1].at = "served"]
          [] OTHER -> Sender(1)
  OBVIOUS
<1>2. PICK d : d = calls[1].from
  OBVIOUS
<1>3. Hears(1, o) /\ UNCHANGED <<madeFor, liveLinks>>
  BY <1>1 DEF Fails
<1>4. d \in Kinds /\ dialogs[d] \in Dialog
  BY <1>2, TheFirst DEF LinkTypes
<1>5. o \in Dialog /\ o.open = dialogs[d].open /\ o.fresh = dialogs[d].fresh
  BY <1>1, <1>2, <1>4 DEF Dialog, Sender
<1>6. calls[1].what = "list" => o.list = {} /\ o.failed
  BY <1>1, <1>2, <1>4 DEF Dialog, Sender
<1>7. calls[1].what = "create" => o.list = dialogs[d].list /\ o.failed = dialogs[d].failed
        /\ (IF calls[1].at = "served" THEN o.doubt ELSE o.doubt = dialogs[d].doubt)
  BY <1>1, <1>2, <1>4 DEF Dialog, Sender
<1>8. calls[1].what \notin {"list", "create"} =>
        o.list = dialogs[d].list /\ o.failed = dialogs[d].failed /\ o.doubt = dialogs[d].doubt
  BY <1>1, <1>2, <1>4 DEF Dialog, Sender
<1>9. /\ calls' = RemoveAt(calls, 1) /\ UNCHANGED <<vaults, selected, active>>
      /\ dialogs' \in [Kinds -> Dialog]
      /\ \A e \in Kinds : ~(calls[1].mounted /\ e = d) => dialogs'[e] = dialogs[e]
      /\ calls[1].mounted => dialogs'[d] = o
  BY <1>2, <1>3, <1>5, Heard
<1>10. ASSUME NEW e \in Kinds
       PROVE  /\ dialogs'[e].open = dialogs[e].open
              /\ dialogs'[e].list # Unknown => dialogs'[e].list \subseteq DOMAIN madeFor
              /\ dialogs'[e].fresh # NoLink => dialogs'[e].fresh \in DOMAIN madeFor
  BY <1>5, <1>6, <1>7, <1>8, <1>9 DEF Known
<1>11. \A e \in Kinds : Subject(e)' = Subject(e)
  BY <1>9 DEF Subject
<1>12. ASSUME NEW e \in Kinds, dialogs[e].open PROVE FreshInv(e)' /\ ListedInv(e)'
  <2>1. CASE calls[1].what = "list" /\ calls[1].mounted /\ e = d
    <3>1. DialogInv(e)
      BY <1>12
    <3>2. FreshInv(e)'
      BY <1>3, <1>5, <1>9, <1>11, <2>1, <3>1 DEF DialogInv, FreshInv
    <3>3. {} # Unknown
      BY LinksAssumption
    <3> QED
      BY <1>6, <1>9, <2>1, <3>2, <3>3 DEF ListedInv
  <2>2. CASE calls[1].what = "create" /\ calls[1].at = "served"
    <3>1. calls[1].mounted /\ dialogs[d].open
      BY <1>2, <2>2, TheFirst DEF Asker, Once
    <3>2. e = d /\ DialogInv(d)
      BY <1>4, <1>12, <3>1 DEF Modal
    <3>3. FreshInv(d)'
      BY <1>3, <1>5, <1>9, <1>11, <3>1, <3>2 DEF DialogInv, FreshInv
    <3>4. \A i \in DOMAIN calls : ~Coming(d, i)
      <4>1. ASSUME NEW i \in DOMAIN calls, calls[i].what = "list" PROVE FALSE
        <5>1. i < 1
          BY <2>2, <4>1 DEF Asking
        <5>2. i \in Nat /\ i # 0
          BY DEF LinkTypes
        <5> QED
          BY <5>1, <5>2
      <4> QED
        BY <4>1 DEF Coming
    <3>5. dialogs'[d].list # Unknown /\ dialogs'[d].doubt
      BY <1>7, <1>9, <2>2, <3>1, <3>2, <3>4 DEF DialogInv, ListedInv
    <3> QED
      BY <3>2, <3>3, <3>5 DEF ListedInv
  <2>3. CASE /\ ~(calls[1].what = "list" /\ calls[1].mounted /\ e = d)
             /\ ~(calls[1].what = "create" /\ calls[1].at = "served")
    <3>1. ~Coming(e, 1)
      BY <1>2, <2>3 DEF Coming
    <3>2. /\ dialogs'[e].open = dialogs[e].open /\ dialogs'[e].fresh = dialogs[e].fresh
          /\ dialogs'[e].list = dialogs[e].list /\ dialogs'[e].failed = dialogs[e].failed
          /\ dialogs'[e].doubt = dialogs[e].doubt
      BY <1>5, <1>7, <1>8, <1>9, <2>3
    <3> QED
      BY <1>3, <1>9, <1>12, <2>3, <3>1, <3>2, Undisturbed
  <2> QED
    BY <2>1, <2>2, <2>3
<1> QED
  BY <1>3, <1>9, <1>10, <1>12, Answering

\* Nothing but lists and revocations is behind an answer to a rename or a drop.
LEMMA BehindIt ==
  ASSUME LinksInvariant, 1 \in DOMAIN calls, calls[1].what \in Once
  PROVE  /\ RemoveAt(calls, 1) \in Seq(LinkCall)
         /\ \A i \in DOMAIN RemoveAt(calls, 1) :
              LET c == RemoveAt(calls, 1)[i]
              IN  /\ c.what \in {"list", "revoke"} /\ CallKnown(c)
                  /\ (c.what # "list" => c.mounted)
<1>1. calls \in Seq(LinkCall)
  BY DEF LinksInvariant, LinkTypes
<1>2. PICK s : s = RemoveAt(calls, 1)
  OBVIOUS
<1>3. PICK n \in Nat : n = Len(calls) /\ DOMAIN calls = 1..n
  BY <1>1
<1>4. s \in Seq(LinkCall) /\ Len(s) = n - 1
      /\ \A j \in 1..n - 1 : s[j] = IF j < 1 THEN calls[j] ELSE calls[j + 1]
  BY <1>1, <1>2, <1>3, Removed
<1>5. ASSUME NEW i \in DOMAIN s
      PROVE  s[i].what \in {"list", "revoke"} /\ CallKnown(s[i]) /\ (s[i].what # "list" => s[i].mounted)
  <2>1. i \in 1..n - 1
    BY <1>4
  <2>2. i + 1 \in 1..n /\ i + 1 # 1 /\ s[i] = calls[i + 1]
    BY <1>3, <1>4, <2>1
  <2>3. calls[i + 1] \in LinkCall /\ CallKnown(calls[i + 1]) /\ Asker(calls[i + 1])
        /\ calls[i + 1].what \notin Once
    BY <1>1, <1>3, <2>2 DEF LinksInvariant, Known, Asking
  <2> QED
    BY <2>2, <2>3 DEF LinkCall, Asker, Once
<1> QED
  BY <1>2, <1>4, <1>5

LEMMA RenamedSteps ==
  ASSUME LinksInvariant, 1 \in DOMAIN calls, Renamed(1)
  PROVE  LinksInvariant'
<1> USE DEF LinksInvariant
<1>1. calls[1].what = "rename" /\ UNCHANGED <<madeFor, liveLinks>>
  BY DEF Renamed, Answers
<1>2. calls[1].on = Subject(calls[1].from) /\ dialogs[calls[1].from].open
      /\ calls[1].from \in Kinds
  BY <1>1, TheFirst DEF Asker, Once
<1>3. CASE dialogs["manage"].open /\ calls[1].on = active
  <2>1. /\ dialogs' = Reset("manage")
        /\ calls' = Append(RemoveAt(calls, 1), Call("list", "manage", active))
        /\ UNCHANGED <<vaults, selected, active>>
    BY <1>3 DEF Renamed
  <2>2. "manage" \in Kinds /\ Subject("manage") = active /\ active \in Subjects
        /\ \A e \in Kinds : dialogs[e].open => e = "manage"
    BY <1>3 DEF Kinds, Subject, Subjects, LinkTypes, Modal
  <2>3. PICK s : s = RemoveAt(calls, 1)
    OBVIOUS
  <2>4. /\ s \in Seq(LinkCall)
        /\ \A i \in DOMAIN s : s[i].what \in {"list", "revoke"} /\ CallKnown(s[i])
             /\ (s[i].what # "list" => s[i].mounted)
    BY <1>1, <2>3, BehindIt DEF Once
  <2> QED
    BY <1>1, <2>1, <2>2, <2>3, <2>4, Reopened
<1>4. CASE ~(dialogs["manage"].open /\ calls[1].on = active)
  <2>1. PICK d : d = calls[1].from
    OBVIOUS
  <2>2. PICK o : o = Sender(1)
    OBVIOUS
  <2>3. Hears(1, o)
    BY <1>4, <2>2 DEF Renamed
  <2>4. d \in Kinds /\ o = dialogs[d] /\ o \in Dialog
    BY <1>2, <2>1, <2>2 DEF Sender, LinkTypes
  <2>5. /\ calls' = RemoveAt(calls, 1) /\ UNCHANGED <<vaults, selected, active>>
        /\ dialogs' \in [Kinds -> Dialog] /\ \A e \in Kinds : dialogs'[e] = dialogs[e]
    BY <2>1, <2>3, <2>4, Heard
  <2>6. \A e \in Kinds : ~Coming(e, 1)
    BY <1>1 DEF Coming
  <2>7. ASSUME NEW e \in Kinds, dialogs[e].open PROVE FreshInv(e)' /\ ListedInv(e)'
    BY <1>1, <2>5, <2>6, <2>7, Undisturbed
  <2> QED
    BY <1>1, <2>5, <2>7, Answering DEF Known
<1> QED
  BY <1>3, <1>4

LEMMA DroppedSteps ==
  ASSUME LinksInvariant, 1 \in DOMAIN calls, Dropped(1)
  PROVE  LinksInvariant'
<1> USE DEF LinksInvariant
<1>1. /\ calls[1].what = "drop" /\ vaults' = vaults \ {calls[1].on}
      /\ active' \in IF active = calls[1].on THEN vaults' ELSE {active}
      /\ dialogs' = [dialogs EXCEPT !["manage"].open = FALSE]
      /\ calls' = RemoveAt(calls, 1) /\ UNCHANGED <<madeFor, liveLinks, selected>>
  BY DEF Dropped, Answers
<1>2. PICK o : o = [dialogs["manage"] EXCEPT !.open = FALSE]
  OBVIOUS
<1>3. dialogs \in [Kinds -> Dialog] /\ "manage" \in Kinds
  BY DEF LinkTypes, Kinds
<1>4. o \in Dialog /\ ~o.open /\ o.list = dialogs["manage"].list
      /\ o.fresh = dialogs["manage"].fresh
  BY <1>2, <1>3 DEF Dialog
<1>5. dialogs' = [dialogs EXCEPT !["manage"] = o]
  BY <1>1, <1>2
<1>6. dialogs' \in [Kinds -> Dialog] /\ dialogs'["manage"] = o
      /\ \A e \in Kinds : e # "manage" => dialogs'[e] = dialogs[e]
  BY <1>3, <1>4, <1>5
<1>7. /\ calls' \in Seq(LinkCall)
      /\ \A i \in DOMAIN calls' : calls'[i].what \in {"list", "revoke"} /\ CallKnown(calls'[i])
           /\ (calls'[i].what # "list" => calls'[i].mounted)
  BY <1>1, BehindIt DEF Once
<1>8. LinkTypes'
  BY <1>1, <1>6, <1>7 DEF LinkTypes
<1>9. Known'
  BY <1>1, <1>4, <1>6, <1>7 DEF Known, CallKnown
<1>10. \A e \in Kinds : ~dialogs'[e].open
  <2>1. dialogs["manage"].open
    BY <1>1, TheFirst DEF Asker, Once
  <2> QED
    BY <1>1, <1>4, <1>6, <2>1 DEF Modal
<1> QED
  BY <1>7, <1>8, <1>9, <1>10, AllClosed

LEMMA LinksInductive ==
  ASSUME Patient, AnswersInOrder, LinksInvariant, [LinksNext]_linkVars
  PROVE  LinksInvariant'
<1>1. CASE UNCHANGED linkVars
  <2>1. LinkTypes' /\ Modal' /\ Known' /\ Asking'
    BY <1>1 DEF LinksInvariant, linkVars, LinkTypes, Modal, Known, CallKnown, Asking, Asker, Subject
  <2>2. ASSUME NEW d \in Kinds, dialogs[d].open PROVE DialogInv(d)'
    BY <1>1, <2>2 DEF LinksInvariant, linkVars, DialogInv, FreshInv, ListedInv, ComingInv,
                      Coming, Covers, Minted, LinksOf, Subject
  <2> QED
    BY <1>1, <2>1, <2>2 DEF LinksInvariant, linkVars
<1>2. CASE LinksUse
  <2>1. ASSUME NEW d \in Kinds, Open(d) \/ Close(d) PROVE LinksInvariant'
    BY <2>1, OpeningSteps
  <2>2. ASSUME \/ \E d \in Kinds : Create(d) \/ \E l \in Links : Revoke(d, l)
               \/ Rename \/ DropVault
        PROVE  LinksInvariant'
    BY <2>2, PressingSteps
  <2>3. ASSUME \/ \E x \in Items \cup {NoItem} : ChooseItem(x)
               \/ \E v \in Vaults : ChooseVault(v)
        PROVE  LinksInvariant'
    BY <2>3, ChoosingSteps
  <2> QED
    BY <1>2, <2>1, <2>2, <2>3, ArmSteps DEF LinksUse
<1>3. ASSUME NEW l \in Links, LinkLapses(l) PROVE LinksInvariant'
  BY <1>3, LapseSteps
<1>4. ASSUME NEW i \in DOMAIN calls, LinksServe(i) PROVE LinksInvariant'
  BY <1>4, ServingSteps
<1>5. ASSUME NEW i \in DOMAIN calls, LinksAnswered(i) PROVE LinksInvariant'
  <2>1. i = 1
    BY <1>5 DEF LinksAnswered, Listed, Created, Revoked, Renamed, Dropped, Fails, Answers
  <2> QED
    BY <1>5, <2>1, ListedSteps, CreatedSteps, RevokedSteps, RenamedSteps, DroppedSteps,
       FailSteps DEF LinksAnswered
<1> QED
  BY <1>1, <1>2, <1>3, <1>4, <1>5 DEF LinksNext

LEMMA LinksInitially ==
  ASSUME LinksInit PROVE LinksInvariant
<1>1. DOMAIN madeFor = {} /\ liveLinks = {} /\ calls = <<>> /\ DOMAIN calls = {}
      /\ dialogs = [d \in Kinds |-> Unopened(d)] /\ selected = NoItem /\ vaults = Vaults
      /\ active \in Vaults
  BY DEF LinksInit
<1>2. \A d \in Kinds :
        /\ Unopened(d) \in Dialog /\ ~Unopened(d).open /\ Unopened(d).fresh = NoLink
        /\ Unopened(d).list \in {{}, Unknown}
  BY DEF Unopened, Closed, Dialog
<1>3. LinkTypes
  BY <1>1, <1>2 DEF LinkTypes
<1>4. Modal /\ Known /\ Asking
  BY <1>1, <1>2 DEF Modal, Known, Asking, Kinds
<1>5. \A d \in Kinds : ~dialogs[d].open
  BY <1>1, <1>2
<1> QED
  BY <1>3, <1>4, <1>5 DEF LinksInvariant

\* Whatever is created, revoked, renamed, dropped or lapses, and whichever items
\* and vaults are opened one after another, a dialog with nothing under way shows
\* every working link to its subject and none to anything else, for a user who
\* waits for what they asked for and answers that come in order (share-dialog.tsx
\* and vault-manage.tsx take an answer for whatever they are open on by then).
THEOREM DialogsShowExposure ==
  ASSUME Patient, AnswersInOrder PROVE LinksSpec => []ExposureIsShown
<1>1. LinksInit => LinksInvariant
  BY LinksInitially
<1>2. LinksInvariant /\ [LinksNext]_linkVars => LinksInvariant'
  BY LinksInductive
<1>3. ASSUME LinksInvariant PROVE ExposureIsShown
  <2> SUFFICES ASSUME NEW d \in Kinds, Settled(d)
               PROVE  /\ LinksOf(Subject(d)) \subseteq dialogs[d].list
                      /\ \A l \in (dialogs[d].list \cup {dialogs[d].fresh}) \ {NoLink} :
                           madeFor[l] = Subject(d)
    BY DEF ExposureIsShown
  <2>1. DialogInv(d) /\ \A i \in DOMAIN calls : ~Coming(d, i)
    BY <1>3 DEF LinksInvariant, Settled, Coming
  <2>2. Covers(dialogs[d].list, Subject(d))
    BY <2>1 DEF DialogInv, ListedInv, Settled
  <2>3. ASSUME NEW l, Minted(l) PROVE FALSE
    <3>1. PICK i \in DOMAIN calls : calls[i].what = "create" /\ calls[i].at = "served"
      BY <2>3 DEF Minted
    <3>2. calls[i] \in LinkCall /\ Asker(calls[i])
      BY <1>3 DEF LinksInvariant, LinkTypes, Asking
    <3>3. calls[i].from \in Kinds /\ dialogs[calls[i].from].open
      BY <3>1, <3>2 DEF LinkCall, Asker, Once
    <3>4. calls[i].from = d
      BY <1>3, <3>3 DEF LinksInvariant, Modal, Settled
    <3> QED
      BY <3>4 DEF Settled
  <2> QED
    BY <2>1, <2>2, <2>3 DEF Covers, DialogInv, FreshInv
<1> QED
  BY <1>1, <1>2, <1>3, PTL DEF LinksSpec

------------------------------------------------------------------------
(* One vault on screen.                                                    *)

\* What the steps need of the records' types: their fields, whatever is in them.
Shaped(x) == x = [home |-> x.home, content |-> x.content, trashed |-> x.trashed]
FormShaped(x) ==
  x = [item |-> x.item, content |-> x.content, was |-> x.was, typed |-> x.typed,
       refused |-> x.refused]
WriteShaped(x) ==
  x = [what |-> x.what, item |-> x.item, home |-> x.home, content |-> x.content,
       was |-> x.was, typed |-> x.typed, at |-> x.at]

\* Item r, as far as the server has it, is in the vault on show.
IsHere(r) == Exists(store[r]) => store[r].home = here

\* What is on screen, what the form edits and what the request in flight is
\* about are all of the vault on show: none survives a change of vault.
HomeInvariant ==
  /\ store = [r \in Rows |-> store[r]] /\ \A r \in Rows : Exists(store[r]) => Shaped(store[r])
  /\ \A r \in Shown : r \in Rows /\ Shaped(screen[r]) /\ screen[r].home = here /\ IsHere(r)
  /\ form # Nothing => FormShaped(form)
  /\ form # Nothing /\ form.item # Nothing => form.item \in Rows /\ IsHere(form.item)
  /\ write # Nothing =>
       /\ WriteShaped(write)
       /\ write.home = here
       /\ write.what \in {"create", "update", "trash", "restore", "delete"}
       /\ write.at = "sent" /\ write.what # "create" => write.item \in Rows /\ IsHere(write.item)
       /\ write.at = "served" /\ write.what \in {"create", "update"} =>
            write.item \in Rows /\ Shaped(store[write.item]) /\ store[write.item].home = here

LEMMA PageSteps ==
  ASSUME HomeInvariant, Waits = TRUE, Loaded \/ \E v \in Safes : ChooseSafe(v)
  PROVE  HomeInvariant'
<1> USE DEF HomeInvariant, Shown, IsHere, Exists
<1>1. CASE Loaded
  <2> DEFINE there == {r \in Rows : Exists(store[r]) /\ store[r].home = here}
  <2>1. screen' = [r \in there |-> store[r]] /\ UNCHANGED <<store, here, form, write>>
    BY <1>1 DEF Loaded, RowsOf
  <2>2. \A r \in Shown' : r \in there /\ screen'[r] = store[r]
    BY <2>1
  <2> QED
    BY <2>1, <2>2
<1>2. ASSUME NEW v \in Safes, ChooseSafe(v) PROVE HomeInvariant'
  <2>1. write = Nothing /\ form = Nothing /\ screen' = Nothing
        /\ UNCHANGED <<store, form, write>>
    BY <1>2 DEF ChooseSafe
  <2> QED
    BY <2>1
<1> QED
  BY <1>1, <1>2

LEMMA FormSteps ==
  ASSUME HomeInvariant,
         \/ NewItem \/ (\E r \in Rows : EditItem(r)) \/ CancelForm
         \/ (\E f \in Fields, text \in Texts : Type(f, text))
         \/ \E c \in Categories : ChooseCategory(c)
  PROVE  HomeInvariant'
<1> USE DEF HomeInvariant, Shown, IsHere, Exists
<1>1. UNCHANGED <<store, here, screen, write>>
  BY DEF NewItem, EditItem, Opens, CancelForm, Type, ChooseCategory, Changes
<1>2. form' # Nothing =>
        FormShaped(form') /\ (form'.item # Nothing => form'.item \in Rows /\ IsHere(form'.item))
  <2>1. CASE NewItem \/ CancelForm
    BY <2>1 DEF NewItem, Opens, FormOn, CancelForm, FormShaped
  <2>2. ASSUME NEW r \in Rows, EditItem(r) PROVE r \in Shown /\ form'.item = r /\ FormShaped(form')
    BY <2>2 DEF EditItem, Opens, FormOn, FormShaped
  <2>3. ASSUME NEW f \in Fields, NEW text \in Texts, Type(f, text)
        PROVE  form # Nothing /\ FormShaped(form') /\ form'.item = form.item
    BY <2>3 DEF Type, Changes, FormShaped
  <2>4. ASSUME NEW c \in Categories, ChooseCategory(c)
        PROVE  form # Nothing /\ FormShaped(form') /\ form'.item = form.item
    BY <2>4 DEF ChooseCategory, Changes, FormShaped
  <2> QED
    BY <2>1, <2>2, <2>3, <2>4
<1> QED
  BY <1>1, <1>2

\* Requests are about an item on screen, or the one the form was opened on.
LEMMA SendingSteps ==
  ASSUME HomeInvariant,
         Submit \/ \E r \in Rows : ToggleFavorite(r) \/ Trash(r) \/ Restore(r) \/ DeleteForever(r)
  PROVE  HomeInvariant'
<1> USE DEF HomeInvariant, Shown, IsHere, Exists
<1>1. CASE Submit
  <2>1. form # Nothing BY <1>1 DEF Submit
  <2>2. CASE Cleaned(form.content).text["seed"] = Unreadable
    <3>1. UNCHANGED <<store, here, screen, write>> /\ form' = [form EXCEPT !.refused = TRUE]
      BY <1>1, <2>2 DEF Submit, Changes
    <3>2. FormShaped(form') /\ form'.item = form.item
      BY <2>1, <3>1 DEF FormShaped
    <3> QED
      BY <2>1, <3>1, <3>2
  <2>3. CASE Cleaned(form.content).text["seed"] # Unreadable
    <3>1. UNCHANGED <<store, here, screen, form>>
          /\ write'.home = here /\ write'.item = form.item /\ WriteShaped(write')
          /\ write'.what = (IF form.item = Nothing THEN "create" ELSE "update")
          /\ write'.at = "sent"
      BY <1>1, <2>3 DEF Submit, Sends, WriteShaped
    <3> QED
      BY <2>1, <3>1
  <2> QED
    BY <2>2, <2>3
<1>2. ASSUME NEW r \in Rows, NEW what \in {"update", "trash", "restore", "delete"},
             NEW content, NEW was, NEW typed, OnItem(what, r, content, was, typed)
      PROVE  HomeInvariant'
  <2>1. UNCHANGED <<store, here, screen, form>> /\ r \in Shown
        /\ write'.home = here /\ write'.item = r /\ WriteShaped(write') /\ write'.at = "sent"
        /\ write'.what = what
    BY <1>2 DEF OnItem, Sends, WriteShaped
  <2> QED
    BY <2>1
<1>3. ASSUME NEW r \in Rows, ToggleFavorite(r) \/ Trash(r) \/ Restore(r) \/ DeleteForever(r)
      PROVE  HomeInvariant'
  BY <1>3, <1>2 DEF ToggleFavorite, Trash, Restore, DeleteForever, Moves
<1> QED
  BY <1>1, <1>3

\* The server keeps an item in its vault, and puts a new one in the request's.
LEMMA ServerSteps ==
  ASSUME HomeInvariant, StoreNew \/ StoreWrite \/ \E r \in Rows : OtherDevice(r)
  PROVE  HomeInvariant'
<1> USE DEF HomeInvariant, Shown, IsHere, Exists
<1>1. CASE StoreNew
  <2>1. PICK r \in Rows :
          /\ store[r] = Unborn /\ write # Nothing /\ UNCHANGED <<here, screen, form>>
          /\ store' = [store EXCEPT ![r] = [home |-> write.home, content |-> write.content,
                                           trashed |-> FALSE]]
          /\ write' = [write EXCEPT !.at = "served", !.item = r]
    BY <1>1 DEF StoreNew, Stores
  <2>2. store' = [q \in Rows |-> store'[q]]
        /\ (\A q \in Rows \ {r} : store'[q] = store[q])
        /\ Shaped(store'[r]) /\ store'[r].home = here
    BY <2>1 DEF Shaped
  <2>3. WriteShaped(write') /\ write'.item = r /\ write'.at = "served"
        /\ write'.home = write.home /\ write'.what = write.what
    BY <2>1 DEF WriteShaped
  <2> QED
    BY <2>1, <2>2, <2>3
<1>2. CASE StoreWrite
  <2> DEFINE i == write.item
  <2>1. /\ write # Nothing /\ write.what # "create" /\ write.at = "sent" /\ Exists(store[i])
        /\ UNCHANGED <<here, screen, form>> /\ write' = [write EXCEPT !.at = "served"]
        /\ \/ write.what = "update" /\ store' = [store EXCEPT ![i].content = write.content]
           \/ write.what = "delete" /\ store' = [store EXCEPT ![i] = Gone]
           \/ /\ write.what \notin {"update", "delete"}
              /\ store' = [store EXCEPT ![i].trashed = (write.what = "trash")]
    BY <1>2 DEF StoreWrite, Stores
  <2>2. i \in Rows /\ Shaped(store[i]) /\ store[i].home = here
    BY <2>1
  <2>3. store' = [q \in Rows |-> store'[q]]
        /\ (\A q \in Rows \ {i} : store'[q] = store[q])
        /\ IF write.what = "delete" THEN store'[i] = Gone
           ELSE Shaped(store'[i]) /\ store'[i].home = here
    BY <2>1, <2>2 DEF Shaped
  <2>4. WriteShaped(write') /\ write'.item = i /\ write'.at = "served"
        /\ write'.home = write.home /\ write'.what = write.what
    BY <2>1 DEF WriteShaped
  <2> QED
    BY <2>1, <2>2, <2>3, <2>4
<1>3. ASSUME NEW r \in Rows, OtherDevice(r) PROVE HomeInvariant'
  <2>1. PICK w \in Words : store' = [store EXCEPT ![r].content.text["notes"] = w]
    BY <1>3 DEF OtherDevice
  <2>2. Exists(store[r]) /\ UNCHANGED <<here, screen, form, write>>
    BY <1>3 DEF OtherDevice
  <2> DEFINE changed == [store[r].content EXCEPT !.text["notes"] = w]
  <2>6. store' = [store EXCEPT ![r].content = changed]
    BY <2>1
  <2> HIDE DEF changed
  <2>3. store' = [q \in Rows |-> store'[q]]
        /\ (\A q \in Rows \ {r} : store'[q] = store[q])
        /\ Shaped(store'[r]) /\ store'[r].home = store[r].home
    BY <2>2, <2>6 DEF Shaped
  <2>4. \A q \in Rows :
          /\ Exists(store'[q]) => Exists(store[q])
          /\ store'[q].home = store[q].home
          /\ Shaped(store[q]) => Shaped(store'[q])
    BY <2>2, <2>3
  <2>5. ASSUME write # Nothing, write.at = "served", write.what \in {"create", "update"}
        PROVE  /\ write.item \in Rows
               /\ Shaped(store'[write.item]) /\ store'[write.item].home = here
    <3>1. write.item \in Rows /\ Shaped(store[write.item]) /\ store[write.item].home = here
      BY <2>5
    <3> HIDE DEF HomeInvariant
    <3> QED
      BY <2>4, <3>1
  <2>7. \A q \in Rows : IsHere(q) => IsHere(q)'
    <3> HIDE DEF HomeInvariant
    <3> QED
      BY <2>2, <2>4
  <2> QED
    BY <2>2, <2>3, <2>4, <2>5, <2>7
<1> QED
  BY <1>1, <1>2, <1>3

LEMMA AnswerSteps ==
  ASSUME HomeInvariant, Answered \/ WriteFails
  PROVE  HomeInvariant'
<1> USE DEF HomeInvariant, Shown, IsHere, Exists
<1>1. CASE WriteFails
  BY <1>1 DEF WriteFails
<1>2. CASE Answered
  <2>1. /\ write # Nothing /\ write.at = "served" /\ screen' = Applied /\ write' = Nothing
        /\ form' \in {form, Nothing} /\ UNCHANGED <<store, here>>
    BY <1>2 DEF Answered
  <2>6. screen = Nothing => Shown' = {}
    BY <2>1 DEF Applied
  <2> SUFFICES ASSUME NEW i \in Shown', screen # Nothing
               PROVE  i \in Rows /\ Shaped(screen'[i]) /\ screen'[i].home = here /\ IsHere(i)
    BY <2>1, <2>6
  <2>2. CASE write.what \in {"create", "update"}
    <3>0. screen' = WithSaved
      BY <2>1, <2>2 DEF Applied
    <3>1. /\ DOMAIN screen' = DOMAIN screen \cup {write.item}
          /\ \A q \in DOMAIN screen \ {write.item} : screen'[q] = screen[q]
          /\ screen'[write.item] = [store[write.item] EXCEPT !.content = write.content]
      <4> HIDE DEF HomeInvariant
      <4> QED
        BY <3>0 DEF WithSaved
    <3>2. write.item \in Rows /\ Shaped(store[write.item]) /\ store[write.item].home = here
      BY <2>1, <2>2
    <3>3. Shaped(screen'[write.item]) /\ screen'[write.item].home = here
      BY <3>1, <3>2 DEF Shaped
    <3> QED
      BY <3>1, <3>2, <3>3
  <2>3. CASE write.what = "delete"
    <3>0. screen' = Restrict(screen, Shown \ {write.item})
      BY <2>1, <2>3 DEF Applied
    <3>1. DOMAIN screen' = DOMAIN screen \ {write.item} /\ \A q \in DOMAIN screen' : screen'[q] = screen[q]
      BY <3>0 DEF Restrict
    <3> QED
      BY <2>1, <3>1
  <2>4. CASE write.what \in {"trash", "restore"} /\ write.item \in DOMAIN screen
    <3>1. screen' = [screen EXCEPT ![write.item].trashed = (write.what = "trash")]
      BY <2>1, <2>4 DEF Applied
    <3>2. DOMAIN screen' = DOMAIN screen
          /\ (\A q \in DOMAIN screen \ {write.item} : screen'[q] = screen[q])
          /\ Shaped(screen'[write.item])
          /\ screen'[write.item].home = screen[write.item].home
      BY <2>4, <3>1 DEF Shaped
    <3> QED
      BY <2>4, <3>2
  <2>5. CASE write.what \in {"trash", "restore"} /\ write.item \notin DOMAIN screen
    BY <2>1, <2>5 DEF Applied
  <2> QED
    BY <2>1, <2>2, <2>3, <2>4, <2>5
<1> QED
  BY <1>1, <1>2

\* Whatever is saved, moved, loaded or switched to, the items on screen are of
\* the vault on show, for a user who lets each write finish before choosing
\* another vault (applyWrite, vault.tsx:251-258, does not compare the vaults).
THEOREM OneVaultOnScreen ==
  ASSUME Waits = TRUE PROVE FormSpec => []ScreenShowsOneVault
<1>1. FormInit => HomeInvariant
  <2> SUFFICES ASSUME FormInit PROVE HomeInvariant
    OBVIOUS
  <2>1. store = [r \in Rows |-> store[r]] /\ screen = Nothing /\ form = Nothing /\ write = Nothing
    BY DEF FormInit
  <2>2. \A r \in Rows : Exists(store[r]) => Shaped(store[r])
    BY DEF FormInit, Exists, Shaped
  <2> QED
    BY <2>1, <2>2 DEF HomeInvariant, Shown
<1>2. HomeInvariant /\ [FormNext]_formVars => HomeInvariant'
  <2> SUFFICES ASSUME HomeInvariant, [FormNext]_formVars PROVE HomeInvariant'
    OBVIOUS
  <2>1. CASE UNCHANGED formVars
    BY <2>1 DEF HomeInvariant, Shown, IsHere, Exists, formVars
  <2>2. CASE FormNext
    BY <2>2, PageSteps, FormSteps, SendingSteps, ServerSteps, AnswerSteps DEF FormNext
  <2> QED
    BY <2>1, <2>2
<1>3. HomeInvariant => ScreenShowsOneVault
  BY DEF HomeInvariant, ScreenShowsOneVault
<1> QED
  BY <1>1, <1>2, <1>3, PTL DEF FormSpec

------------------------------------------------------------------------
(* What a save keeps.                                                      *)

ContentShaped(c) ==
  /\ c = [text |-> c.text, category |-> c.category, favorite |-> c.favorite]
  /\ c.text = [f \in Fields |-> c.text[f]]

\* The seeds the form stores: their own normal form.
NormalSeed(t) == t # Unreadable /\ NormalizeTotpInput(t) = t

\* What is stored would be sealed as it is.
Storable(c) ==
  /\ ContentShaped(c)
  /\ \A f \in Fields : Sealed(f, c, c.text[f]) = c.text[f]
  /\ c.text["seed"] = Blank \/ NormalSeed(c.text["seed"])

\* c is d, but for what was typed.
Agrees(c, d, typed) ==
  /\ c.category = d.category /\ ("favorite" \notin typed => c.favorite = d.favorite)
  /\ \A f \in Fields \ typed : c.text[f] = d.text[f]

Editable(c) ==
  /\ ContentShaped(c)
  /\ c.text["seed"] = Blank \/ c.text["seed"] \in Seeds \/ NormalSeed(c.text["seed"])

\* The form holds what the item was when it was opened, but for what was typed.
FormInv ==
  form # Nothing =>
    /\ FormShaped(form) /\ Editable(form.content)
    /\ form.item # Nothing =>
         form.item \in Rows /\ Storable(form.was) /\ Agrees(form.content, form.was, form.typed)

\* So does a request, which may be stored as it is; what it saved is there.
WriteInv ==
  write # Nothing =>
    /\ WriteShaped(write)
    /\ write.what \in {"create", "update", "trash", "restore", "delete"}
    /\ write.what # "create" => write.item \in Rows
    /\ write.what \in {"create", "update"} => Storable(write.content)
    /\ write.what = "update" => Agrees(write.content, write.was, write.typed)
    /\ write.what \in {"create", "update"} /\ write.at = "served" =>
         write.item \in Rows /\ Shaped(store[write.item])

StoreInv ==
  /\ store = [r \in Rows |-> store[r]]
  /\ \A r \in Rows : Exists(store[r]) => Shaped(store[r]) /\ Storable(store[r].content)

ScreenInv == \A r \in Shown : Shaped(screen[r]) /\ Storable(screen[r].content)

SaveInvariant == StoreInv /\ ScreenInv /\ FormInv /\ WriteInv

\* A seed in its normal form stays as it is (a property of Clean, which TLC checks).
SeedsNormalise ==
  \A t \in Seeds : NormalizeTotpInput(t) # Unreadable => NormalSeed(NormalizeTotpInput(t))

\* What goes into a request may be stored, and keeps what was not typed.
LEMMA CleanedIsStorable ==
  ASSUME SeedsNormalise, NEW c, Editable(c), Cleaned(c).text["seed"] # Unreadable
  PROVE  Storable(Cleaned(c))
<1>1. PICK d : d = Cleaned(c)
  OBVIOUS
<1>2. /\ d.category = c.category /\ ContentShaped(d)
      /\ \A f \in Fields : d.text[f] = Sealed(f, c, c.text[f])
  BY <1>1 DEF Cleaned, Editable, ContentShaped
<1>3. d.text["seed"] = Blank \/ NormalSeed(d.text["seed"])
  <2>1. d.text["seed"] = Sealed("seed", c, c.text["seed"])
    BY <1>2 DEF Fields
  <2>2. \/ d.text["seed"] = Blank
        \/ c.text["seed"] # Blank /\ d.text["seed"] = NormalizeTotpInput(c.text["seed"])
    BY <2>1 DEF Sealed
  <2> QED
    BY <1>1, <2>2 DEF SeedsNormalise, Editable, NormalSeed
<1>4. ASSUME NEW f \in Fields PROVE Sealed(f, d, d.text[f]) = d.text[f]
  <2>1. d.text[f] = Sealed(f, c, c.text[f])
    BY <1>2
  <2>2. CASE f # "seed"
    BY <1>2, <2>1, <2>2 DEF Sealed
  <2>3. CASE f = "seed"
    BY <1>2, <1>3, <2>1, <2>3 DEF Sealed, NormalSeed
  <2> QED
    BY <2>2, <2>3
<1> QED
  BY <1>1, <1>2, <1>3, <1>4 DEF Storable

LEMMA CleanedAgrees ==
  ASSUME NEW c, NEW d, NEW typed, ContentShaped(c), Storable(d), Agrees(c, d, typed)
  PROVE  Agrees(Cleaned(c), d, typed)
<1>1. PICK e : e = Cleaned(c)
  OBVIOUS
<1>2. /\ e.category = c.category /\ e.favorite = c.favorite
      /\ \A f \in Fields : e.text[f] = Sealed(f, c, c.text[f])
  BY <1>1 DEF Cleaned, ContentShaped
<1>3. ASSUME NEW f \in Fields \ typed PROVE e.text[f] = d.text[f]
  <2>1. c.text[f] = d.text[f] /\ c.category = d.category /\ Sealed(f, d, d.text[f]) = d.text[f]
    BY DEF Agrees, Storable
  <2>2. Sealed(f, c, c.text[f]) = Sealed(f, d, d.text[f])
    BY <2>1 DEF Sealed
  <2> QED
    BY <1>2, <2>1, <2>2
<1> QED
  BY <1>1, <1>2, <1>3 DEF Agrees

LEMMA EditSteps ==
  ASSUME SaveInvariant,
         \/ NewItem \/ (\E r \in Rows : EditItem(r))
         \/ (\E f \in Fields, text \in Texts : Type(f, text))
         \/ (\E c \in Categories : ChooseCategory(c))
  PROVE  SaveInvariant'
<1>0. /\ UNCHANGED <<store, screen, write>>
      /\ StoreInv /\ ScreenInv /\ FormInv /\ WriteInv
  BY DEF NewItem, EditItem, Opens, Type, ChooseCategory, Changes, SaveInvariant
<1>1. SUFFICES FormInv'
  BY <1>0 DEF SaveInvariant, StoreInv, ScreenInv, Shown, WriteInv
<1>2. CASE NewItem
  <2>1. form' = FormOn(Nothing, Empty)
    BY <1>2 DEF NewItem, Opens
  <2>2. FormShaped(form') /\ form'.item = Nothing /\ form'.content = Empty
    BY <2>1 DEF FormOn, FormShaped
  <2>3. Editable(Empty)
    BY DEF Empty, Editable, ContentShaped, Fields
  <2> QED
    BY <2>2, <2>3 DEF FormInv
<1>3. ASSUME NEW r \in Rows, EditItem(r) PROVE FormInv'
  <2>1. r \in Shown /\ form' = FormOn(r, screen[r].content)
    BY <1>3 DEF EditItem, Opens
  <2>2. /\ FormShaped(form') /\ form'.item = r /\ form'.content = screen[r].content
        /\ form'.was = screen[r].content /\ form'.typed = {}
    BY <2>1 DEF FormOn, FormShaped
  <2>3. Storable(screen[r].content)
    BY <1>0, <2>1 DEF ScreenInv
  <2> QED
    BY <2>2, <2>3 DEF FormInv, Storable, Editable, Agrees
<1>4. ASSUME NEW f \in Fields, NEW text, Type(f, text) PROVE FormInv'
  <2>1. /\ form # Nothing
        /\ form' = [form EXCEPT !.content.text[f] = text, !.typed = @ \cup {f},
                                !.refused = @ /\ f # "seed"]
        /\ (f = "seed" => text \in Seeds \cup {Blank})
    BY <1>4 DEF Type, Changes
  <2>2. FormShaped(form) /\ Editable(form.content)
    BY <1>0, <2>1 DEF FormInv
  <2>3. PICK c : c = [form.content EXCEPT !.text[f] = text]
    OBVIOUS
  <2>4. FormShaped(form') /\ form'.item = form.item /\ form'.content = c
        /\ form'.was = form.was /\ form'.typed = form.typed \cup {f}
    BY <2>1, <2>2, <2>3 DEF FormShaped
  <2>5. /\ Editable(c) /\ c.category = form.content.category
        /\ c.favorite = form.content.favorite
        /\ \A g \in Fields \ {f} : c.text[g] = form.content.text[g]
    <3>1. PICK t : t = [form.content.text EXCEPT ![f] = text]
      OBVIOUS
    <3>2. c = [form.content EXCEPT !.text = t]
      BY <2>3, <3>1
    <3>3. t = [g \in Fields |-> t[g]] /\ t[f] = text
          /\ \A g \in Fields \ {f} : t[g] = form.content.text[g]
      BY <2>2, <3>1 DEF Editable, ContentShaped
    <3>4. c.text = t /\ c.category = form.content.category /\ c.favorite = form.content.favorite
          /\ ContentShaped(c)
      BY <2>2, <3>2, <3>3 DEF Editable, ContentShaped
    <3>5. f # "seed" => t["seed"] = form.content.text["seed"]
      BY <3>3 DEF Fields
    <3> QED
      BY <2>1, <2>2, <3>3, <3>4, <3>5 DEF Editable
  <2>6. form.item # Nothing => Agrees(c, form.was, form.typed \cup {f})
    BY <1>0, <2>1, <2>5 DEF FormInv, Agrees
  <2> QED
    BY <1>0, <2>1, <2>4, <2>5, <2>6 DEF FormInv
<1>5. ASSUME NEW k \in Categories, ChooseCategory(k) PROVE FormInv'
  <2>1. /\ form # Nothing /\ form.item = Nothing
        /\ form' = [form EXCEPT !.content.category = k, !.typed = @ \cup {"category"}]
    BY <1>5 DEF ChooseCategory, Changes
  <2>2. FormShaped(form) /\ Editable(form.content)
    BY <1>0, <2>1 DEF FormInv
  <2>3. PICK c : c = [form.content EXCEPT !.category = k]
    OBVIOUS
  <2>4. FormShaped(form') /\ form'.item = Nothing /\ form'.content = c
    BY <2>1, <2>2, <2>3 DEF FormShaped
  <2>5. Editable(c)
    BY <2>2, <2>3 DEF Editable, ContentShaped
  <2> QED
    BY <2>4, <2>5 DEF FormInv
<1> QED
  BY <1>2, <1>3, <1>4, <1>5

LEMMA SaveSteps ==
  ASSUME SaveInvariant, SeedsNormalise,
         Submit \/ \E r \in Rows : ToggleFavorite(r) \/ Trash(r) \/ Restore(r) \/ DeleteForever(r)
  PROVE  SaveInvariant'
<1>0. StoreInv /\ ScreenInv /\ FormInv /\ WriteInv
  BY DEF SaveInvariant
<1>1. UNCHANGED <<store, screen>>
  BY DEF Submit, Changes, Sends, ToggleFavorite, Trash, Restore, DeleteForever, Moves, OnItem
<1>2. StoreInv' /\ ScreenInv'
  BY <1>0, <1>1 DEF StoreInv, ScreenInv, Shown
<1>3. CASE Submit /\ Cleaned(form.content).text["seed"] = Unreadable
  <2>1. form # Nothing /\ write = Nothing /\ write' = write
        /\ form' = [form EXCEPT !.refused = TRUE]
    BY <1>3 DEF Submit, Changes
  <2>2. FormShaped(form') /\ form'.item = form.item /\ form'.content = form.content
        /\ form'.was = form.was /\ form'.typed = form.typed
    BY <1>0, <2>1 DEF FormInv, FormShaped
  <2> QED
    BY <1>0, <1>2, <2>1, <2>2 DEF SaveInvariant, FormInv, WriteInv
<1>4. CASE Submit /\ Cleaned(form.content).text["seed"] # Unreadable
  <2>1. /\ form # Nothing /\ form' = form
        /\ write' = [what |-> IF form.item = Nothing THEN "create" ELSE "update",
                     item |-> form.item, home |-> here, content |-> Cleaned(form.content),
                     was |-> form.was,
                     typed |-> IF form.item = Nothing THEN {} ELSE form.typed, at |-> "sent"]
    BY <1>4 DEF Submit, Sends
  <2>2. /\ WriteShaped(write') /\ write'.item = form.item /\ write'.at = "sent"
        /\ write'.content = Cleaned(form.content) /\ write'.was = form.was
        /\ write'.what = (IF form.item = Nothing THEN "create" ELSE "update")
        /\ (form.item # Nothing => write'.typed = form.typed)
    BY <2>1 DEF WriteShaped
  <2>3. Editable(form.content)
    BY <1>0, <2>1 DEF FormInv
  <2>4. Storable(write'.content)
    BY <1>4, <2>2, <2>3, CleanedIsStorable
  <2>5. FormInv'
    BY <1>0, <2>1 DEF FormInv
  <2>6. ASSUME form.item # Nothing
        PROVE  form.item \in Rows /\ Agrees(write'.content, write'.was, write'.typed)
    <3>1. /\ form.item \in Rows /\ Storable(form.was)
          /\ Agrees(form.content, form.was, form.typed)
      BY <1>0, <2>1, <2>6 DEF FormInv
    <3>2. Agrees(Cleaned(form.content), form.was, form.typed)
      BY <2>3, <3>1, CleanedAgrees DEF Editable
    <3> QED
      BY <2>2, <2>6, <3>1, <3>2
  <2>7. WriteInv'
    BY <2>2, <2>4, <2>6 DEF WriteInv
  <2> QED
    BY <1>2, <2>5, <2>7 DEF SaveInvariant
<1>5. ASSUME NEW r \in Rows, NEW what \in {"trash", "restore", "delete"},
             NEW content, NEW was, NEW typed, OnItem(what, r, content, was, typed)
      PROVE  SaveInvariant'
  <2>1. /\ form' = form /\ WriteShaped(write') /\ write'.what = what /\ write'.item = r
    BY <1>5 DEF OnItem, Sends, WriteShaped
  <2> QED
    BY <1>0, <1>2, <2>1 DEF SaveInvariant, FormInv, WriteInv
<1>6. ASSUME NEW r \in Rows, ToggleFavorite(r) PROVE SaveInvariant'
  <2>1. PICK d : d = screen[r].content
    OBVIOUS
  <2>2. PICK c : c = [d EXCEPT !.favorite = ~@]
    OBVIOUS
  <2>3. /\ r \in Shown /\ form' = form /\ WriteShaped(write')
        /\ write'.what = "update" /\ write'.item = r /\ write'.content = c
        /\ write'.was = d /\ write'.typed = {"favorite"} /\ write'.at = "sent"
    BY <1>6, <2>1, <2>2 DEF ToggleFavorite, OnItem, Sends, WriteShaped
  <2>4. Storable(d)
    BY <1>0, <2>1, <2>3 DEF ScreenInv
  <2>5. ContentShaped(c) /\ c.text = d.text /\ c.category = d.category
    BY <2>2, <2>4 DEF Storable, ContentShaped
  <2>6. \A f \in Fields : Sealed(f, c, c.text[f]) = c.text[f]
    BY <2>4, <2>5 DEF Storable, Sealed
  <2>7. Storable(c) /\ Agrees(c, d, {"favorite"})
    BY <2>4, <2>5, <2>6 DEF Storable, Agrees
  <2> QED
    BY <1>0, <1>2, <2>3, <2>7 DEF SaveInvariant, FormInv, WriteInv
<1> QED
  BY <1>3, <1>4, <1>5, <1>6 DEF Trash, Restore, DeleteForever, Moves

\* What the server stores is what was on screen, changed only where it was typed.
OnlyTyped(r) ==
  Exists(store[r]) /\ Exists(store'[r]) =>
    /\ \A f \in Fields : store'[r].content.text[f] # Before(r).text[f] => f \in write.typed
    /\ store'[r].content.favorite # Before(r).favorite => "favorite" \in write.typed
    /\ store'[r].content.category = Before(r).category

LEMMA StoreSteps ==
  ASSUME SaveInvariant, StoreNew \/ StoreWrite
  PROVE  SaveInvariant' /\ \A r \in Rows : OnlyTyped(r)
<1>0. StoreInv /\ ScreenInv /\ FormInv /\ WriteInv
  BY DEF SaveInvariant
<1>1. UNCHANGED <<screen, form>>
  BY DEF StoreNew, StoreWrite, Stores
<1>2. ScreenInv' /\ FormInv'
  BY <1>0, <1>1 DEF ScreenInv, Shown, FormInv
<1>3. CASE StoreNew
  <2>1. PICK r \in Rows :
          /\ store[r] = Unborn /\ write # Nothing /\ write.what = "create"
          /\ store' = [store EXCEPT ![r] = [home |-> write.home, content |-> write.content,
                                           trashed |-> FALSE]]
          /\ write' = [write EXCEPT !.at = "served", !.item = r]
    BY <1>3 DEF StoreNew, Stores
  <2>2. Storable(write.content)
    BY <1>0, <2>1 DEF WriteInv
  <2>3. /\ store' = [q \in Rows |-> store'[q]]
        /\ \A q \in Rows \ {r} : store'[q] = store[q]
        /\ Shaped(store'[r]) /\ store'[r].content = write.content
    BY <1>0, <2>1 DEF StoreInv, Shaped
  <2>4. WriteShaped(write') /\ write'.what = "create" /\ write'.at = "served" /\ write'.item = r
        /\ write'.content = write.content
    BY <1>0, <2>1 DEF WriteInv, WriteShaped
  <2>5. StoreInv'
    BY <1>0, <2>2, <2>3 DEF StoreInv
  <2>6. WriteInv'
    BY <2>2, <2>3, <2>4 DEF WriteInv
  <2>7. \A q \in Rows : OnlyTyped(q)
    BY <2>1, <2>3 DEF OnlyTyped, Before, Exists
  <2> QED
    BY <1>2, <2>5, <2>6, <2>7 DEF SaveInvariant
<1>4. CASE StoreWrite
  <2>0. PICK i : i = write.item
    OBVIOUS
  <2>1. /\ write # Nothing /\ write.what # "create" /\ Exists(store[i])
        /\ write' = [write EXCEPT !.at = "served"]
        /\ \/ write.what = "update" /\ store' = [store EXCEPT ![i].content = write.content]
           \/ write.what = "delete" /\ store' = [store EXCEPT ![i] = Gone]
           \/ /\ write.what \notin {"update", "delete"}
              /\ store' = [store EXCEPT ![i].trashed = (write.what = "trash")]
    BY <1>4, <2>0 DEF StoreWrite, Stores
  <2>2. i \in Rows /\ Shaped(store[i]) /\ Storable(store[i].content)
    BY <1>0, <2>0, <2>1 DEF StoreInv, WriteInv
  <2>3. /\ store' = [q \in Rows |-> store'[q]]
        /\ \A q \in Rows \ {i} : store'[q] = store[q]
        /\ IF write.what = "delete" THEN store'[i] = Gone
           ELSE /\ Shaped(store'[i])
                /\ store'[i].content = IF write.what = "update" THEN write.content
                                       ELSE store[i].content
    BY <1>0, <2>1, <2>2 DEF StoreInv, Shaped
  <2>4. /\ WriteShaped(write') /\ write'.what = write.what /\ write'.item = i
        /\ write'.content = write.content /\ write'.was = write.was /\ write'.typed = write.typed
    BY <1>0, <2>0, <2>1 DEF WriteInv, WriteShaped
  <2>5. write.what = "update" =>
          Storable(write.content) /\ Agrees(write.content, write.was, write.typed)
    BY <1>0, <2>1 DEF WriteInv
  <2>6. StoreInv'
    BY <1>0, <2>2, <2>3, <2>5 DEF StoreInv, Exists
  <2>7. WriteInv'
    BY <1>0, <2>1, <2>2, <2>3, <2>4, <2>5 DEF WriteInv
  <2>8. ASSUME NEW q \in Rows PROVE OnlyTyped(q)
    <3>1. CASE q # i
      BY <2>0, <2>3, <3>1 DEF OnlyTyped, Before
    <3>2. CASE q = i
      BY <2>0, <2>1, <2>3, <2>5, <3>2 DEF OnlyTyped, Before, Agrees, Exists
    <3> QED
      BY <3>1, <3>2
  <2> QED
    BY <1>2, <2>6, <2>7, <2>8 DEF SaveInvariant
<1> QED
  BY <1>3, <1>4

LEMMA OtherSteps ==
  ASSUME SaveInvariant, NEW r \in Rows, OtherDevice(r)
  PROVE  SaveInvariant'
<1>0. StoreInv /\ ScreenInv /\ FormInv /\ WriteInv
  BY DEF SaveInvariant
<1>1. PICK w \in Words : store' = [store EXCEPT ![r].content.text["notes"] = w]
  BY DEF OtherDevice
<1>2. Exists(store[r]) /\ UNCHANGED <<screen, form, write>>
  BY DEF OtherDevice
<1>3. PICK t : t = [store[r].content.text EXCEPT !["notes"] = w]
  OBVIOUS
<1>4. PICK c : c = [store[r].content EXCEPT !.text = t]
  OBVIOUS
<1>5. store' = [store EXCEPT ![r].content = c]
  BY <1>1, <1>3, <1>4
<1>6. Shaped(store[r]) /\ Storable(store[r].content)
  BY <1>0, <1>2 DEF StoreInv
<1>7. /\ store' = [q \in Rows |-> store'[q]]
      /\ \A q \in Rows \ {r} : store'[q] = store[q]
      /\ Shaped(store'[r]) /\ store'[r].content = c
  BY <1>0, <1>5, <1>6 DEF StoreInv, Shaped
<1>8. t = [f \in Fields |-> t[f]] /\ \A f \in Fields \ {"notes"} : t[f] = store[r].content.text[f]
  BY <1>3, <1>6 DEF Storable, ContentShaped
<1>9. ContentShaped(c) /\ c.text = t /\ c.category = store[r].content.category
  BY <1>4, <1>6, <1>8 DEF Storable, ContentShaped
<1>10. ASSUME NEW f \in Fields PROVE Sealed(f, c, c.text[f]) = c.text[f]
  <2>1. CASE f = "notes"
    BY <1>9, <2>1 DEF Sealed
  <2>2. CASE f # "notes"
    <3>1. c.text[f] = store[r].content.text[f]
      BY <1>8, <1>9, <2>2
    <3> QED
      BY <1>6, <1>9, <3>1 DEF Storable, Sealed
  <2> QED
    BY <2>1, <2>2
<1>11. c.text["seed"] = store[r].content.text["seed"]
  BY <1>8, <1>9 DEF Fields
<1>12. Storable(c)
  BY <1>6, <1>9, <1>10, <1>11 DEF Storable
<1>13. StoreInv'
  BY <1>0, <1>7, <1>12 DEF StoreInv
<1>14. ScreenInv' /\ FormInv' /\ WriteInv'
  BY <1>0, <1>2, <1>7 DEF ScreenInv, Shown, FormInv, WriteInv
<1> QED
  BY <1>13, <1>14 DEF SaveInvariant

\* The page, and the answers: what is shown was stored, or is what was saved.
LEMMA ScreenSteps ==
  ASSUME SaveInvariant, Loaded \/ (\E v \in Safes : ChooseSafe(v)) \/ CancelForm
                        \/ WriteFails \/ Answered
  PROVE  SaveInvariant'
<1>0. StoreInv /\ ScreenInv /\ FormInv /\ WriteInv
  BY DEF SaveInvariant
<1>1. UNCHANGED store /\ form' \in {form, Nothing} /\ write' \in {write, Nothing}
  BY DEF Loaded, ChooseSafe, CancelForm, WriteFails, Answered
<1>2. StoreInv' /\ FormInv' /\ WriteInv'
  BY <1>0, <1>1 DEF StoreInv, FormInv, WriteInv
<1>3. SUFFICES ScreenInv'
  BY <1>2 DEF SaveInvariant
<1>4. CASE Loaded
  <2>1. screen' = RowsOf(here)
    BY <1>4 DEF Loaded
  <2>2. ASSUME NEW r \in Shown'
        PROVE  r \in Rows /\ Exists(store[r]) /\ screen'[r] = store[r]
    BY <2>1, <2>2 DEF Shown, RowsOf
  <2> QED
    BY <1>0, <2>2 DEF ScreenInv, StoreInv
<1>5. CASE (\E v \in Safes : ChooseSafe(v)) \/ CancelForm \/ WriteFails
  <2>1. screen' \in {screen, Nothing}
    BY <1>5 DEF ChooseSafe, CancelForm, WriteFails
  <2> QED
    BY <1>0, <2>1 DEF ScreenInv, Shown
<1>6. CASE Answered
  <2>1. write # Nothing /\ write.at = "served" /\ screen' = Applied
    BY <1>6 DEF Answered
  <2>2. CASE screen = Nothing
    BY <2>1, <2>2 DEF Applied, ScreenInv, Shown
  <2>3. CASE screen # Nothing /\ write.what \in {"create", "update"}
    <3>1. screen' = WithSaved /\ Shown = DOMAIN screen
      BY <2>1, <2>3 DEF Applied, Shown
    <3>2. Shaped(store[write.item]) /\ Storable(write.content)
      BY <1>0, <2>1, <2>3 DEF WriteInv
    <3>3. ASSUME NEW r \in Shown'
          PROVE  IF r = write.item
                 THEN screen'[r] = [store[r] EXCEPT !.content = write.content]
                 ELSE r \in Shown /\ screen'[r] = screen[r]
      BY <3>1, <3>3 DEF WithSaved, Shown
    <3>4. ASSUME NEW r \in Shown' PROVE Shaped(screen'[r]) /\ Storable(screen'[r].content)
      <4>1. CASE r = write.item
        BY <3>2, <3>3, <4>1 DEF Shaped
      <4>2. CASE r # write.item
        BY <1>0, <3>3, <4>2 DEF ScreenInv
      <4> QED
        BY <4>1, <4>2
    <3> QED
      BY <3>4 DEF ScreenInv
  <2>4. CASE screen # Nothing /\ write.what = "delete"
    <3>1. screen' = Restrict(screen, Shown \ {write.item}) /\ Shown = DOMAIN screen
      BY <2>1, <2>4 DEF Applied, Shown
    <3>2. ASSUME NEW r \in Shown' PROVE r \in Shown /\ screen'[r] = screen[r]
      BY <3>1, <3>2 DEF Restrict, Shown
    <3> QED
      BY <1>0, <3>2 DEF ScreenInv
  <2>5. CASE screen # Nothing /\ write.what \in {"trash", "restore"} /\ write.item \in Shown
    <3>1. /\ screen' = [screen EXCEPT ![write.item].trashed = (write.what = "trash")]
          /\ Shown = DOMAIN screen
      BY <2>1, <2>5 DEF Applied, Shown
    <3>2. Shaped(screen[write.item]) /\ Storable(screen[write.item].content)
      BY <1>0, <2>5 DEF ScreenInv
    <3>3. Shaped(screen'[write.item]) /\ screen'[write.item].content = screen[write.item].content
      BY <2>5, <3>1, <3>2 DEF Shaped
    <3>4. ASSUME NEW r \in Shown', r # write.item PROVE r \in Shown /\ screen'[r] = screen[r]
      BY <3>1, <3>4 DEF Shown
    <3> QED
      BY <1>0, <3>2, <3>3, <3>4 DEF ScreenInv
  <2>6. CASE screen # Nothing /\ write.what \in {"trash", "restore"} /\ write.item \notin Shown
    <3>1. screen' = screen
      BY <2>1, <2>6 DEF Applied
    <3> QED
      BY <1>0, <3>1 DEF ScreenInv, Shown
  <2> QED
    BY <1>0, <2>1, <2>2, <2>3, <2>4, <2>5, <2>6 DEF WriteInv
<1> QED
  BY <1>4, <1>5, <1>6

\* Whatever is typed, starred, moved or refused, whichever request fails or
\* succeeds behind the user's back, and whatever other devices do, a save stores
\* what was on screen when it was opened with what the user changed, no more, and
\* no seed that the detail pane cannot read (item-form.tsx:45-77 seals every
\* field of the item again on each save), for seeds whose normal form is stable.
THEOREM SavesKeepTheRest ==
  ASSUME SeedsNormalise PROVE FormSpec => SavesOnlyWhatWasTyped
<1>1. FormInit => SaveInvariant
  <2> SUFFICES ASSUME FormInit PROVE SaveInvariant
    OBVIOUS
  <2>1. /\ screen = Nothing /\ form = Nothing /\ write = Nothing
        /\ store = [r \in Rows |-> store[r]]
    BY DEF FormInit
  <2>2. ASSUME NEW r \in Rows, Exists(store[r])
        PROVE  Shaped(store[r]) /\ Storable(store[r].content)
    <3>1. PICK w \in Words :
            store[r] = [home |-> here, trashed |-> FALSE,
                        content |-> [Empty EXCEPT !.text["title"] = w]]
      BY <2>2 DEF FormInit, Exists
    <3>2. PICK c : c = [Empty EXCEPT !.text["title"] = w]
      OBVIOUS
    <3>3. /\ ContentShaped(c)
          /\ \A f \in Fields : c.text[f] = IF f = "title" THEN w ELSE Blank
      BY <3>2 DEF Empty, ContentShaped, Fields
    <3>4. Storable(c)
      BY <3>3 DEF Storable, Sealed, Fields
    <3> QED
      BY <3>1, <3>2, <3>4 DEF Shaped
  <2> QED
    BY <2>1, <2>2 DEF SaveInvariant, StoreInv, ScreenInv, Shown, FormInv, WriteInv
<1>2. ASSUME SaveInvariant, [FormNext]_formVars
      PROVE  SaveInvariant' /\ (Served => \A r \in Rows : OnlyTyped(r))
  <2>1. CASE StoreNew \/ StoreWrite
    BY <1>2, <2>1, StoreSteps
  <2>2. ASSUME NEW r \in Rows, OtherDevice(r) PROVE SaveInvariant' /\ ~Served
    BY <1>2, <2>2, OtherSteps DEF OtherDevice, Served
  <2>3. CASE \/ NewItem \/ (\E r \in Rows : EditItem(r))
             \/ (\E f \in Fields, text \in Texts : Type(f, text))
             \/ (\E c \in Categories : ChooseCategory(c))
    <3>1. UNCHANGED write
      BY <2>3 DEF NewItem, EditItem, Opens, Type, ChooseCategory, Changes
    <3> QED
      BY <1>2, <2>3, <3>1, EditSteps DEF Served
  <2>4. CASE Submit \/ \E r \in Rows : ToggleFavorite(r) \/ Trash(r) \/ Restore(r) \/ DeleteForever(r)
    <3>1. write = Nothing \/ write' = write
      BY <2>4 DEF Submit, Changes, Sends, ToggleFavorite, Trash, Restore, DeleteForever, Moves, OnItem
    <3> QED
      BY <1>2, <2>4, <3>1, SaveSteps DEF Served
  <2>5. CASE Loaded \/ (\E v \in Safes : ChooseSafe(v)) \/ CancelForm \/ WriteFails \/ Answered
    <3>1. write' \in {write, Nothing}
      BY <2>5 DEF Loaded, ChooseSafe, CancelForm, Answered, WriteFails
    <3> QED
      BY <1>2, <2>5, <3>1, ScreenSteps DEF Served
  <2>6. CASE UNCHANGED formVars
    BY <1>2, <2>6 DEF formVars, Served, SaveInvariant, StoreInv, ScreenInv, Shown, FormInv, WriteInv
  <2> QED
    BY <1>2, <2>1, <2>2, <2>3, <2>4, <2>5, <2>6 DEF FormNext
<1>3. ASSUME SaveInvariant', NEW r \in Rows, Exists(store'[r])
      PROVE  store'[r].content.text["seed"] = Blank
               \/ ParseTotp(store'[r].content.text["seed"]) # Unreadable
  <2>1. Storable(store'[r].content)
    BY <1>3 DEF SaveInvariant, StoreInv
  <2> QED
    BY <2>1 DEF Storable, NormalSeed, NormalizeTotpInput
<1>4. SaveInvariant /\ [FormNext]_formVars =>
        SaveInvariant' /\
        [\A r \in Rows : Served /\ Exists(store[r]) /\ Exists(store'[r]) =>
           LET now == store'[r].content IN
           /\ \A f \in Fields : now.text[f] # Before(r).text[f] => f \in write.typed
           /\ now.favorite # Before(r).favorite => "favorite" \in write.typed
           /\ now.category = Before(r).category
           /\ now.text["seed"] = Blank \/ ParseTotp(now.text["seed"]) # Unreadable]_formVars
  BY <1>2, <1>3 DEF OnlyTyped
<1> QED
  BY <1>1, <1>4, PTL DEF FormSpec, SavesOnlyWhatWasTyped
=============================================================================
