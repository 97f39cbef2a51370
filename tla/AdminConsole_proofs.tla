------------------------ MODULE AdminConsole_proofs ------------------------
(***************************************************************************)
(* Proofs about AdminConsole, for every number of accounts, settings,      *)
(* pages, filters, operators and requests.                                 *)
(*                                                                         *)
(* With account changes going through one at a time, and no operator who   *)
(* deletes their own account: somebody can always reach the console.  With *)
(* an operator who waits for a change to be answered, and answers that     *)
(* arrive in order: lists, tiles and switches are current.  Nothing is     *)
(* assumed there of the other operators, of restarts or of which answers   *)
(* get lost.  Other instances of the model violate the properties without  *)
(* these hypotheses.                                                       *)
(***************************************************************************)
EXTENDS AdminConsole, FiniteSetTheorems, TLAPS

------------------------------------------------------------------------
(* Types.  The bounds of the runs play no part: counts are numbers.        *)

RowsN == [page: Nat, filter: Filters, counted: Nat]
PaneN == [page: Nat, filter: Filters, data: RowsN \cup {None},
          failed: BOOLEAN, owed: Nat]
OverviewN == [counted: Nat, switches: [Keys -> BOOLEAN],
              missed: BOOLEAN, unsure: BOOLEAN, owed: Nat]
CallN == [what: Changes \cup Reads, on: Users \cup Keys \cup {None}, value: BOOLEAN,
          page: Nat, filter: Filters, held: [Keys -> BOOLEAN],
          at: {"sent", "decided", "served", "refused"}, counted: Nat,
          busy: BOOLEAN, live: BOOLEAN]

OnlyAccountsAreDecided ==
  \A i \in DOMAIN wire : wire[i].at = "decided" => wire[i].what \in AccountActs

ServerTyped ==
  /\ settings \in [Keys -> BOOLEAN] /\ done \in Nat
  /\ elsewhere \subseteq Change /\ IsFiniteSet(elsewhere)
PageTyped ==
  /\ tab \in Tabs /\ pane \in PaneN /\ selected \in Users \cup {None}
  /\ overview \in OverviewN
WireTyped == wire \in Seq(CallN) /\ OnlyAccountsAreDecided
Typed == ServerTyped /\ PageTyped /\ WireTyped

\* The requests the page makes are calls ...
LEMMA CallsAreCalls ==
  /\ NoCall \in CallN /\ RefreshOverview \in CallN
  /\ \A p \in Nat, f \in Filters, b \in BOOLEAN :
       Load(p, f) \in CallN /\ [Load(p, f) EXCEPT !.live = b] \in CallN
BY UsersAssumption DEF NoCall, RefreshOverview, Load, CallN, Quiet, Changes, Reads

\* ... and stay calls at each step they take.
LEMMA CallsStayCalls ==
  ASSUME NEW c \in CallN
  PROVE  /\ \A a \in {"sent", "decided", "served", "refused"}, n \in Nat :
              /\ [c EXCEPT !.at = a] \in CallN
              /\ [c EXCEPT !.at = a, !.counted = n] \in CallN
         /\ \A n \in Nat, h \in [Keys -> BOOLEAN] :
              [c EXCEPT !.at = "served", !.counted = n, !.held = h] \in CallN
         /\ [c EXCEPT !.busy = FALSE] \in CallN
         /\ [c EXCEPT !.live = FALSE, !.busy = FALSE] \in CallN
         /\ \A p \in Nat, f \in Filters :
              [c EXCEPT !.busy = TRUE, !.page = p, !.filter = f] \in CallN
BY DEF CallN

\* Taking a request off the wire moves up those behind it.
LEMMA Removed ==
  ASSUME NEW S, NEW s \in Seq(S), NEW i \in DOMAIN s
  PROVE  /\ RemoveAt(s, i) \in Seq(S)
         /\ Len(RemoveAt(s, i)) = Len(s) - 1
         /\ \A j \in 1..Len(s) - 1 :
              RemoveAt(s, i)[j] = IF j < i THEN s[j] ELSE s[j + 1]
  <1> DEFINE a == SubSeq(s, 1, i - 1)
             b == SubSeq(s, i + 1, Len(s))
  <1>0. i \in 1..Len(s) /\ Len(s) \in Nat
    OBVIOUS
  <1>1. a \in Seq(S) /\ Len(a) = i - 1 /\ \A j \in 1..i - 1 : a[j] = s[j]
    BY <1>0
  <1>2. b \in Seq(S) /\ Len(b) = Len(s) - i /\ \A j \in 1..Len(s) - i : b[j] = s[j + i]
    BY <1>0
  <1>3. RemoveAt(s, i) = a \o b
    BY DEF RemoveAt
  <1> HIDE DEF a, b
  <1>4. a \o b \in Seq(S) /\ Len(a \o b) = Len(s) - 1
    BY <1>0, <1>1, <1>2
  <1>5. ASSUME NEW j \in 1..Len(s) - 1
        PROVE  (a \o b)[j] = IF j < i THEN s[j] ELSE s[j + 1]
    <2>1. CASE j < i
      <3>1. j \in 1..i - 1
        BY <1>0, <2>1
      <3>2. (a \o b)[j] = a[j]
        BY <1>0, <1>1, <1>2, <3>1
      <3> QED BY <1>1, <2>1, <3>1, <3>2
    <2>2. CASE j >= i
      <3>1. (a \o b)[j] = b[j - (i - 1)]
        BY <1>0, <1>1, <1>2, <2>2
      <3>2. j - (i - 1) \in 1..Len(s) - i
        BY <1>0, <2>2
      <3>3. b[j - (i - 1)] = s[j - (i - 1) + i]
        BY <1>2, <3>2
      <3>4. j - (i - 1) + i = j + 1
        BY <1>0
      <3> QED BY <1>0, <2>2, <3>1, <3>3, <3>4
    <2>3. j \in Int /\ i \in Int
      BY <1>0
    <2>4. j < i \/ j >= i
      BY <2>3
    <2> QED BY <2>1, <2>2, <2>4
  <1> QED BY <1>3, <1>4, <1>5

\* One request changed, one more, every request changed, one fewer.
LEMMA WireChanged ==
  ASSUME WireTyped, NEW i \in DOMAIN wire, NEW c \in CallN,
         c.at = "decided" => c.what \in AccountActs, wire' = [wire EXCEPT ![i] = c]
  PROVE  /\ WireTyped' /\ Len(wire') = Len(wire) /\ wire'[i] = c
         /\ \A j \in DOMAIN wire : j # i => wire'[j] = wire[j]
BY DEF WireTyped, OnlyAccountsAreDecided

LEMMA WireAppended ==
  ASSUME WireTyped, NEW c \in CallN, c.at # "decided", wire' = Append(wire, c)
  PROVE  /\ WireTyped' /\ Len(wire') = Len(wire) + 1 /\ wire'[Len(wire) + 1] = c
         /\ \A j \in DOMAIN wire : wire'[j] = wire[j]
BY DEF WireTyped, OnlyAccountsAreDecided

LEMMA WireMapped ==
  ASSUME WireTyped, NEW w, w = [i \in DOMAIN wire |-> w[i]],
         \A i \in DOMAIN wire :
           w[i] \in CallN /\ (w[i].at = "decided" => w[i].what \in AccountActs)
  PROVE  w \in Seq(CallN) /\ Len(w) = Len(wire) /\ DOMAIN w = DOMAIN wire
BY DEF WireTyped

LEMMA WireRemoved ==
  ASSUME WireTyped, NEW i \in DOMAIN wire, wire' = RemoveAt(wire, i)
  PROVE  /\ WireTyped' /\ Len(wire') = Len(wire) - 1
         /\ \A j \in 1..Len(wire) - 1 :
              wire'[j] = IF j < i THEN wire[j] ELSE wire[j + 1]
  <1>1. /\ wire' \in Seq(CallN) /\ Len(wire') = Len(wire) - 1
        /\ \A j \in 1..Len(wire) - 1 :
             wire'[j] = IF j < i THEN wire[j] ELSE wire[j + 1]
    BY Removed DEF WireTyped
  <1>2. ASSUME NEW j \in DOMAIN wire'
        PROVE  \E k \in DOMAIN wire : wire'[j] = wire[k]
    <2>1. j \in 1..Len(wire) - 1 /\ j \in DOMAIN wire /\ j + 1 \in DOMAIN wire
      BY <1>1 DEF WireTyped
    <2> QED BY <1>1, <2>1
  <1> QED BY <1>1, <1>2 DEF WireTyped, OnlyAccountsAreDecided

LEMMA WireIsTyped ==
  ASSUME Typed, NEW i \in DOMAIN wire
  PROVE  wire[i] \in CallN
BY DEF Typed, WireTyped

\* The requests at the server.
LEMMA ServeTyped ==
  ASSUME Typed, NEW i \in DOMAIN wire, Serve(i)
  PROVE  Typed'
  <1>0. WireTyped /\ wire[i] \in CallN /\ done + 1 \in Nat
    BY WireIsTyped DEF Typed, ServerTyped
  <1>1. CASE Refuse(i)
    <2>1. [wire[i] EXCEPT !.at = "refused"] \in CallN
      BY <1>0, CallsStayCalls DEF CallN
    <2>2. [wire[i] EXCEPT !.at = "refused"].at # "decided"
      BY <1>0 DEF CallN
    <2>3. WireTyped'
      BY <1>0, <1>1, <2>1, <2>2, WireChanged DEF Refuse, Reaches
    <2> QED BY <1>1, <2>3 DEF Refuse, Reaches, Typed, ServerTyped, PageTyped, page
  <1>2. CASE ServeRead(i)
    <2> DEFINE c == [wire[i] EXCEPT !.at = "served", !.counted = done,
                       !.held = IF wire[i].what = "overview" THEN settings ELSE @]
    <2>1. c \in CallN /\ c.at # "decided"
      <3>1. (IF wire[i].what = "overview" THEN settings ELSE wire[i].held) \in [Keys -> BOOLEAN]
        BY <1>0 DEF Typed, ServerTyped, CallN
      <3> QED BY <1>0, <3>1 DEF Typed, ServerTyped, CallN
    <2>2. wire' = [wire EXCEPT ![i] = c]
      BY <1>2 DEF ServeRead, Reaches
    <2> HIDE DEF c
    <2>3. WireTyped'
      BY <1>0, <2>1, <2>2, WireChanged
    <2> QED BY <1>2, <2>3 DEF ServeRead, Reaches, Typed, ServerTyped, PageTyped, page
  <1>3. CASE ServeSave(i)
    <2> DEFINE c == [wire[i] EXCEPT !.at = "served"]
    <2>1. c \in CallN /\ c.at # "decided"
      BY <1>0 DEF CallN
    <2>2. wire' = [wire EXCEPT ![i] = c]
      BY <1>3 DEF ServeSave, Reaches
    <2> HIDE DEF c
    <2>3. WireTyped'
      BY <1>0, <2>1, <2>2, WireChanged
    <2>4. settings' \in [Keys -> BOOLEAN]
      BY <1>0, <1>3 DEF ServeSave, Typed, ServerTyped, CallN
    <2> QED BY <1>3, <2>3, <2>4 DEF ServeSave, Reaches, Typed, ServerTyped, PageTyped, page
  <1>4. CASE ServeHandled(i)
    <2> DEFINE c == [wire[i] EXCEPT !.at = "served", !.counted = done + 1]
    <2>1. c \in CallN /\ c.at # "decided"
      BY <1>0 DEF CallN
    <2>2. wire' = [wire EXCEPT ![i] = c]
      BY <1>4 DEF ServeHandled, Reaches
    <2> HIDE DEF c
    <2>3. WireTyped'
      BY <1>0, <2>1, <2>2, WireChanged
    <2> QED BY <1>4, <2>3 DEF ServeHandled, Reaches, Typed, ServerTyped, PageTyped, page
  <1>5. CASE DecideMine(i)
    <2> DEFINE c == [wire[i] EXCEPT !.at = "decided"]
    <2>1. c \in CallN /\ c.what \in AccountActs
      BY <1>0, <1>5 DEF CallN, DecideMine
    <2>2. wire' = [wire EXCEPT ![i] = c]
      BY <1>5 DEF DecideMine, Reaches
    <2> HIDE DEF c
    <2>3. WireTyped'
      BY <1>0, <2>1, <2>2, WireChanged
    <2> QED BY <1>5, <2>3 DEF DecideMine, Reaches, Typed, ServerTyped, PageTyped, page
  <1>6. CASE CommitMine(i)
    <2>1. PICK c : /\ wire' = [wire EXCEPT ![i] = c]
                   /\ \/ c = [wire[i] EXCEPT !.at = "served", !.counted = done + 1]
                      \/ c = [wire[i] EXCEPT !.at = "refused"]
      BY <1>6 DEF CommitMine, Reaches
    <2>2. c \in CallN /\ c.at # "decided"
      BY <1>0, <2>1 DEF CallN
    <2>3. WireTyped'
      BY <1>0, <2>1, <2>2, WireChanged
    <2>4. done' \in Nat
      BY <1>6 DEF CommitMine, Typed, ServerTyped
    <2> QED BY <1>6, <2>3, <2>4 DEF CommitMine, Reaches, Typed, ServerTyped, PageTyped, page
  <1> QED BY <1>1, <1>2, <1>3, <1>4, <1>5, <1>6 DEF Serve

\* A section that is left takes its requests off the page, and the next loads.
LEMMA OpenTabWire ==
  ASSUME Typed, NEW t \in Tabs, OpenTab(t)
  PROVE  /\ WireTyped'
         /\ Len(wire') = IF t = "overview" THEN Len(wire) ELSE Len(wire) + 1
         /\ \A i \in DOMAIN wire :
              wire'[i] = IF wire[i].what = "overview" THEN wire[i]
                         ELSE [wire[i] EXCEPT !.live = FALSE, !.busy = FALSE]
         /\ t # "overview" => wire'[Len(wire) + 1] = Load(0, None)
  <1> DEFINE w == [i \in DOMAIN wire |-> IF wire[i].what = "overview" THEN wire[i]
                     ELSE [wire[i] EXCEPT !.live = FALSE, !.busy = FALSE]]
             tail == IF t = "overview" THEN <<>> ELSE <<Load(0, None)>>
  <1>1. WireTyped /\ wire \in Seq(CallN) /\ \A i \in DOMAIN wire : wire[i] \in CallN
    BY DEF Typed, WireTyped
  <1>2. ASSUME NEW i \in DOMAIN wire
        PROVE  w[i] \in CallN /\ (w[i].at = "decided" => w[i].what \in AccountActs)
    <2>1. wire[i] \in CallN /\ (wire[i].at = "decided" => wire[i].what \in AccountActs)
      BY <1>1 DEF WireTyped, OnlyAccountsAreDecided
    <2>2. w[i] = wire[i] \/ w[i] = [wire[i] EXCEPT !.live = FALSE, !.busy = FALSE]
      OBVIOUS
    <2> HIDE DEF w
    <2> QED BY <2>1, <2>2 DEF CallN
  <1>3. w \in Seq(CallN) /\ Len(w) = Len(wire) /\ DOMAIN w = DOMAIN wire
    <2>1. w = [i \in DOMAIN wire |-> w[i]]
      OBVIOUS
    <2> HIDE DEF w
    <2> QED BY <1>1, <1>2, <2>1, WireMapped
  <1>4. Load(0, None) \in CallN /\ Load(0, None).at = "sent"
    BY CallsAreCalls, UsersAssumption DEF Load, NoCall
  <1>5. wire' = w \o tail
    BY DEF OpenTab
  <1>6. \A i \in DOMAIN wire : w[i] = IF wire[i].what = "overview" THEN wire[i]
                         ELSE [wire[i] EXCEPT !.live = FALSE, !.busy = FALSE]
    OBVIOUS
  <1> HIDE DEF w
  <1>7. CASE t = "overview"
    <2>1. wire' = w
      BY <1>3, <1>5, <1>7
    <2> QED BY <1>2, <1>3, <1>6, <1>7, <2>1 DEF WireTyped, OnlyAccountsAreDecided
  <1>8. CASE t # "overview"
    <2>1. wire' = Append(w, Load(0, None))
      BY <1>3, <1>4, <1>5, <1>8
    <2>2. /\ wire' \in Seq(CallN) /\ Len(wire') = Len(wire) + 1
          /\ wire'[Len(wire) + 1] = Load(0, None)
          /\ \A i \in DOMAIN wire : wire'[i] = w[i]
      BY <1>3, <1>4, <2>1
    <2>3. \A i \in DOMAIN wire' : i \in DOMAIN wire \/ i = Len(wire) + 1
      BY <1>1, <2>2
    <2> QED BY <1>2, <1>4, <1>6, <1>8, <2>2, <2>3 DEF WireTyped, OnlyAccountsAreDecided
  <1> QED BY <1>7, <1>8

LEMMA CloseDialogWire ==
  ASSUME Typed, CloseDialog
  PROVE  /\ WireTyped' /\ Len(wire') = Len(wire)
         /\ \A i \in DOMAIN wire : wire'[i] = [wire[i] EXCEPT !.busy = FALSE]
  <1> DEFINE w == [i \in DOMAIN wire |-> [wire[i] EXCEPT !.busy = FALSE]]
  <1>1. WireTyped /\ \A i \in DOMAIN wire : wire[i] \in CallN
    BY DEF Typed, WireTyped
  <1>2. ASSUME NEW i \in DOMAIN wire
        PROVE  w[i] \in CallN /\ (w[i].at = "decided" => w[i].what \in AccountActs)
    <2>1. wire[i] \in CallN /\ (wire[i].at = "decided" => wire[i].what \in AccountActs)
      BY <1>1 DEF WireTyped, OnlyAccountsAreDecided
    <2>2. w[i] = [wire[i] EXCEPT !.busy = FALSE]
      OBVIOUS
    <2> HIDE DEF w
    <2> QED BY <2>1, <2>2 DEF CallN
  <1>3. w \in Seq(CallN) /\ Len(w) = Len(wire) /\ DOMAIN w = DOMAIN wire
    <2>1. w = [i \in DOMAIN wire |-> w[i]]
      OBVIOUS
    <2> HIDE DEF w
    <2> QED BY <1>1, <1>2, <2>1, WireMapped
  <1>4. wire' = w
    BY DEF CloseDialog
  <1> QED BY <1>2, <1>3, <1>4 DEF WireTyped, OnlyAccountsAreDecided

LEMMA RestartWire ==
  ASSUME Typed, Restart
  PROVE  /\ WireTyped' /\ Len(wire') = Len(wire)
         /\ \A i \in DOMAIN wire :
              /\ wire'[i] = IF wire[i].at = "decided"
                            THEN [wire[i] EXCEPT !.at = "refused"] ELSE wire[i]
              /\ wire'[i].at # "decided"
  <1> DEFINE w == [i \in DOMAIN wire |-> IF wire[i].at = "decided"
                     THEN [wire[i] EXCEPT !.at = "refused"] ELSE wire[i]]
  <1>1. WireTyped /\ \A i \in DOMAIN wire : wire[i] \in CallN
    BY DEF Typed, WireTyped
  <1>2. \A i \in DOMAIN wire : w[i] \in CallN /\ w[i].at # "decided"
    BY <1>1 DEF CallN
  <1>3. w \in Seq(CallN) /\ Len(w) = Len(wire) /\ DOMAIN w = DOMAIN wire
    <2>1. w = [i \in DOMAIN wire |-> w[i]]
      OBVIOUS
    <2> HIDE DEF w
    <2> QED BY <1>1, <1>2, <2>1, WireMapped
  <1>4. wire' = w
    BY DEF Restart
  <1> QED BY <1>2, <1>3, <1>4 DEF WireTyped, OnlyAccountsAreDecided

\* The other operators.
LEMMA ElsewhereTyped ==
  ASSUME Typed, Elsewhere
  PROVE  Typed'
  <1> USE DEF Typed, ServerTyped, PageTyped, page
  <1>1. ASSUME NEW c \in Change, Decide(c) PROVE Typed'
    <2>1. IsFiniteSet(elsewhere') /\ elsewhere' \subseteq Change
      BY <1>1, FS_AddElement DEF Decide
    <2> QED BY <1>1, <2>1 DEF Decide, WireTyped, OnlyAccountsAreDecided
  <1>2. ASSUME NEW c \in Change, Commit(c) PROVE Typed'
    <2>1. IsFiniteSet(elsewhere') /\ elsewhere' \subseteq Change
      BY <1>2, FS_RemoveElement DEF Commit
    <2> QED BY <1>2, <2>1 DEF Commit, WireTyped, OnlyAccountsAreDecided
  <1>3. ASSUME NEW u \in Users, SignIn(u) PROVE Typed'
    BY <1>3 DEF SignIn, WireTyped, OnlyAccountsAreDecided
  <1>4. ASSUME NEW u \in Users, EraseSelf(u) PROVE Typed'
    BY <1>4 DEF EraseSelf, WireTyped, OnlyAccountsAreDecided
  <1>5. CASE Restart
    BY <1>5, RestartWire, FS_EmptySet DEF Restart
  <1> QED BY <1>1, <1>2, <1>3, <1>4, <1>5 DEF Elsewhere

\* What the operator does.
LEMMA AsksTyped ==
  ASSUME Typed, NEW p \in Nat, NEW f \in Filters, Asks(p, f), UNCHANGED <<server, overview>>
  PROVE  Typed'
  <1>1. pane' \in PaneN
    BY DEF Asks, Typed, PageTyped, PaneN
  <1>2. Load(p, f) \in CallN /\ Load(p, f).at # "decided"
    BY CallsAreCalls DEF Load, NoCall
  <1>3. WireTyped'
    <2>1. CASE wire' = wire
      BY <2>1 DEF Typed, WireTyped, OnlyAccountsAreDecided
    <2>2. CASE wire' = Append(wire, Load(p, f))
      BY <1>2, <2>2, WireAppended DEF Typed
    <2> QED BY <2>1, <2>2 DEF Asks
  <1> QED BY <1>1, <1>3 DEF Asks, Typed, ServerTyped, PageTyped, server, roles

LEMMA SendsTyped ==
  ASSUME Typed, NEW c \in CallN, c.at = "sent", Sends(c)
  PROVE  Typed'
  <1> DEFINE d == [c EXCEPT !.busy = TRUE, !.page = pane.page, !.filter = pane.filter]
  <1>1. d \in CallN /\ d.at # "decided"
    BY DEF Typed, PageTyped, PaneN, CallN
  <1>2. wire' = Append(wire, d)
    BY DEF Sends
  <1> HIDE DEF d
  <1>3. WireTyped'
    BY <1>1, <1>2, WireAppended DEF Typed
  <1> QED BY <1>3 DEF Sends, Typed, ServerTyped, PageTyped, server, roles, page

\* What the operator sends is a call.
LEMMA ChangesAreCalls ==
  ASSUME Typed
  PROVE  /\ \A what \in AccountActs, u \in Users \cup {None} :
              /\ [NoCall EXCEPT !.what = what, !.on = u] \in CallN
              /\ [NoCall EXCEPT !.what = what, !.on = u].at = "sent"
         /\ [NoCall EXCEPT !.what = "handle"] \in CallN
         /\ [NoCall EXCEPT !.what = "handle"].at = "sent"
         /\ \A k \in Keys :
              LET c == [NoCall EXCEPT !.what = "save", !.on = k,
                          !.value = ~overview.switches[k], !.held = overview.switches]
              IN  c \in CallN /\ c.at = "sent"
  <1>1. overview.switches \in [Keys -> BOOLEAN]
    BY DEF Typed, PageTyped, OverviewN
  <1>2. NoCall \in CallN /\ NoCall.at = "sent"
    BY CallsAreCalls DEF NoCall
  <1> QED BY <1>1, <1>2 DEF CallN, Changes

LEMMA UseTyped ==
  ASSUME Typed, Use
  PROVE  Typed'
  <1>1. ASSUME NEW t \in Tabs, OpenTab(t) PROVE Typed'
    <2>1. Fresh \in PaneN
      BY UsersAssumption DEF Fresh, PaneN
    <2> QED BY <1>1, <2>1, OpenTabWire
            DEF OpenTab, MovesOn, Typed, ServerTyped, PageTyped, server, roles
  <1>2. ASSUME NEW f \in Filters, Filter(f) PROVE Typed'
    BY <1>2, AsksTyped DEF Filter, MovesOn
  <1>3. ASSUME NEW d \in {-1, 1}, Turn(d) PROVE Typed'
    <2>1. PICK p \in 0..MaxPage : Asks(p, pane.filter)
      BY <1>3 DEF Turn
    <2>2. p \in Nat /\ pane.filter \in Filters
      BY BoundAssumption DEF Typed, PageTyped, PaneN
    <2> QED BY <1>3, <2>1, <2>2, AsksTyped DEF Turn, MovesOn
  <1>4. CASE Retry
    <2>1. Load(pane.page, pane.filter) \in CallN /\ Load(pane.page, pane.filter).at # "decided"
      BY CallsAreCalls DEF Load, NoCall, Typed, PageTyped, PaneN
    <2>2. WireTyped'
      BY <1>4, <2>1, WireAppended DEF Retry, Typed
    <2>3. pane' \in PaneN
      BY <1>4 DEF Retry, Typed, PageTyped, PaneN
    <2> QED BY <1>4, <2>2, <2>3
            DEF Retry, MovesOn, Typed, ServerTyped, PageTyped, server, roles
  <1>5. CASE SetHandled
    BY <1>5, ChangesAreCalls, SendsTyped DEF SetHandled
  <1>6. CASE CloseDialog
    BY <1>6, CloseDialogWire
       DEF CloseDialog, Typed, ServerTyped, PageTyped, server, roles
  <1>7. ASSUME NEW u \in Users, OpenDialog(u) PROVE Typed'
    BY <1>7 DEF OpenDialog, Typed, ServerTyped, PageTyped, WireTyped,
                OnlyAccountsAreDecided, server, roles
  <1>8. ASSUME NEW what \in AccountActs, Act(what) PROVE Typed'
    <2>1. selected \in Users \cup {None}
      BY DEF Typed, PageTyped
    <2> QED BY <1>8, <2>1, ChangesAreCalls, SendsTyped DEF Act
  <1>9. ASSUME NEW k \in Keys, Save(k) PROVE Typed'
    BY <1>9, ChangesAreCalls, SendsTyped DEF Save
  <1> QED BY <1>1, <1>2, <1>3, <1>4, <1>5, <1>6, <1>7, <1>8, <1>9 DEF Use

\* A change that was made is off the wire, and two reads are at its end.
LEMMA ChangeAnsweredWire ==
  ASSUME Typed, NEW i \in DOMAIN wire, ChangeAnswered(i)
  PROVE  LET a == [Load(wire[i].page, wire[i].filter) EXCEPT !.live = wire[i].live]
         IN  /\ WireTyped' /\ Len(wire') = Len(wire) + 1
             /\ wire'[Len(wire)] = a /\ wire'[Len(wire) + 1] = RefreshOverview
             /\ \A j \in 1..Len(wire) - 1 :
                  wire'[j] = IF j < i THEN wire[j] ELSE wire[j + 1]
  <1> DEFINE a == [Load(wire[i].page, wire[i].filter) EXCEPT !.live = wire[i].live]
             w == RemoveAt(wire, i)
  <1>1. wire[i] \in CallN
    BY WireIsTyped
  <1>2. a \in CallN /\ a.at = "sent" /\ RefreshOverview \in CallN
          /\ RefreshOverview.at = "sent"
    <2>1. wire[i].page \in Nat /\ wire[i].filter \in Filters /\ wire[i].live \in BOOLEAN
      BY <1>1 DEF CallN
    <2>2. a \in CallN /\ RefreshOverview \in CallN
      BY <2>1, CallsAreCalls
    <2>3. a.at = "sent" /\ RefreshOverview.at = "sent"
      BY DEF Load, NoCall, RefreshOverview
    <2> QED BY <2>2, <2>3
  <1>3. wire' = w \o <<a, RefreshOverview>>
    BY DEF ChangeAnswered
  <1>4. /\ w \in Seq(CallN) /\ Len(w) = Len(wire) - 1 /\ wire \in Seq(CallN)
        /\ \A j \in 1..Len(wire) - 1 : w[j] = IF j < i THEN wire[j] ELSE wire[j + 1]
    BY Removed DEF Typed, WireTyped
  <1> HIDE DEF a, w
  <1>5. wire' = Append(Append(w, a), RefreshOverview)
    BY <1>2, <1>3, <1>4
  <1>6. /\ wire' \in Seq(CallN) /\ Len(wire') = Len(wire) + 1
        /\ wire'[Len(wire)] = a /\ wire'[Len(wire) + 1] = RefreshOverview
        /\ \A j \in 1..Len(wire) - 1 : wire'[j] = w[j]
    BY <1>2, <1>4, <1>5
  <1>7. ASSUME NEW j \in DOMAIN wire', wire'[j].at = "decided"
        PROVE  wire'[j].what \in AccountActs
    <2>1. j \in 1..Len(wire) - 1
      BY <1>2, <1>4, <1>6, <1>7
    <2>2. \E k \in DOMAIN wire : wire'[j] = wire[k]
      <3>1. j \in DOMAIN wire /\ j + 1 \in DOMAIN wire
        BY <1>4, <2>1
      <3> QED BY <1>4, <1>6, <2>1, <3>1
    <2> QED BY <1>7, <2>2 DEF Typed, WireTyped, OnlyAccountsAreDecided
  <1> QED BY <1>4, <1>6, <1>7 DEF WireTyped, OnlyAccountsAreDecided, a

\* The answers.
LEMMA AnsweredTyped ==
  ASSUME Typed, NEW i \in DOMAIN wire, Answered(i)
  PROVE  Typed'
  <1> USE DEF Arrives, server, roles
  <1>0. wire[i] \in CallN /\ pane \in PaneN /\ overview \in OverviewN
    BY WireIsTyped DEF Typed, PageTyped
  <1>1. CASE RowsAnswered(i)
    <2>1. pane' \in PaneN
      <3>1. [page |-> wire[i].page, filter |-> wire[i].filter,
             counted |-> wire[i].counted] \in RowsN
        BY <1>0 DEF CallN, RowsN
      <3>2. \A r \in RowsN : [pane EXCEPT !.data = r] \in PaneN
        BY <1>0 DEF PaneN
      <3>3. [pane EXCEPT !.failed = TRUE] \in PaneN
        BY <1>0 DEF PaneN
      <3> QED BY <1>0, <1>1, <3>1, <3>2, <3>3 DEF RowsAnswered
    <2>2. WireTyped'
      BY <1>1, WireRemoved DEF RowsAnswered, Typed
    <2> QED BY <1>1, <2>1, <2>2 DEF RowsAnswered, Typed, ServerTyped, PageTyped
  <1>2. CASE OverviewAnswered(i)
    <2>1. overview' \in OverviewN
      <3>1. \A b \in BOOLEAN : [overview EXCEPT !.missed = TRUE] \in OverviewN /\
              [overview EXCEPT !.counted = wire[i].counted, !.switches = wire[i].held,
                  !.missed = FALSE, !.unsure = b] \in OverviewN
        BY <1>0 DEF CallN, OverviewN
      <3>2. (overview.unsure /\ OnWire("save")) \in BOOLEAN
        OBVIOUS
      <3> QED BY <1>2, <3>1, <3>2 DEF OverviewAnswered
    <2>2. WireTyped'
      BY <1>2, WireRemoved DEF OverviewAnswered, Typed
    <2> QED BY <1>2, <2>1, <2>2 DEF OverviewAnswered, Typed, ServerTyped, PageTyped
  <1>3. CASE SaveAnswered(i)
    <2>1. overview' \in OverviewN
      <3>1. [wire[i].held EXCEPT ![wire[i].on] = wire[i].value] \in [Keys -> BOOLEAN]
        BY <1>0 DEF CallN
      <3>2. \A h \in [Keys -> BOOLEAN] : [overview EXCEPT !.switches = h] \in OverviewN
        BY <1>0 DEF OverviewN
      <3> QED BY <1>0, <1>3, <3>1, <3>2 DEF SaveAnswered
    <2>2. WireTyped'
      BY <1>3, WireRemoved DEF SaveAnswered, Typed
    <2> QED BY <1>3, <2>1, <2>2 DEF SaveAnswered, Typed, ServerTyped, PageTyped
  <1>4. CASE ChangeAnswered(i)
    <2>1. pane' \in PaneN /\ overview' \in OverviewN
      BY <1>0, <1>4 DEF ChangeAnswered, PaneN, OverviewN, CallN
    <2>2. WireTyped'
      BY <1>4, ChangeAnsweredWire
    <2> QED BY <1>4, <2>1, <2>2 DEF ChangeAnswered, Typed, ServerTyped, PageTyped
  <1>5. CASE ChangeRefused(i)
    <2>1. WireTyped'
      BY <1>5, WireRemoved DEF ChangeRefused, Typed
    <2> QED BY <1>5, <2>1 DEF ChangeRefused, Typed, ServerTyped, PageTyped
  <1>6. CASE Lost(i)
    <2>1. pane' \in PaneN /\ overview' \in OverviewN
      <3>1. [pane EXCEPT !.failed = TRUE] \in PaneN
        BY <1>0 DEF PaneN
      <3>2. \A b, c \in BOOLEAN :
              [overview EXCEPT !.missed = b, !.unsure = c] \in OverviewN
        BY <1>0 DEF OverviewN
      <3>3. /\ (overview.missed \/ wire[i].what = "overview") \in BOOLEAN
            /\ (overview.unsure \/ wire[i].what = "save") \in BOOLEAN
        OBVIOUS
      <3> QED BY <1>0, <1>6, <3>1, <3>2, <3>3 DEF Lost
    <2>2. WireTyped'
      BY <1>6, WireRemoved DEF Lost, Typed
    <2> QED BY <1>6, <2>1, <2>2 DEF Lost, Typed, ServerTyped, PageTyped
  <1> QED BY <1>1, <1>2, <1>3, <1>4, <1>5, <1>6 DEF Answered

LEMMA NextTyped == Typed /\ [Next]_vars => Typed'
  <1> SUFFICES ASSUME Typed, [Next]_vars PROVE Typed'
    OBVIOUS
  <1>1. CASE UNCHANGED vars
    BY <1>1 DEF vars, roles, page, Typed, ServerTyped, PageTyped, WireTyped,
                OnlyAccountsAreDecided
  <1> QED BY <1>1, ElsewhereTyped, UseTyped, ServeTyped, AnsweredTyped DEF Next

LEMMA InitTyped == Init => Typed
  <1> SUFFICES ASSUME Init PROVE Typed
    OBVIOUS
  <1>1. Quiet \in [Keys -> BOOLEAN]
    BY DEF Quiet
  <1>2. Fresh \in PaneN
    BY UsersAssumption DEF Fresh, PaneN
  <1> QED BY <1>1, <1>2, FS_EmptySet
          DEF Init, Typed, ServerTyped, PageTyped, WireTyped, OnlyAccountsAreDecided,
              OverviewN, Tabs

------------------------------------------------------------------------
(* Somebody can reach the console.  A change that is decided was asked for *)
(* by an admin in good standing, who is not the account it takes away; and *)
(* with one change decided at a time nothing happens to that admin before  *)
(* it commits.                                                             *)

Pending ==
  elsewhere \cup {AsChange(wire[i]) : i \in {j \in DOMAIN wire : wire[j].at = "decided"}}

AskedByAdmins ==
  \A c \in Pending : /\ c.by \in Admins \ suspended
                     /\ c.what \in {"suspend", "revoke", "erase"} => c.by # c.on
OnePending == \A c, d \in Pending : c = d
RoleInv == AskedByAdmins /\ OnePending /\ ConsoleReachable

\* Changes go through one at a time, and an operator who deletes their own
\* account is not an admin.
OneByOne == Overlap <= 1 /\ SelfErasure = FALSE

LEMMA RoomMeansNonePending ==
  ASSUME Typed, OneByOne, Decided < Overlap
  PROVE  Pending = {}
  <1> DEFINE D == {j \in DOMAIN wire : wire[j].at = "decided"}
  <1>1. IsFiniteSet(elsewhere) /\ Cardinality(elsewhere) \in Nat
    BY FS_CardinalityType DEF Typed, ServerTyped
  <1>2. IsFiniteSet(D) /\ Cardinality(D) \in Nat
    <2>1. Len(wire) \in Nat /\ DOMAIN wire = 1..Len(wire)
      BY DEF Typed, WireTyped
    <2>2. IsFiniteSet(1..Len(wire))
      BY <2>1, FS_Interval
    <2>3. D \subseteq 1..Len(wire)
      BY <2>1
    <2>4. IsFiniteSet(D)
      BY <2>2, <2>3, FS_Subset
    <2> QED BY <2>4, FS_CardinalityType
  <1>3. Decided = Cardinality(elsewhere) + Cardinality(D)
    BY DEF Decided
  <1> HIDE DEF D
  <1>4. Overlap \in Nat
    BY BoundAssumption
  <1>5. Cardinality(elsewhere) = 0 /\ Cardinality(D) = 0
    BY <1>1, <1>2, <1>3, <1>4 DEF OneByOne
  <1>6. elsewhere = {} /\ D = {}
    BY <1>1, <1>2, <1>5, FS_EmptySet
  <1> QED BY <1>6 DEF Pending, D

\* Nothing new is decided and no role changes.
LEMMA RolesKept ==
  ASSUME RoleInv, UNCHANGED <<grants, suspended>>, Pending' \subseteq Pending
  PROVE  RoleInv'
BY DEF RoleInv, AskedByAdmins, OnePending, ConsoleReachable, Admins

\* The first change is decided.
LEMMA FirstDecided ==
  ASSUME RoleInv, Pending = {}, NEW c, MayAdminister(c.by), ~Refuses(c),
         UNCHANGED <<grants, suspended>>, Pending' \subseteq {c}
  PROVE  RoleInv'
BY DEF RoleInv, AskedByAdmins, OnePending, ConsoleReachable, Admins, MayAdminister, Refuses

\* The one change that is decided commits.
LEMMA Committed ==
  ASSUME RoleInv, NEW c \in Pending, Apply(c), Pending' \subseteq Pending
  PROVE  RoleInv'
  <1>1. /\ c.by \in Admins \ suspended
        /\ c.what \in {"suspend", "revoke", "erase"} => c.by # c.on
    BY DEF RoleInv, AskedByAdmins
  <1>2. c.by \in Admins' \ suspended'
    <2>1. CASE c.what = "erase"
      BY <1>1, <2>1 DEF Apply, DeleteUser, Admins
    <2>2. CASE c.what # "erase"
      <3>1. c.by \in Admins'
        BY <1>1, <2>2 DEF Apply, Admins, Grant
      <3>2. c.by \notin suspended'
        BY <1>1, <2>2 DEF Apply
      <3> QED BY <3>1, <3>2
    <2> QED BY <2>1, <2>2
  <1>3. \A d \in Pending' : d = c
    BY DEF RoleInv, OnePending
  <1> QED BY <1>1, <1>2, <1>3 DEF RoleInv, AskedByAdmins, OnePending, ConsoleReachable

\* What the wire has decided is all that the page adds to the pending changes.
LEMMA NothingNewDecided ==
  ASSUME elsewhere' = elsewhere,
         \A j \in DOMAIN wire' : wire'[j].at = "decided" =>
           \E i \in DOMAIN wire : /\ wire[i].at = "decided"
                                  /\ wire'[j].what = wire[i].what
                                  /\ wire'[j].on = wire[i].on
  PROVE  Pending' \subseteq Pending
  <1>1. ASSUME NEW j \in DOMAIN wire', wire'[j].at = "decided"
        PROVE  AsChange(wire'[j]) \in Pending
    <2>1. PICK i \in DOMAIN wire : /\ wire[i].at = "decided"
                                   /\ wire'[j].what = wire[i].what
                                   /\ wire'[j].on = wire[i].on
      BY <1>1
    <2>2. AsChange(wire'[j]) = AsChange(wire[i])
      BY <2>1 DEF AsChange
    <2> QED BY <2>1, <2>2 DEF Pending
  <1>2. Pending' = elsewhere' \cup
          {AsChange(wire'[j]) : j \in {k \in DOMAIN wire' : wire'[k].at = "decided"}}
    BY DEF Pending, AsChange
  <1> QED BY <1>1, <1>2 DEF Pending

LEMMA ServeRoles ==
  ASSUME Typed, OneByOne, RoleInv, NEW i \in DOMAIN wire, Serve(i)
  PROVE  RoleInv'
  <1>0. wire[i] \in CallN /\ WireTyped /\ wire \in Seq(CallN)
    BY WireIsTyped DEF Typed, WireTyped
  <1> DEFINE served == wire' = [wire EXCEPT ![i] = wire'[i]] /\ wire'[i].at # "decided"
                         /\ elsewhere' = elsewhere
  <1>1. ASSUME served PROVE Pending' \subseteq Pending
    BY <1>0, <1>1, NothingNewDecided
  <1>2. CASE Refuse(i)
    <2>1. served /\ UNCHANGED <<grants, suspended>>
      BY <1>0, <1>2 DEF Refuse, Reaches, CallN, roles
    <2> QED BY <1>1, <2>1, RolesKept
  <1>3. CASE ServeRead(i)
    <2>1. served /\ UNCHANGED <<grants, suspended>>
      BY <1>0, <1>3 DEF ServeRead, Reaches, CallN, roles
    <2> QED BY <1>1, <2>1, RolesKept
  <1>4. CASE ServeSave(i)
    <2>1. served /\ UNCHANGED <<grants, suspended>>
      BY <1>0, <1>4 DEF ServeSave, Reaches, CallN, roles
    <2> QED BY <1>1, <2>1, RolesKept
  <1>5. CASE ServeHandled(i)
    <2>1. served /\ UNCHANGED <<grants, suspended>>
      BY <1>0, <1>5 DEF ServeHandled, Reaches, CallN, roles
    <2> QED BY <1>1, <2>1, RolesKept
  <1>6. CASE DecideMine(i)
    <2> DEFINE c == AsChange(wire[i])
    <2>1. Pending = {}
      BY <1>6, RoomMeansNonePending DEF DecideMine
    <2>2. elsewhere' = {} /\ \A j \in DOMAIN wire : wire[j].at # "decided"
      BY <1>6, <2>1 DEF Pending, DecideMine, Reaches
    <2>3. \A j \in DOMAIN wire' : wire'[j].at = "decided" => j = i
      BY <1>0, <1>6, <2>2 DEF DecideMine, Reaches
    <2>4. AsChange(wire'[i]) = AsChange(wire[i])
      BY <1>0, <1>6 DEF DecideMine, Reaches, AsChange, CallN
    <2>5. Pending' \subseteq {c}
      <3>1. Pending' = elsewhere' \cup
          {AsChange(wire'[j]) : j \in {k \in DOMAIN wire' : wire'[k].at = "decided"}}
        BY DEF Pending, AsChange
      <3> QED BY <2>2, <2>3, <2>4, <3>1
    <2>6. MayAdminister(c.by) /\ ~Refuses(c) /\ UNCHANGED <<grants, suspended>>
      BY <1>6 DEF DecideMine, AsChange, roles
    <2> HIDE DEF c
    <2> QED BY <2>1, <2>5, <2>6, FirstDecided
  <1>7. CASE CommitMine(i)
    <2>1. served
      BY <1>0, <1>7 DEF CommitMine, Reaches, CallN
    <2>2. AsChange(wire[i]) \in Pending
      BY <1>7 DEF CommitMine, Pending
    <2>3. CASE Works(AsChange(wire[i]))
      BY <1>1, <1>7, <2>1, <2>2, <2>3, Committed DEF CommitMine
    <2>4. CASE ~Works(AsChange(wire[i]))
      <3>1. UNCHANGED <<grants, suspended>>
        BY <1>7, <2>4 DEF CommitMine, roles
      <3> QED BY <1>1, <2>1, <3>1, RolesKept
    <2> QED BY <2>3, <2>4
  <1> QED BY <1>2, <1>3, <1>4, <1>5, <1>6, <1>7 DEF Serve

LEMMA ElsewhereRoles ==
  ASSUME Typed, OneByOne, RoleInv, Elsewhere
  PROVE  RoleInv'
  <1>1. ASSUME NEW c \in Change, Decide(c) PROVE RoleInv'
    <2>1. Pending = {} /\ UNCHANGED <<grants, suspended, wire>>
      BY <1>1, RoomMeansNonePending DEF Decide, roles, page
    <2>2. Pending' \subseteq {c}
      BY <1>1, <2>1 DEF Decide, Pending, AsChange
    <2> QED BY <1>1, <2>1, <2>2, FirstDecided DEF Decide
  <1>2. ASSUME NEW c \in Change, Commit(c) PROVE RoleInv'
    <2>1. c \in Pending /\ Pending' \subseteq Pending
      BY <1>2 DEF Commit, Pending, AsChange
    <2>2. CASE Works(c)
      BY <1>2, <2>1, <2>2, Committed DEF Commit
    <2>3. CASE ~Works(c)
      BY <1>2, <2>1, <2>3, RolesKept DEF Commit, roles
    <2> QED BY <2>2, <2>3
  <1>3. ASSUME NEW u \in Users, SignIn(u) PROVE RoleInv'
    BY <1>3, RolesKept DEF SignIn, Pending, AsChange
  <1>4. ASSUME NEW u \in Users, EraseSelf(u) PROVE RoleInv'
    <2>1. Pending' = Pending
      BY <1>4 DEF EraseSelf, Pending, AsChange
    <2>2. u \notin Admins
      BY <1>4 DEF EraseSelf, OneByOne
    <2>3. Admins' = Admins /\ suspended' \subseteq suspended
      BY <1>4, <2>2 DEF EraseSelf, DeleteUser, Admins
    <2> QED BY <2>1, <2>3 DEF RoleInv, AskedByAdmins, OnePending, ConsoleReachable
  <1>5. CASE Restart
    <2>1. Pending' = {}
      <3>1. \A j \in DOMAIN wire' : wire'[j].at # "decided"
        <4>1. WireTyped' /\ Len(wire') = Len(wire)
                /\ \A i \in DOMAIN wire : wire'[i].at # "decided"
          BY <1>5, RestartWire
        <4>2. DOMAIN wire' = DOMAIN wire
          BY <4>1 DEF Typed, WireTyped
        <4> QED BY <4>1, <4>2
      <3>2. Pending' = elsewhere' \cup
          {AsChange(wire'[j]) : j \in {k \in DOMAIN wire' : wire'[k].at = "decided"}}
        BY DEF Pending, AsChange
      <3> QED BY <1>5, <3>1, <3>2 DEF Restart
    <2>2. Admins \subseteq Admins' /\ suspended' = suspended
      BY <1>5 DEF Restart, Admins, Grant
    <2> QED BY <2>1, <2>2 DEF RoleInv, AskedByAdmins, OnePending, ConsoleReachable
  <1> QED BY <1>1, <1>2, <1>3, <1>4, <1>5 DEF Elsewhere

LEMMA UseRoles ==
  ASSUME Typed, RoleInv, Use
  PROVE  RoleInv'
  <1>0. wire \in Seq(CallN) /\ \A i \in DOMAIN wire : wire[i] \in CallN
    BY DEF Typed, WireTyped
  <1> DEFINE roomy == elsewhere' = elsewhere /\ UNCHANGED <<grants, suspended>>
             sent(c) == wire' = Append(wire, c) /\ c.at # "decided"
  <1>1. ASSUME NEW c, sent(c), roomy PROVE RoleInv'
    <2>1. ASSUME NEW j \in DOMAIN wire', wire'[j].at = "decided"
          PROVE  j \in DOMAIN wire /\ wire'[j] = wire[j]
      BY <1>0, <1>1, <2>1
    <2>2. Pending' \subseteq Pending
      BY <1>1, <2>1, NothingNewDecided
    <2> QED BY <1>1, <2>2, RolesKept
  <1>2. ASSUME UNCHANGED wire, roomy PROVE RoleInv'
    BY <1>2, RolesKept DEF Pending, AsChange
  <1>3. ASSUME NEW c \in CallN, c.at = "sent", Sends(c) PROVE RoleInv'
    <2> DEFINE d == [c EXCEPT !.busy = TRUE, !.page = pane.page, !.filter = pane.filter]
    <2>1. sent(d) /\ roomy
      BY <1>3 DEF Sends, CallN, server, roles
    <2> HIDE DEF d, sent, roomy
    <2> QED BY <1>1, <2>1
  <1>4. ASSUME NEW p, NEW f, Asks(p, f), roomy PROVE RoleInv'
    <2>1. UNCHANGED wire \/ sent(Load(p, f))
      BY <1>4 DEF Asks, Load, NoCall
    <2> HIDE DEF sent, roomy
    <2> QED BY <1>1, <1>2, <1>4, <2>1
  <1>5. ASSUME NEW t \in Tabs, OpenTab(t) PROVE RoleInv'
    <2>1. /\ WireTyped' /\ Len(wire') = IF t = "overview" THEN Len(wire) ELSE Len(wire) + 1
          /\ \A i \in DOMAIN wire :
               wire'[i] = IF wire[i].what = "overview" THEN wire[i]
                         ELSE [wire[i] EXCEPT !.live = FALSE, !.busy = FALSE]
          /\ t # "overview" => wire'[Len(wire) + 1] = Load(0, None)
      BY <1>5, OpenTabWire
    <2>2. ASSUME NEW j \in DOMAIN wire', wire'[j].at = "decided"
          PROVE  /\ j \in DOMAIN wire /\ wire[j].at = "decided"
                 /\ wire'[j].what = wire[j].what /\ wire'[j].on = wire[j].on
      <3>1. j \in DOMAIN wire \/ (t # "overview" /\ j = Len(wire) + 1)
        <4>1. wire' \in Seq(CallN)
          BY <2>1 DEF WireTyped
        <4>2. DOMAIN wire' = 1..Len(wire') /\ DOMAIN wire = 1..Len(wire) /\ Len(wire) \in Nat
          BY <1>0, <4>1
        <4>3. Len(wire') = IF t = "overview" THEN Len(wire) ELSE Len(wire) + 1
          BY <2>1
        <4> QED BY <4>2, <4>3
      <3>2. j \in DOMAIN wire
        BY <2>1, <2>2, <3>1 DEF Load, NoCall
      <3> QED BY <1>0, <2>1, <2>2, <3>2 DEF CallN
    <2>3. roomy
      BY <1>5 DEF OpenTab, MovesOn, server, roles
    <2>4. Pending' \subseteq Pending
      BY <2>2, <2>3, NothingNewDecided
    <2> QED BY <2>3, <2>4, RolesKept
  <1>6. CASE CloseDialog
    <2>1. /\ WireTyped' /\ Len(wire') = Len(wire)
          /\ \A i \in DOMAIN wire : wire'[i] = [wire[i] EXCEPT !.busy = FALSE]
      BY <1>6, CloseDialogWire
    <2>2. ASSUME NEW j \in DOMAIN wire', wire'[j].at = "decided"
          PROVE  /\ j \in DOMAIN wire /\ wire[j].at = "decided"
                 /\ wire'[j].what = wire[j].what /\ wire'[j].on = wire[j].on
      <3>1. j \in DOMAIN wire
        BY <1>0, <2>1 DEF WireTyped
      <3> QED BY <1>0, <2>1, <2>2, <3>1 DEF CallN
    <2>3. roomy
      BY <1>6 DEF CloseDialog, server, roles
    <2>4. Pending' \subseteq Pending
      BY <2>2, <2>3, NothingNewDecided
    <2> QED BY <2>3, <2>4, RolesKept
  <1>7. ASSUME NEW f \in Filters, Filter(f) PROVE RoleInv'
    BY <1>4, <1>7 DEF Filter, MovesOn, server, roles
  <1>8. ASSUME NEW d \in {-1, 1}, Turn(d) PROVE RoleInv'
    BY <1>4, <1>8 DEF Turn, MovesOn, server, roles
  <1>9. CASE Retry
    <2>1. sent(Load(pane.page, pane.filter)) /\ roomy
      BY <1>9 DEF Retry, MovesOn, server, roles, Load, NoCall
    <2> HIDE DEF sent, roomy
    <2> QED BY <1>1, <2>1
  <1>10. CASE SetHandled
    BY <1>3, <1>10, ChangesAreCalls DEF SetHandled
  <1>11. ASSUME NEW u \in Users, OpenDialog(u) PROVE RoleInv'
    BY <1>2, <1>11 DEF OpenDialog, server, roles
  <1>12. ASSUME NEW what \in AccountActs, Act(what) PROVE RoleInv'
    <2>1. selected \in Users \cup {None}
      BY DEF Typed, PageTyped
    <2> QED BY <1>3, <1>12, <2>1, ChangesAreCalls DEF Act
  <1>13. ASSUME NEW k \in Keys, Save(k) PROVE RoleInv'
    BY <1>3, <1>13, ChangesAreCalls DEF Save
  <1> HIDE DEF roomy, sent
  <1> QED BY <1>5, <1>6, <1>7, <1>8, <1>9, <1>10, <1>11, <1>12, <1>13 DEF Use

LEMMA AnsweredRoles ==
  ASSUME Typed, RoleInv, NEW i \in DOMAIN wire, Answered(i)
  PROVE  RoleInv'
  <1>0. wire \in Seq(CallN) /\ Len(wire) \in Nat
    BY DEF Typed, WireTyped
  <1>1. elsewhere' = elsewhere /\ UNCHANGED <<grants, suspended>>
    BY DEF Answered, RowsAnswered, OverviewAnswered, SaveAnswered, ChangeAnswered,
           ChangeRefused, Lost, Arrives, server, roles
  <1>2. CASE wire' = RemoveAt(wire, i)
    <2>1. /\ WireTyped' /\ Len(wire') = Len(wire) - 1
          /\ \A j \in 1..Len(wire) - 1 :
               wire'[j] = IF j < i THEN wire[j] ELSE wire[j + 1]
      BY <1>2, WireRemoved DEF Typed
    <2>2. ASSUME NEW j \in DOMAIN wire'
          PROVE  \E k \in DOMAIN wire : wire'[j] = wire[k]
      <3>1. j \in 1..Len(wire) - 1 /\ j \in DOMAIN wire /\ j + 1 \in DOMAIN wire
        BY <1>0, <2>1 DEF WireTyped
      <3> QED BY <2>1, <3>1
    <2>3. Pending' \subseteq Pending
      BY <1>1, <2>2, NothingNewDecided
    <2> QED BY <1>1, <2>3, RolesKept
  <1>3. CASE ChangeAnswered(i)
    <2> DEFINE a == [Load(wire[i].page, wire[i].filter) EXCEPT !.live = wire[i].live]
    <2>1. /\ WireTyped' /\ Len(wire') = Len(wire) + 1
          /\ wire'[Len(wire)] = a /\ wire'[Len(wire) + 1] = RefreshOverview
          /\ \A j \in 1..Len(wire) - 1 :
               wire'[j] = IF j < i THEN wire[j] ELSE wire[j + 1]
      BY <1>3, ChangeAnsweredWire
    <2>2. a.at = "sent" /\ RefreshOverview.at = "sent"
      BY DEF Load, NoCall, RefreshOverview
    <2> HIDE DEF a
    <2>3. ASSUME NEW j \in DOMAIN wire', wire'[j].at = "decided"
          PROVE  \E k \in DOMAIN wire : wire'[j] = wire[k]
      <3>1. j \in 1..Len(wire) - 1
        <4>1. j \in 1..Len(wire) + 1 /\ j # Len(wire) /\ j # Len(wire) + 1
          BY <2>1, <2>2, <2>3 DEF WireTyped
        <4> QED BY <1>0, <4>1
      <3>2. j \in DOMAIN wire /\ j + 1 \in DOMAIN wire
        BY <1>0, <3>1
      <3> QED BY <2>1, <3>1, <3>2
    <2>4. Pending' \subseteq Pending
      BY <1>1, <2>3, NothingNewDecided
    <2> QED BY <1>1, <2>4, RolesKept
  <1> QED BY <1>2, <1>3 DEF Answered, RowsAnswered, OverviewAnswered, SaveAnswered,
                            ChangeRefused, Lost

\* Somebody can always reach the console, if account changes go through one at
\* a time and no operator deletes their own account in Settings: whoever asks
\* for a change is not the one it suspends, strips of the role or erases
\* (admin_view.go:285-310).
THEOREM ConsoleStaysReachable ==
  ASSUME OneByOne
  PROVE  Spec => []ConsoleReachable
  <1>1. Init => Typed /\ RoleInv
    <2> SUFFICES ASSUME Init PROVE RoleInv
      BY InitTyped
    <2>1. Pending = {}
      BY DEF Init, Pending
    <2> QED BY <2>1 DEF Init, RoleInv, AskedByAdmins, OnePending, ConsoleReachable, Admins
  <1>2. Typed /\ RoleInv /\ [Next]_vars => (Typed /\ RoleInv)'
    <2> SUFFICES ASSUME Typed, RoleInv, [Next]_vars PROVE RoleInv'
      BY NextTyped
    <2>1. CASE UNCHANGED vars
      BY <2>1, RolesKept DEF vars, roles, page, Pending, AsChange
    <2> QED BY <2>1, ElsewhereRoles, UseRoles, ServeRoles, AnsweredRoles DEF Next
  <1> QED BY <1>1, <1>2, PTL DEF Spec, RoleInv

------------------------------------------------------------------------
(* The page is current.  While the operator waits for a change to be       *)
(* answered and answers arrive in order, a change is the last request on   *)
(* the wire; the last load of the list and the last overview on it were    *)
(* sent after every change that was answered, and whatever is not on the   *)
(* wire is on screen.                                                      *)

Patient == Waits /\ InOrder

ChangesAreLast == \A i \in DOMAIN wire : wire[i].what \in Changes => i = Len(wire)

Showing(i) == wire[i].what = "rows" /\ wire[i].live
Reading(i) == wire[i].what = "overview"
Told(i) == wire[i].what \in AccountActs \cup {"handle"}

\* No change is owed to the screen before it is committed.
CountsAreDone ==
  /\ pane.owed <= done /\ overview.owed <= done
  /\ \A i \in DOMAIN wire : Told(i) /\ wire[i].at = "served" => wire[i].counted <= done

\* A change reads the list on screen again.
ChangesAreOfThisList ==
  \A i \in DOMAIN wire : Told(i) =>
    wire[i].live /\ wire[i].page = pane.page /\ wire[i].filter = pane.filter

\* The last load asks what the list should show, and knows what it should know.
LastLoadIsDue ==
  \A i \in DOMAIN wire : Showing(i) =>
    \/ \E j \in DOMAIN wire : j > i /\ Showing(j)
    \/ /\ wire[i].page = pane.page /\ wire[i].filter = pane.filter
       /\ wire[i].at = "served" => wire[i].counted >= pane.owed

NoneShowing == \A i \in DOMAIN wire : ~Showing(i)
LoadedIsCurrent ==
  NoneShowing /\ ~pane.failed /\ pane.data # None =>
    /\ pane.data.page = pane.page /\ pane.data.filter = pane.filter
    /\ pane.data.counted >= pane.owed

LastOverviewIsDue ==
  \A i \in DOMAIN wire : Reading(i) =>
    \/ \E j \in DOMAIN wire : j > i /\ Reading(j)
    \/ wire[i].at = "served" => wire[i].counted >= overview.owed

NoneReading == \A i \in DOMAIN wire : ~Reading(i)
TilesAreCurrent == NoneReading /\ ~overview.missed => overview.counted >= overview.owed

ListInv == CountsAreDone /\ ChangesAreOfThisList /\ LastLoadIsDue /\ LoadedIsCurrent
TilesInv == LastOverviewIsDue /\ TilesAreCurrent
ReadInv == ChangesAreLast /\ ListInv /\ TilesInv

\* Requests that take a step at the server, or none.
InPlace ==
  /\ DOMAIN wire' = DOMAIN wire /\ Len(wire') = Len(wire)
  /\ \A i \in DOMAIN wire :
       /\ wire'[i].what = wire[i].what /\ wire'[i].live = wire[i].live
       /\ wire'[i].page = wire[i].page /\ wire'[i].filter = wire[i].filter
       /\ wire'[i].at = "served" =>
            \/ wire[i].at = "served" /\ wire'[i].counted = wire[i].counted
            \/ /\ wire[i].what \in Reads => wire'[i].counted >= done
               /\ Told(i) => wire'[i].counted <= done'

LEMMA WireLength ==
  ASSUME Typed
  PROVE  /\ wire \in Seq(CallN) /\ Len(wire) \in Nat /\ DOMAIN wire = 1..Len(wire)
         /\ \A i \in DOMAIN wire : wire[i] \in CallN
         /\ pane \in PaneN /\ overview \in OverviewN /\ done \in Nat
         /\ pane.owed \in Nat /\ overview.owed \in Nat
BY DEF Typed, WireTyped, PageTyped, ServerTyped, PaneN, OverviewN

LEMMA InPlaceReads ==
  ASSUME Typed, Typed', ReadInv, InPlace, UNCHANGED <<pane, overview>>, done' >= done
  PROVE  ReadInv'
  <1>0. /\ pane.owed \in Nat /\ overview.owed \in Nat /\ done \in Nat /\ done' \in Nat
        /\ \A i \in DOMAIN wire : wire[i].counted \in Nat
        /\ \A i \in DOMAIN wire : wire'[i].counted \in Nat
    <2>1. \A c \in CallN : c.counted \in Nat
      BY DEF CallN
    <2>2. done' \in Nat /\ \A i \in DOMAIN wire' : wire'[i] \in CallN
      BY DEF Typed, WireTyped, ServerTyped
    <2> QED BY <2>1, <2>2, WireLength DEF InPlace
  <1>1. /\ DOMAIN wire' = DOMAIN wire /\ Len(wire') = Len(wire)
        /\ UNCHANGED <<pane, overview>>
        /\ \A i \in DOMAIN wire : /\ wire'[i].what = wire[i].what
                                  /\ Showing(i)' <=> Showing(i)
                                  /\ Reading(i)' <=> Reading(i)
                                  /\ Told(i)' <=> Told(i)
    BY DEF InPlace, Showing, Reading, Told
  <1>2. ChangesAreLast'
    BY <1>1 DEF ReadInv, ChangesAreLast
  <1>3. CountsAreDone'
    <2>1. pane'.owed <= done' /\ overview'.owed <= done'
      BY <1>0 DEF ReadInv, ListInv, CountsAreDone
    <2>2. ASSUME NEW i \in DOMAIN wire, Told(i), wire'[i].at = "served"
          PROVE  wire'[i].counted <= done'
      BY <1>0, <2>2 DEF ReadInv, ListInv, CountsAreDone, InPlace
    <2> QED BY <1>1, <2>1, <2>2 DEF CountsAreDone
  <1>4. ChangesAreOfThisList'
    BY <1>1 DEF ReadInv, ListInv, ChangesAreOfThisList, InPlace
  <1>5. LastLoadIsDue'
    <2> SUFFICES ASSUME NEW i \in DOMAIN wire, Showing(i),
                        ~\E j \in DOMAIN wire : j > i /\ Showing(j)
                 PROVE  /\ wire'[i].page = pane.page /\ wire'[i].filter = pane.filter
                        /\ wire'[i].at = "served" => wire'[i].counted >= pane.owed
      BY <1>1 DEF LastLoadIsDue
    <2>1. /\ wire[i].page = pane.page /\ wire[i].filter = pane.filter
          /\ wire[i].at = "served" => wire[i].counted >= pane.owed
      BY DEF ReadInv, ListInv, LastLoadIsDue
    <2>2. wire[i].what \in Reads /\ pane.owed <= done
      BY DEF Showing, Reads, ReadInv, ListInv, CountsAreDone
    <2> QED BY <1>0, <2>1, <2>2 DEF InPlace
  <1>6. LoadedIsCurrent'
    BY <1>1 DEF ReadInv, ListInv, LoadedIsCurrent, NoneShowing
  <1>7. LastOverviewIsDue'
    <2> SUFFICES ASSUME NEW i \in DOMAIN wire, Reading(i),
                        ~\E j \in DOMAIN wire : j > i /\ Reading(j),
                        wire'[i].at = "served"
                 PROVE  wire'[i].counted >= overview.owed
      BY <1>1 DEF LastOverviewIsDue
    <2>1. wire[i].at = "served" => wire[i].counted >= overview.owed
      BY DEF ReadInv, TilesInv, LastOverviewIsDue
    <2>2. wire[i].what \in Reads /\ overview.owed <= done
      BY DEF Reading, Reads, ReadInv, ListInv, CountsAreDone
    <2> QED BY <1>0, <2>1, <2>2 DEF InPlace
  <1>8. TilesAreCurrent'
    BY <1>1 DEF ReadInv, TilesInv, TilesAreCurrent, NoneReading
  <1> QED BY <1>2, <1>3, <1>4, <1>5, <1>6, <1>7, <1>8 DEF ReadInv, ListInv, TilesInv

\* A request is sent while no change is on the wire: a change to the list on
\* screen, or a load of the list that will be on screen.
LEMMA SentReads ==
  ASSUME Typed, Typed', ReadInv, ~Waiting, NEW c \in CallN, c.at = "sent",
         wire' = Append(wire, c), UNCHANGED <<overview, done>>,
         pane'.owed = pane.owed,
         \/ /\ UNCHANGED pane /\ c.what \in Changes /\ c.live
            /\ c.page = pane.page /\ c.filter = pane.filter
         \/ c.what = "rows" /\ c.live /\ c.page = pane'.page /\ c.filter = pane'.filter
  PROVE  ReadInv'
  <1>0. Len(wire) \in Nat /\ DOMAIN wire = 1..Len(wire) /\ pane.owed \in Nat
    BY WireLength
  <1> PICK n : n = Len(wire) + 1
    OBVIOUS
  <1>1. /\ Len(wire') = n /\ wire'[n] = c
        /\ DOMAIN wire' = 1..n
        /\ \A j \in DOMAIN wire : wire'[j] = wire[j]
    BY WireLength
  <1>2. \A i \in DOMAIN wire' : i \in DOMAIN wire \/ i = n
    BY <1>0, <1>1
  <1>3. \A i \in DOMAIN wire : wire[i].what \notin Changes
    BY DEF Waiting
  <1>4. \A i \in DOMAIN wire : i \in DOMAIN wire' /\ i < n
                                 /\ n \in DOMAIN wire'
    BY <1>0, <1>1
  <1>5. /\ \A i \in DOMAIN wire : ~Told(i) /\ ~Told(i)'
        /\ \A i \in DOMAIN wire : (Showing(i)' <=> Showing(i)) /\ (Reading(i)' <=> Reading(i))
        /\ Showing(n)' <=> (c.what = "rows" /\ c.live)
        /\ ~Reading(n)'
    BY <1>1, <1>3 DEF Told, Showing, Reading, Changes, AccountActs
  <1>6. ChangesAreLast'
    BY <1>1, <1>2, <1>3 DEF ChangesAreLast
  <1>7. CountsAreDone'
    BY <1>1, <1>2, <1>5 DEF CountsAreDone, ReadInv, ListInv
  <1>8. ChangesAreOfThisList'
    <2>1. ASSUME Told(n)'
          PROVE  c.live /\ c.page = pane'.page /\ c.filter = pane'.filter
      BY <1>1, <2>1 DEF Told, AccountActs
    <2> QED BY <1>1, <1>2, <1>5, <2>1 DEF ChangesAreOfThisList
  <1>9. LastLoadIsDue'
    <2>1. CASE c.what = "rows"
      BY <1>1, <1>2, <1>4, <1>5, <2>1 DEF LastLoadIsDue
    <2>2. CASE c.what # "rows"
      <3>1. UNCHANGED pane
        BY <2>2
      <3>2. ASSUME NEW i \in DOMAIN wire, Showing(i)
            PROVE  \/ \E j \in DOMAIN wire' : j > i /\ Showing(j)'
                   \/ /\ wire'[i].page = pane'.page /\ wire'[i].filter = pane'.filter
                      /\ wire'[i].at = "served" => wire'[i].counted >= pane'.owed
        <4>1. CASE \E j \in DOMAIN wire : j > i /\ Showing(j)
          BY <1>4, <1>5, <4>1
        <4>2. CASE ~\E j \in DOMAIN wire : j > i /\ Showing(j)
          BY <1>1, <3>1, <3>2, <4>2 DEF LastLoadIsDue, ReadInv, ListInv
        <4> QED BY <4>1, <4>2
      <3> QED BY <1>2, <1>5, <2>2, <3>2 DEF LastLoadIsDue
    <2> QED BY <2>1, <2>2
  <1>10. LoadedIsCurrent'
    <2>1. CASE c.what = "rows"
      <3>1. ~NoneShowing'
        BY <1>0, <1>1, <1>5, <2>1 DEF NoneShowing
      <3> QED BY <3>1 DEF LoadedIsCurrent
    <2>2. CASE c.what # "rows"
      <3>1. UNCHANGED pane
        BY <2>2
      <3>2. NoneShowing' => NoneShowing
        BY <1>4, <1>5 DEF NoneShowing
      <3> QED BY <3>1, <3>2 DEF LoadedIsCurrent, ReadInv, ListInv
    <2> QED BY <2>1, <2>2
  <1>11. LastOverviewIsDue'
    <2>1. ASSUME NEW i \in DOMAIN wire, Reading(i)
          PROVE  \/ \E j \in DOMAIN wire' : j > i /\ Reading(j)'
                 \/ wire'[i].at = "served" => wire'[i].counted >= overview'.owed
      <3>1. CASE \E j \in DOMAIN wire : j > i /\ Reading(j)
        BY <1>4, <1>5, <3>1
      <3>2. CASE ~\E j \in DOMAIN wire : j > i /\ Reading(j)
        BY <1>1, <2>1, <3>2 DEF LastOverviewIsDue, ReadInv, TilesInv
      <3> QED BY <3>1, <3>2
    <2> QED BY <1>2, <1>5, <2>1 DEF LastOverviewIsDue
  <1>12. TilesAreCurrent'
    <2>1. NoneReading' => NoneReading
      BY <1>4, <1>5 DEF NoneReading
    <2> QED BY <2>1 DEF TilesAreCurrent, ReadInv, TilesInv
  <1> QED BY <1>6, <1>7, <1>8, <1>9, <1>10, <1>11, <1>12 DEF ReadInv, ListInv, TilesInv

\* The first request leaves the wire, and leaves those behind it as they were.
LEMMA AnsweredReads ==
  ASSUME Typed, Typed', ReadInv, 1 \in DOMAIN wire, wire' = RemoveAt(wire, 1),
         UNCHANGED done, overview'.owed = overview.owed, pane'.owed = pane.owed,
         pane'.page = pane.page, pane'.filter = pane.filter
  PROVE  /\ ChangesAreLast' /\ CountsAreDone' /\ ChangesAreOfThisList'
         /\ LastLoadIsDue' /\ LastOverviewIsDue'
         /\ NoneShowing' => \A i \in DOMAIN wire : Showing(i) => i = 1
         /\ NoneReading' => \A i \in DOMAIN wire : Reading(i) => i = 1
  <1>0. Len(wire) \in Nat /\ DOMAIN wire = 1..Len(wire)
    BY WireLength
  <1>1. /\ WireTyped' /\ Len(wire') = Len(wire) - 1
        /\ \A j \in 1..Len(wire) - 1 : wire'[j] = IF j < 1 THEN wire[j] ELSE wire[j + 1]
    BY WireRemoved DEF Typed
  <1>2. DOMAIN wire' = 1..Len(wire) - 1
    BY <1>0, <1>1 DEF WireTyped
  <1>3. \A j \in DOMAIN wire' :
          j + 1 \in DOMAIN wire /\ wire'[j] = wire[j + 1] /\ j \in Nat
    BY <1>0, <1>1, <1>2
  <1>4. \A i \in DOMAIN wire : i > 1 => i - 1 \in DOMAIN wire' /\ wire'[i - 1] = wire[i]
    BY <1>0, <1>1, <1>2
  <1>5. ChangesAreLast'
    BY <1>0, <1>1, <1>3 DEF ChangesAreLast, ReadInv
  <1>6. CountsAreDone'
    BY <1>3 DEF CountsAreDone, Told, ReadInv, ListInv
  <1>7. ChangesAreOfThisList'
    BY <1>3 DEF ChangesAreOfThisList, Told, ReadInv, ListInv
  <1>8. LastLoadIsDue'
    <2> SUFFICES ASSUME NEW k \in DOMAIN wire', Showing(k)'
                 PROVE  \/ \E j \in DOMAIN wire' : j > k /\ Showing(j)'
                        \/ /\ wire'[k].page = pane.page /\ wire'[k].filter = pane.filter
                           /\ wire'[k].at = "served" => wire'[k].counted >= pane.owed
      BY DEF LastLoadIsDue
    <2>1. k + 1 \in DOMAIN wire /\ Showing(k + 1) /\ wire'[k] = wire[k + 1] /\ k \in Nat
      BY <1>3 DEF Showing
    <2>2. CASE \E j \in DOMAIN wire : j > k + 1 /\ Showing(j)
      <3>1. PICK j \in DOMAIN wire : j > k + 1 /\ Showing(j)
        BY <2>2
      <3>2. j - 1 \in DOMAIN wire' /\ wire'[j - 1] = wire[j] /\ j - 1 > k
        BY <1>0, <1>4, <2>1, <3>1
      <3> QED BY <3>1, <3>2 DEF Showing
    <2>3. CASE ~\E j \in DOMAIN wire : j > k + 1 /\ Showing(j)
      BY <2>1, <2>3 DEF LastLoadIsDue, ReadInv, ListInv
    <2> QED BY <2>2, <2>3
  <1>9. LastOverviewIsDue'
    <2> SUFFICES ASSUME NEW k \in DOMAIN wire', Reading(k)'
                 PROVE  \/ \E j \in DOMAIN wire' : j > k /\ Reading(j)'
                        \/ wire'[k].at = "served" => wire'[k].counted >= overview.owed
      BY DEF LastOverviewIsDue
    <2>1. k + 1 \in DOMAIN wire /\ Reading(k + 1) /\ wire'[k] = wire[k + 1] /\ k \in Nat
      BY <1>3 DEF Reading
    <2>2. CASE \E j \in DOMAIN wire : j > k + 1 /\ Reading(j)
      <3>1. PICK j \in DOMAIN wire : j > k + 1 /\ Reading(j)
        BY <2>2
      <3>2. j - 1 \in DOMAIN wire' /\ wire'[j - 1] = wire[j] /\ j - 1 > k
        BY <1>0, <1>4, <2>1, <3>1
      <3> QED BY <3>1, <3>2 DEF Reading
    <2>3. CASE ~\E j \in DOMAIN wire : j > k + 1 /\ Reading(j)
      BY <2>1, <2>3 DEF LastOverviewIsDue, ReadInv, TilesInv
    <2> QED BY <2>2, <2>3
  <1>10. ASSUME NoneShowing', NEW i \in DOMAIN wire, Showing(i) PROVE i = 1
    BY <1>0, <1>4, <1>10 DEF NoneShowing, Showing
  <1>11. ASSUME NoneReading', NEW i \in DOMAIN wire, Reading(i) PROVE i = 1
    BY <1>0, <1>4, <1>11 DEF NoneReading, Reading
  <1> QED BY <1>5, <1>6, <1>7, <1>8, <1>9, <1>10, <1>11

LEMMA ServeReads ==
  ASSUME Typed, Typed', ReadInv, NEW i \in DOMAIN wire, Serve(i)
  PROVE  ReadInv'
  <1>0. /\ wire[i] \in CallN /\ wire \in Seq(CallN) /\ done \in Nat
        /\ DOMAIN wire' = DOMAIN wire /\ Len(wire') = Len(wire) /\ UNCHANGED <<pane, overview>>
        /\ \A j \in DOMAIN wire : j # i => wire'[j] = wire[j]
    BY WireLength DEF Serve, Refuse, ServeRead, ServeSave, ServeHandled, DecideMine,
                      CommitMine, Reaches, page
  <1>1. /\ wire'[i].what = wire[i].what /\ wire'[i].live = wire[i].live
        /\ wire'[i].page = wire[i].page /\ wire'[i].filter = wire[i].filter
        /\ done' >= done
        /\ wire'[i].at = "served" =>
             /\ wire[i].what \in Reads => wire'[i].counted >= done
             /\ Told(i) => wire'[i].counted <= done'
    <2>0. /\ wire[i].what \in Reads => wire[i].what \notin AccountActs \cup {"handle"}
          /\ wire[i].what = "save" => wire[i].what \notin AccountActs \cup {"handle"}
          /\ wire[i].what \in {"save", "handle"} => wire[i].what \notin Reads
          /\ wire[i].at = "decided" => wire[i].what \notin Reads
      BY DEF Reads, AccountActs, Typed, WireTyped, OnlyAccountsAreDecided
    <2>1. CASE Refuse(i)
      <3>1. wire'[i] = [wire[i] EXCEPT !.at = "refused"] /\ done' = done
        BY <1>0, <2>1 DEF Refuse, Reaches
      <3> QED BY <1>0, <3>1 DEF CallN
    <2>2. CASE ServeRead(i)
      <3>1. /\ wire'[i] = [wire[i] EXCEPT !.at = "served", !.counted = done,
                             !.held = IF wire[i].what = "overview" THEN settings ELSE @]
            /\ done' = done /\ wire[i].what \in Reads
        BY <1>0, <2>2 DEF ServeRead, Reaches
      <3> QED BY <1>0, <2>0, <3>1 DEF CallN, Told
    <2>3. CASE ServeSave(i)
      <3>1. /\ wire'[i] = [wire[i] EXCEPT !.at = "served"]
            /\ done' = done + 1 /\ wire[i].what = "save"
        BY <1>0, <2>3 DEF ServeSave, Reaches
      <3> QED BY <1>0, <2>0, <3>1 DEF CallN, Told
    <2>4. CASE ServeHandled(i)
      <3>1. /\ wire'[i] = [wire[i] EXCEPT !.at = "served", !.counted = done + 1]
            /\ done' = done + 1 /\ wire[i].what = "handle"
        BY <1>0, <2>4 DEF ServeHandled, Reaches
      <3> QED BY <1>0, <2>0, <3>1 DEF CallN, Told
    <2>5. CASE DecideMine(i)
      <3>1. wire'[i] = [wire[i] EXCEPT !.at = "decided"] /\ done' = done
        BY <1>0, <2>5 DEF DecideMine, Reaches
      <3> QED BY <1>0, <3>1 DEF CallN
    <2>6. CASE CommitMine(i)
      <3>1. CASE wire'[i] = [wire[i] EXCEPT !.at = "refused"] /\ done' = done
        BY <1>0, <3>1 DEF CallN
      <3>2. CASE /\ wire'[i] = [wire[i] EXCEPT !.at = "served", !.counted = done + 1]
                 /\ done' = done + 1
        <4>1. wire[i].what \notin Reads
          BY <2>0, <2>6 DEF CommitMine
        <4> QED BY <1>0, <3>2, <4>1 DEF CallN
      <3> QED BY <1>0, <2>6, <3>1, <3>2 DEF CommitMine, Reaches
    <2> QED BY <2>1, <2>2, <2>3, <2>4, <2>5, <2>6 DEF Serve
  <1>2. InPlace
    BY <1>0, <1>1 DEF InPlace
  <1> QED BY <1>0, <1>1, <1>2, InPlaceReads

LEMMA ElsewhereReads ==
  ASSUME Typed, Typed', ReadInv, Elsewhere
  PROVE  ReadInv'
  <1>1. UNCHANGED <<pane, overview>> /\ done' >= done
    BY WireLength DEF Elsewhere, Decide, Commit, SignIn, EraseSelf, Restart, page
  <1>2. InPlace
    <2>1. CASE UNCHANGED wire
      BY <2>1 DEF InPlace
    <2>2. CASE Restart
      <3>1. /\ WireTyped' /\ Len(wire') = Len(wire)
            /\ \A j \in DOMAIN wire : wire'[j] = IF wire[j].at = "decided"
                            THEN [wire[j] EXCEPT !.at = "refused"] ELSE wire[j]
        BY <2>2, RestartWire
      <3>2. DOMAIN wire' = DOMAIN wire
        BY <3>1, WireLength DEF WireTyped
      <3>3. \A j \in DOMAIN wire : wire[j] \in CallN
        BY WireLength
      <3> QED BY <3>1, <3>2, <3>3 DEF InPlace, CallN
    <2> QED BY <2>1, <2>2 DEF Elsewhere, Decide, Commit, SignIn, EraseSelf
  <1> QED BY <1>1, <1>2, InPlaceReads

LEMMA OpenTabReads ==
  ASSUME Typed, Typed', ReadInv, Patient, NEW t \in Tabs, OpenTab(t)
  PROVE  ReadInv'
  <1>0. Len(wire) \in Nat /\ DOMAIN wire = 1..Len(wire)
          /\ \A i \in DOMAIN wire : wire[i] \in CallN
    BY WireLength
  <1>1. /\ WireTyped' /\ Len(wire') = IF t = "overview" THEN Len(wire) ELSE Len(wire) + 1
        /\ \A i \in DOMAIN wire :
              wire'[i] = IF wire[i].what = "overview" THEN wire[i]
                         ELSE [wire[i] EXCEPT !.live = FALSE, !.busy = FALSE]
        /\ t # "overview" => wire'[Len(wire) + 1] = Load(0, None)
    BY OpenTabWire
  <1>2. /\ UNCHANGED <<overview, done>> /\ pane' = Fresh
        /\ \A i \in DOMAIN wire : wire[i].what \notin Changes
    BY DEF OpenTab, MovesOn, Patient, Waiting, server
  <1>3. /\ Fresh.page = 0 /\ Fresh.filter = None /\ Fresh.owed = 0 /\ Fresh.data = None
        /\ Load(0, None).what = "rows" /\ Load(0, None).page = 0
        /\ Load(0, None).filter = None /\ Load(0, None).at = "sent"
    BY DEF Fresh, Load, NoCall
  <1> PICK n : n = Len(wire) + 1
    OBVIOUS
  <1>4. \A i \in DOMAIN wire' : i \in DOMAIN wire \/ (i = n /\ wire'[n] = Load(0, None))
    <2>1. wire' \in Seq(CallN)
      BY <1>1 DEF WireTyped
    <2>2. DOMAIN wire' = 1..Len(wire')
      BY <2>1
    <2>3. Len(wire') = IF t = "overview" THEN Len(wire) ELSE Len(wire) + 1
      BY <1>1
    <2>4. t # "overview" => wire'[n] = Load(0, None)
      BY <1>1
    <2> QED BY <1>0, <2>2, <2>3, <2>4
  <1>5. \A i \in DOMAIN wire : /\ i \in DOMAIN wire'
                               /\ wire'[i].what = wire[i].what /\ wire'[i].at = wire[i].at
                               /\ wire'[i].counted = wire[i].counted
                               /\ wire[i].what # "overview" => wire'[i].live = FALSE
    <2>1. wire' \in Seq(CallN)
      BY <1>1 DEF WireTyped
    <2>2. DOMAIN wire' = 1..Len(wire')
      BY <2>1
    <2>3. Len(wire') = Len(wire) \/ Len(wire') = Len(wire) + 1
      BY <1>1
    <2>4. \A i \in DOMAIN wire : i \in DOMAIN wire'
      <3>1. Len(wire) \in Nat /\ DOMAIN wire = 1..Len(wire)
        BY <1>0
      <3>2. 1..Len(wire) \subseteq 1..Len(wire')
        BY <2>3, <3>1
      <3> QED BY <2>2, <3>1, <3>2
    <2>5. ASSUME NEW i \in DOMAIN wire
          PROVE  /\ wire'[i].what = wire[i].what /\ wire'[i].at = wire[i].at
                 /\ wire'[i].counted = wire[i].counted
                 /\ wire[i].what # "overview" => wire'[i].live = FALSE
      <3>1. wire[i] \in CallN
        BY <1>0
      <3>2. wire'[i] = IF wire[i].what = "overview" THEN wire[i]
                       ELSE [wire[i] EXCEPT !.live = FALSE, !.busy = FALSE]
        BY <1>1
      <3> QED BY <3>1, <3>2 DEF CallN
    <2> QED BY <2>4, <2>5
  <1>6. /\ \A i \in DOMAIN wire : ~Showing(i)' /\ ~Told(i)' /\ wire'[i].what \notin Changes
        /\ \A i \in DOMAIN wire : Reading(i)' <=> Reading(i)
        /\ wire'[n] = Load(0, None) =>
             ~Told(n)' /\ ~Reading(n)' /\ wire'[n].what \notin Changes
    <2>1. \A i \in DOMAIN wire : ~Showing(i)' /\ wire'[i].what \notin Changes
      BY <1>2, <1>5 DEF Showing
    <2>2. \A i \in DOMAIN wire : Reading(i)' <=> Reading(i)
      BY <1>5 DEF Reading
    <2>3. \A i : Told(i)' => wire'[i].what \in Changes
      BY DEF Told, Changes
    <2>4. Load(0, None).what \notin Changes
      BY <1>3 DEF Changes, AccountActs
    <2> QED BY <1>3, <2>1, <2>2, <2>3, <2>4 DEF Reading
  <1>7. ChangesAreLast' /\ ChangesAreOfThisList'
    BY <1>4, <1>6 DEF ChangesAreLast, ChangesAreOfThisList
  <1>8. CountsAreDone'
    BY <1>2, <1>3, <1>4, <1>6, WireLength DEF CountsAreDone, ReadInv, ListInv
  <1>9. LastLoadIsDue' /\ LoadedIsCurrent'
    BY <1>2, <1>3, <1>4, <1>6 DEF LastLoadIsDue, LoadedIsCurrent
  <1>10. LastOverviewIsDue'
    BY <1>2, <1>4, <1>5, <1>6 DEF LastOverviewIsDue, ReadInv, TilesInv
  <1>11. TilesAreCurrent'
    <2>1. NoneReading' => NoneReading
      BY <1>5, <1>6 DEF NoneReading
    <2> QED BY <1>2, <2>1 DEF TilesAreCurrent, ReadInv, TilesInv
  <1> QED BY <1>7, <1>8, <1>9, <1>10, <1>11 DEF ReadInv, ListInv, TilesInv

LEMMA UseReads ==
  ASSUME Typed, Typed', ReadInv, Patient, Use
  PROVE  ReadInv'
  <1>0. UNCHANGED done
    BY DEF Use, OpenTab, Filter, Turn, Retry, SetHandled, Sends, CloseDialog, OpenDialog,
           Act, Save, MovesOn, server
  <1>1. ASSUME NEW t \in Tabs, OpenTab(t) PROVE ReadInv'
    BY <1>1, OpenTabReads
  <1>2. ASSUME NEW p \in Nat, NEW f \in Filters, Asks(p, f), MovesOn PROVE ReadInv'
    <2>1. ~Waiting /\ UNCHANGED overview
      BY <1>2 DEF MovesOn, Patient
    <2>2. pane'.owed = pane.owed /\ pane'.page = p /\ pane'.filter = f
          /\ pane'.data = pane.data
          /\ (<<p, f>> = <<pane.page, pane.filter>> => pane' = pane)
      BY <1>2, WireLength DEF Asks, PaneN
    <2>3. CASE <<p, f>> = <<pane.page, pane.filter>>
      <3>1. UNCHANGED <<pane, wire>>
        BY <1>2, <2>2, <2>3 DEF Asks
      <3>2. InPlace
        BY <3>1 DEF InPlace
      <3> QED BY <1>0, <2>1, <3>1, <3>2, InPlaceReads, WireLength
    <2>4. CASE <<p, f>> # <<pane.page, pane.filter>>
      <3> DEFINE c == Load(p, f)
      <3>1. c \in CallN /\ c.at = "sent" /\ c.what = "rows" /\ c.live
              /\ c.page = p /\ c.filter = f
        BY CallsAreCalls DEF Load, NoCall
      <3>2. wire' = Append(wire, c)
        BY <1>2, <2>4 DEF Asks
      <3> HIDE DEF c
      <3> QED BY <1>0, <2>1, <2>2, <3>1, <3>2, SentReads
    <2> QED BY <2>3, <2>4
  <1>3. ASSUME NEW c \in CallN, c.what \in Changes, c.live, c.at = "sent", Sends(c)
        PROVE  ReadInv'
    <2> DEFINE d == [c EXCEPT !.busy = TRUE, !.page = pane.page, !.filter = pane.filter]
    <2>1. /\ d \in CallN /\ d.at = "sent" /\ d.what \in Changes /\ d.live
          /\ d.page = pane.page /\ d.filter = pane.filter
      BY <1>3, WireLength DEF CallN, PaneN
    <2>2. wire' = Append(wire, d) /\ UNCHANGED <<pane, overview>> /\ ~Waiting
      BY <1>3 DEF Sends, Patient, page
    <2> HIDE DEF d
    <2> QED BY <1>0, <2>1, <2>2, SentReads
  <1>4. NoCall.live
    BY DEF NoCall
  <1>5. ASSUME NEW f \in Filters, Filter(f) PROVE ReadInv'
    BY <1>2, <1>5 DEF Filter
  <1>6. ASSUME NEW d \in {-1, 1}, Turn(d) PROVE ReadInv'
    <2>1. PICK p \in 0..MaxPage : Asks(p, pane.filter)
      BY <1>6 DEF Turn
    <2>2. p \in Nat /\ pane.filter \in Filters
      BY BoundAssumption, WireLength DEF PaneN
    <2> QED BY <1>2, <1>6, <2>1, <2>2 DEF Turn
  <1>7. CASE Retry
    <2> DEFINE c == Load(pane.page, pane.filter)
    <2>1. c \in CallN /\ c.at = "sent" /\ c.what = "rows" /\ c.live
              /\ c.page = pane.page /\ c.filter = pane.filter
      BY CallsAreCalls, WireLength DEF Load, NoCall, PaneN
    <2>2. /\ wire' = Append(wire, c) /\ ~Waiting /\ UNCHANGED overview
          /\ pane'.owed = pane.owed /\ pane'.page = pane.page /\ pane'.filter = pane.filter
      BY <1>7, WireLength DEF Retry, MovesOn, Patient, PaneN
    <2> HIDE DEF c
    <2> QED BY <1>0, <2>1, <2>2, SentReads
  <1>8. CASE SetHandled
    <2>1. [NoCall EXCEPT !.what = "handle"].live /\ "handle" \in Changes
            /\ [NoCall EXCEPT !.what = "handle"].what = "handle"
      BY DEF NoCall, Changes
    <2> QED BY <1>3, <1>8, <2>1, ChangesAreCalls DEF SetHandled
  <1>9. CASE CloseDialog
    <2>1. /\ WireTyped' /\ Len(wire') = Len(wire)
          /\ \A i \in DOMAIN wire : wire'[i] = [wire[i] EXCEPT !.busy = FALSE]
      BY <1>9, CloseDialogWire
    <2>2. DOMAIN wire' = DOMAIN wire
      BY <2>1, WireLength DEF WireTyped
    <2>3. \A i \in DOMAIN wire : wire[i] \in CallN
      BY WireLength
    <2>4. InPlace
      BY <2>1, <2>2, <2>3 DEF InPlace, CallN
    <2> QED BY <1>0, <1>9, <2>4, InPlaceReads, WireLength DEF CloseDialog
  <1>10. ASSUME NEW u \in Users, OpenDialog(u) PROVE ReadInv'
    <2>1. UNCHANGED <<wire, pane, overview>> /\ InPlace
      BY <1>10 DEF OpenDialog, InPlace
    <2> QED BY <1>0, <2>1, InPlaceReads, WireLength
  <1>11. ASSUME NEW what \in AccountActs, Act(what) PROVE ReadInv'
    <2>1. selected \in Users \cup {None}
      BY DEF Typed, PageTyped
    <2>2. /\ [NoCall EXCEPT !.what = what, !.on = selected].live /\ what \in Changes
          /\ [NoCall EXCEPT !.what = what, !.on = selected].what = what
      BY DEF NoCall, Changes
    <2> QED BY <1>3, <1>11, <2>1, <2>2, ChangesAreCalls DEF Act
  <1>12. ASSUME NEW k \in Keys, Save(k) PROVE ReadInv'
    <2> DEFINE c == [NoCall EXCEPT !.what = "save", !.on = k,
                          !.value = ~overview.switches[k], !.held = overview.switches]
    <2>1. c.live /\ c.what \in Changes
      BY DEF NoCall, Changes
    <2>2. c \in CallN /\ c.at = "sent" /\ Sends(c)
      BY <1>12, ChangesAreCalls DEF Save
    <2> HIDE DEF c
    <2> QED BY <1>3, <2>1, <2>2
  <1> QED BY <1>1, <1>5, <1>6, <1>7, <1>8, <1>9, <1>10, <1>11, <1>12 DEF Use

LEMMA OneChangeAlone ==
  ASSUME Typed, ReadInv, 1 \in DOMAIN wire, wire[1].what \in Changes
  PROVE  Len(wire) = 1
BY WireLength DEF ReadInv, ChangesAreLast

LEMMA AnswersReads ==
  ASSUME Typed, Typed', ReadInv, Patient, NEW i \in DOMAIN wire, Answered(i)
  PROVE  ReadInv'
  <1>0. i = 1 /\ UNCHANGED done /\ wire[1] \in CallN /\ pane \in PaneN
          /\ overview \in OverviewN /\ 1 \in DOMAIN wire
    BY WireLength DEF Answered, RowsAnswered, OverviewAnswered, SaveAnswered, ChangeAnswered,
                      ChangeRefused, Lost, Arrives, Patient, server
  <1> DEFINE kept == /\ wire' = RemoveAt(wire, 1) /\ overview'.owed = overview.owed
                     /\ pane'.owed = pane.owed
                     /\ pane'.page = pane.page /\ pane'.filter = pane.filter
  <1>1. ASSUME kept, LoadedIsCurrent', TilesAreCurrent'
        PROVE  ReadInv'
    BY <1>0, <1>1, AnsweredReads DEF ReadInv, ListInv, TilesInv
  <1>2. ASSUME kept, ~Showing(1), UNCHANGED pane
        PROVE  LoadedIsCurrent'
    <2>1. NoneShowing' => NoneShowing
      BY <1>0, <1>2, AnsweredReads DEF NoneShowing
    <2> QED BY <1>2, <2>1 DEF ReadInv, ListInv, LoadedIsCurrent
  <1>3. ASSUME kept, ~Reading(1), overview'.counted = overview.counted,
               overview'.missed = overview.missed
        PROVE  TilesAreCurrent'
    <2>1. NoneReading' => NoneReading
      BY <1>0, <1>3, AnsweredReads DEF NoneReading
    <2> QED BY <1>3, <2>1 DEF ReadInv, TilesInv, TilesAreCurrent
  <1>4. ASSUME kept, wire[1].at = "served", Showing(1),
               pane'.data = [page |-> wire[1].page, filter |-> wire[1].filter,
                             counted |-> wire[1].counted]
        PROVE  LoadedIsCurrent'
    <2> SUFFICES ASSUME NoneShowing'
                 PROVE  /\ wire[1].page = pane.page /\ wire[1].filter = pane.filter
                        /\ wire[1].counted >= pane.owed
      BY <1>4 DEF LoadedIsCurrent
    <2>1. ~\E j \in DOMAIN wire : j > 1 /\ Showing(j)
      BY <1>0, <1>4, AnsweredReads, WireLength
    <2> QED BY <1>0, <1>4, <2>1 DEF ReadInv, ListInv, LastLoadIsDue
  <1>5. ASSUME kept, wire[1].at = "served", Reading(1), overview'.counted = wire[1].counted
        PROVE  TilesAreCurrent'
    <2> SUFFICES ASSUME NoneReading'
                 PROVE  wire[1].counted >= overview.owed
      BY <1>5 DEF TilesAreCurrent
    <2>1. ~\E j \in DOMAIN wire : j > 1 /\ Reading(j)
      BY <1>0, <1>5, AnsweredReads, WireLength
    <2> QED BY <1>0, <1>5, <2>1 DEF ReadInv, TilesInv, LastOverviewIsDue
  <1>6. CASE RowsAnswered(i)
    <2>1. kept
      BY <1>0, <1>6 DEF RowsAnswered, PaneN
    <2>2. LoadedIsCurrent'
      <3>1. CASE ~wire[1].live
        BY <1>0, <1>2, <1>6, <2>1, <3>1 DEF RowsAnswered, Showing
      <3>2. CASE wire[1].live /\ wire[1].at = "refused"
        <4>1. pane'.failed
          BY <1>0, <1>6, <3>2 DEF RowsAnswered, PaneN
        <4> QED BY <4>1 DEF LoadedIsCurrent
      <3>3. CASE wire[1].live /\ wire[1].at # "refused"
        <4>1. /\ Showing(1) /\ wire[1].at = "served"
              /\ pane'.data = [page |-> wire[1].page, filter |-> wire[1].filter,
                               counted |-> wire[1].counted]
          BY <1>0, <1>6, <3>3 DEF RowsAnswered, PaneN, Showing, Arrives
        <4> QED BY <1>4, <2>1, <4>1
      <3> QED BY <3>1, <3>2, <3>3
    <2>3. TilesAreCurrent'
      BY <1>0, <1>3, <1>6, <2>1 DEF RowsAnswered, Reading
    <2> HIDE DEF kept
    <2> QED BY <1>1, <2>1, <2>2, <2>3
  <1>7. CASE OverviewAnswered(i)
    <2>1. kept
      BY <1>0, <1>7 DEF OverviewAnswered, OverviewN
    <2>2. LoadedIsCurrent'
      BY <1>0, <1>2, <1>7, <2>1 DEF OverviewAnswered, Showing
    <2>3. TilesAreCurrent'
      <3>1. CASE wire[1].at = "refused"
        <4>1. overview'.missed
          BY <1>0, <1>7, <3>1 DEF OverviewAnswered, OverviewN
        <4> QED BY <4>1 DEF TilesAreCurrent
      <3>2. CASE wire[1].at # "refused"
        <4>1. Reading(1) /\ wire[1].at = "served" /\ overview'.counted = wire[1].counted
          BY <1>0, <1>7, <3>2 DEF OverviewAnswered, OverviewN, Reading, Arrives
        <4> QED BY <1>5, <2>1, <4>1
      <3> QED BY <3>1, <3>2
    <2> HIDE DEF kept
    <2> QED BY <1>1, <2>1, <2>2, <2>3
  <1>8. CASE SaveAnswered(i)
    <2>1. kept /\ ~Showing(1) /\ ~Reading(1) /\ UNCHANGED pane
            /\ overview'.counted = overview.counted /\ overview'.missed = overview.missed
      BY <1>0, <1>8 DEF SaveAnswered, OverviewN, Showing, Reading
    <2> HIDE DEF kept
    <2> QED BY <1>1, <1>2, <1>3, <2>1
  <1>9. CASE ChangeRefused(i)
    <2>1. kept /\ ~Showing(1) /\ ~Reading(1) /\ UNCHANGED <<pane, overview>>
      BY <1>0, <1>9 DEF ChangeRefused, Showing, Reading, AccountActs
    <2> HIDE DEF kept
    <2> QED BY <1>1, <1>2, <1>3, <2>1
  <1>10. CASE Lost(i)
    <2>1. kept /\ overview'.counted = overview.counted
      BY <1>0, <1>10 DEF Lost, OverviewN, PaneN
    <2>2. LoadedIsCurrent'
      <3>1. CASE Showing(1)
        <4>1. pane'.failed
          BY <1>0, <1>10, <3>1 DEF Lost, PaneN, Showing
        <4> QED BY <4>1 DEF LoadedIsCurrent
      <3>2. CASE ~Showing(1)
        BY <1>0, <1>2, <1>10, <2>1, <3>2 DEF Lost, Showing
      <3> QED BY <3>1, <3>2
    <2>3. TilesAreCurrent'
      <3>1. CASE Reading(1)
        <4>1. overview'.missed
          BY <1>0, <1>10, <3>1 DEF Lost, OverviewN, Reading
        <4> QED BY <4>1 DEF TilesAreCurrent
      <3>2. CASE ~Reading(1)
        <4>1. overview'.missed = overview.missed
          BY <1>0, <1>10, <3>2 DEF Lost, OverviewN, Reading
        <4> QED BY <1>3, <2>1, <3>2, <4>1
      <3> QED BY <3>1, <3>2
    <2> HIDE DEF kept
    <2> QED BY <1>1, <2>1, <2>2, <2>3
  <1>11. CASE ChangeAnswered(i)
    <2> DEFINE a == [Load(wire[1].page, wire[1].filter) EXCEPT !.live = wire[1].live]
    <2>1. wire[1].what \in Changes /\ Told(1) /\ wire[1].at = "served"
      BY <1>0, <1>11 DEF ChangeAnswered, Changes, Told
    <2>2. Len(wire) = 1
      BY <1>0, <2>1, OneChangeAlone
    <2>3. /\ wire' \in Seq(CallN) /\ Len(wire') = 2
          /\ wire'[1] = a /\ wire'[2] = RefreshOverview
      <3>1. /\ WireTyped' /\ Len(wire') = Len(wire) + 1
            /\ wire'[Len(wire)] = a /\ wire'[Len(wire) + 1] = RefreshOverview
        BY <1>0, <1>11, ChangeAnsweredWire
      <3> QED BY <2>2, <3>1 DEF WireTyped
    <2>4. /\ wire[1].live /\ wire[1].page = pane.page /\ wire[1].filter = pane.filter
          /\ wire[1].counted <= done /\ wire[1].counted \in Nat
      BY <1>0, <2>1 DEF ReadInv, ListInv, ChangesAreOfThisList, CountsAreDone, CallN
    <2>5. /\ a.what = "rows" /\ a.live /\ a.page = pane.page /\ a.filter = pane.filter
          /\ a.at = "sent" /\ RefreshOverview.what = "overview" /\ RefreshOverview.at = "sent"
      BY <2>4 DEF Load, NoCall, RefreshOverview
    <2> HIDE DEF a
    <2>6. /\ pane'.owed = wire[1].counted /\ overview'.owed = wire[1].counted
          /\ pane'.page = pane.page /\ pane'.filter = pane.filter
      BY <1>0, <1>11, <2>4 DEF ChangeAnswered, PaneN, OverviewN
    <2>7. \A j \in DOMAIN wire' : j = 1 \/ j = 2
      BY <2>3
    <2>8. 1 \in DOMAIN wire' /\ 2 \in DOMAIN wire'
      BY <2>3
    <2>9. Showing(1)' /\ Reading(2)' /\ ~Reading(1)' /\ ~Showing(2)' /\ ~Told(1)' /\ ~Told(2)'
      BY <2>3, <2>5 DEF Showing, Reading, Told, AccountActs
    <2>10. ChangesAreLast'
      BY <2>3, <2>5, <2>7 DEF ChangesAreLast, Changes, AccountActs
    <2>11. CountsAreDone' /\ ChangesAreOfThisList'
      BY <1>0, <2>4, <2>6, <2>7, <2>9 DEF CountsAreDone, ChangesAreOfThisList
    <2>12. LastLoadIsDue' /\ LastOverviewIsDue'
      BY <2>3, <2>5, <2>6, <2>7, <2>9 DEF LastLoadIsDue, LastOverviewIsDue
    <2>13. LoadedIsCurrent' /\ TilesAreCurrent'
      BY <2>8, <2>9 DEF LoadedIsCurrent, TilesAreCurrent, NoneShowing, NoneReading
    <2> QED BY <2>10, <2>11, <2>12, <2>13 DEF ReadInv, ListInv, TilesInv
  <1> HIDE DEF kept
  <1> QED BY <1>6, <1>7, <1>8, <1>9, <1>10, <1>11 DEF Answered

------------------------------------------------------------------------
(* The switches.  Until a save is served, what the panel and the overviews *)
(* on the wire hold is what is stored; a save knows the other settings, so *)
(* its answer is what is stored as well.                                   *)

Saving(i) == wire[i].what = "save"
Saved == \E i \in DOMAIN wire : Saving(i) /\ wire[i].at = "served"

SwitchesAreStored == ~overview.unsure /\ ~Saved => overview.switches = settings
ReadSwitchesAreStored ==
  ~Saved => \A i \in DOMAIN wire :
              Reading(i) /\ wire[i].at = "served" => wire[i].held = settings
SavesKnowTheRest ==
  ~overview.unsure => \A i \in DOMAIN wire : Saving(i) =>
    settings = IF wire[i].at = "served"
               THEN [wire[i].held EXCEPT ![wire[i].on] = wire[i].value] ELSE wire[i].held
SwitchInv == SwitchesAreStored /\ ReadSwitchesAreStored /\ SavesKnowTheRest

\* Reads are served, and no save is.
NoSaveServed ==
  /\ DOMAIN wire' = DOMAIN wire
  /\ \A i \in DOMAIN wire :
       /\ wire'[i].what = wire[i].what
       /\ Saving(i) => /\ wire'[i].on = wire[i].on /\ wire'[i].value = wire[i].value
                       /\ wire'[i].held = wire[i].held
                       /\ wire'[i].at = "served" <=> wire[i].at = "served"
       /\ Reading(i) /\ wire'[i].at = "served" =>
            (wire[i].at = "served" /\ wire'[i].held = wire[i].held)
              \/ wire'[i].held = settings

LEMMA NoSaveServedKeeps ==
  ASSUME SwitchInv, NoSaveServed, UNCHANGED <<settings, overview>>
  PROVE  SwitchInv'
  <1>1. /\ DOMAIN wire' = DOMAIN wire
        /\ \A i \in DOMAIN wire : (Saving(i)' <=> Saving(i)) /\ (Reading(i)' <=> Reading(i))
    BY DEF NoSaveServed, Saving, Reading
  <1>2. Saved' <=> Saved
    BY <1>1 DEF NoSaveServed, Saved
  <1>3. SwitchesAreStored'
    BY <1>2 DEF SwitchInv, SwitchesAreStored
  <1>4. ReadSwitchesAreStored'
    BY <1>1, <1>2 DEF SwitchInv, ReadSwitchesAreStored, NoSaveServed
  <1>5. SavesKnowTheRest'
    <2> SUFFICES ASSUME ~overview.unsure, NEW i \in DOMAIN wire, Saving(i)
                 PROVE  settings = IF wire'[i].at = "served"
                          THEN [wire'[i].held EXCEPT ![wire'[i].on] = wire'[i].value]
                          ELSE wire'[i].held
      BY <1>1 DEF SavesKnowTheRest
    <2>1. settings = IF wire[i].at = "served"
               THEN [wire[i].held EXCEPT ![wire[i].on] = wire[i].value] ELSE wire[i].held
      BY DEF SwitchInv, SavesKnowTheRest
    <2>2. /\ wire'[i].on = wire[i].on /\ wire'[i].value = wire[i].value
          /\ wire'[i].held = wire[i].held
          /\ wire'[i].at = "served" <=> wire[i].at = "served"
      BY DEF NoSaveServed
    <2> QED BY <2>1, <2>2
  <1> QED BY <1>3, <1>4, <1>5 DEF SwitchInv

LEMMA SaveServed ==
  ASSUME Typed, ReadInv, SwitchInv, NEW i \in DOMAIN wire, ServeSave(i)
  PROVE  SwitchInv'
  <1>0. wire \in Seq(CallN) /\ wire[i] \in CallN /\ UNCHANGED overview
    BY WireLength DEF ServeSave, Reaches, page
  <1>1. wire'[i] = [wire[i] EXCEPT !.at = "served"] /\ DOMAIN wire' = DOMAIN wire
          /\ \A j \in DOMAIN wire : j # i => wire'[j] = wire[j]
    BY <1>0 DEF ServeSave, Reaches
  <1>2. /\ wire'[i].at = "served" /\ wire'[i].what = "save" /\ wire'[i].on = wire[i].on
        /\ wire'[i].value = wire[i].value /\ wire'[i].held = wire[i].held
    BY <1>0, <1>1 DEF CallN, ServeSave
  <1>3. \A j \in DOMAIN wire : Saving(j) => j = i
    <2>1. wire[i].what \in Changes
      BY DEF ServeSave, Changes
    <2>2. \A j \in DOMAIN wire : Saving(j) => wire[j].what \in Changes
      BY DEF Saving, Changes
    <2> QED BY <2>1, <2>2 DEF ReadInv, ChangesAreLast
  <1>4. Saved'
    BY <1>1, <1>2 DEF Saved, Saving
  <1>5. SavesKnowTheRest'
    <2> SUFFICES ASSUME ~overview.unsure, NEW j \in DOMAIN wire, Saving(j)'
                 PROVE  settings' = IF wire'[j].at = "served"
                          THEN [wire'[j].held EXCEPT ![wire'[j].on] = wire'[j].value]
                          ELSE wire'[j].held
      BY <1>0, <1>1 DEF SavesKnowTheRest
    <2>1. j = i
      BY <1>1, <1>3 DEF Saving
    <2>2. settings = wire[i].held
      BY <1>0 DEF SwitchInv, SavesKnowTheRest, Saving, ServeSave
    <2>3. settings' = [settings EXCEPT ![wire[i].on] = wire[i].value]
      BY DEF ServeSave
    <2> QED BY <1>2, <2>1, <2>2, <2>3
  <1> QED BY <1>4, <1>5 DEF SwitchInv, SwitchesAreStored, ReadSwitchesAreStored

LEMMA ServeSwitches ==
  ASSUME Typed, ReadInv, SwitchInv, NEW i \in DOMAIN wire, Serve(i)
  PROVE  SwitchInv'
  <1>1. CASE ServeSave(i)
    BY <1>1, SaveServed
  <1>2. CASE ~ServeSave(i)
    <2>0. /\ wire[i] \in CallN /\ wire \in Seq(CallN) /\ DOMAIN wire' = DOMAIN wire
          /\ UNCHANGED <<settings, overview>>
          /\ \A j \in DOMAIN wire : j # i => wire'[j] = wire[j]
      BY <1>2, WireLength DEF Serve, Refuse, ServeRead, ServeHandled, DecideMine,
                              CommitMine, Reaches, page
    <2>1. /\ wire'[i].what = wire[i].what
          /\ Saving(i) => /\ wire'[i].on = wire[i].on /\ wire'[i].value = wire[i].value
                          /\ wire'[i].held = wire[i].held
                          /\ wire'[i].at # "served" /\ wire[i].at # "served"
          /\ Reading(i) /\ wire'[i].at = "served" => wire'[i].held = settings
      <3>0. /\ wire[i].what \in Reads \cup AccountActs \cup {"handle"} => ~Saving(i)
            /\ wire[i].what \in AccountActs \cup {"handle"} => ~Reading(i)
            /\ wire[i].at = "decided" => wire[i].what \in AccountActs
        BY DEF Saving, Reading, Reads, AccountActs, Typed, WireTyped, OnlyAccountsAreDecided
      <3>1. CASE Refuse(i)
        <4>1. wire'[i] = [wire[i] EXCEPT !.at = "refused"] /\ wire[i].at = "sent"
          BY <2>0, <3>1 DEF Refuse, Reaches
        <4> QED BY <2>0, <4>1 DEF CallN
      <3>2. CASE ServeRead(i)
        <4>1. /\ wire'[i] = [wire[i] EXCEPT !.at = "served", !.counted = done,
                             !.held = IF wire[i].what = "overview" THEN settings ELSE @]
              /\ wire[i].what \in Reads
          BY <2>0, <3>2 DEF ServeRead, Reaches
        <4> QED BY <2>0, <3>0, <4>1 DEF CallN, Reading
      <3>3. CASE ServeHandled(i)
        <4>1. /\ wire'[i] = [wire[i] EXCEPT !.at = "served", !.counted = done + 1]
              /\ wire[i].what = "handle"
          BY <2>0, <3>3 DEF ServeHandled, Reaches
        <4> QED BY <2>0, <3>0, <4>1 DEF CallN
      <3>4. CASE DecideMine(i)
        <4>1. wire'[i] = [wire[i] EXCEPT !.at = "decided"] /\ wire[i].what \in AccountActs
          BY <2>0, <3>4 DEF DecideMine, Reaches
        <4> QED BY <2>0, <3>0, <4>1 DEF CallN
      <3>5. CASE CommitMine(i)
        <4>1. /\ \/ wire'[i] = [wire[i] EXCEPT !.at = "served", !.counted = done + 1]
                 \/ wire'[i] = [wire[i] EXCEPT !.at = "refused"]
              /\ wire[i].what \in AccountActs
          BY <2>0, <3>0, <3>5 DEF CommitMine, Reaches
        <4> QED BY <2>0, <3>0, <4>1 DEF CallN
      <3> QED BY <1>2, <3>1, <3>2, <3>3, <3>4, <3>5 DEF Serve
    <2>2. NoSaveServed
      BY <2>0, <2>1 DEF NoSaveServed
    <2> QED BY <2>0, <2>2, NoSaveServedKeeps
  <1> QED BY <1>1, <1>2

LEMMA ElsewhereSwitches ==
  ASSUME Typed, SwitchInv, Elsewhere
  PROVE  SwitchInv'
  <1>1. UNCHANGED <<settings, overview>>
    BY DEF Elsewhere, Decide, Commit, SignIn, EraseSelf, Restart, page
  <1>2. NoSaveServed
    <2>1. CASE UNCHANGED wire
      BY <2>1 DEF NoSaveServed
    <2>2. CASE Restart
      <3>1. /\ WireTyped' /\ Len(wire') = Len(wire)
            /\ \A j \in DOMAIN wire : wire'[j] = IF wire[j].at = "decided"
                            THEN [wire[j] EXCEPT !.at = "refused"] ELSE wire[j]
        BY <2>2, RestartWire
      <3>2. DOMAIN wire' = DOMAIN wire
        BY <3>1, WireLength DEF WireTyped
      <3>3. \A j \in DOMAIN wire : wire[j] \in CallN
        BY WireLength
      <3> QED BY <3>1, <3>2, <3>3 DEF NoSaveServed, CallN
    <2> QED BY <2>1, <2>2 DEF Elsewhere, Decide, Commit, SignIn, EraseSelf
  <1> QED BY <1>1, <1>2, NoSaveServedKeeps

\* A request is sent while no change is on the wire.
LEMMA SentSwitches ==
  ASSUME Typed, SwitchInv, ~Waiting, NEW c \in CallN, c.at = "sent",
         wire' = Append(wire, c), UNCHANGED <<overview, settings>>,
         c.what = "save" => c.held = overview.switches
  PROVE  SwitchInv'
  <1>0. Len(wire) \in Nat /\ DOMAIN wire = 1..Len(wire)
    BY WireLength
  <1> PICK n : n = Len(wire) + 1
    OBVIOUS
  <1>1. /\ wire'[n] = c /\ DOMAIN wire' = 1..n
        /\ \A j \in DOMAIN wire : wire'[j] = wire[j]
    BY WireLength
  <1>2. \A i \in DOMAIN wire' : i \in DOMAIN wire \/ i = n
    BY <1>0, <1>1
  <1>3. \A i \in DOMAIN wire : ~Saving(i) /\ ~Saving(i)' /\ (Reading(i)' <=> Reading(i))
    BY <1>1 DEF Waiting, Saving, Reading, Changes
  <1>4. ~Saved /\ ~Saved'
    BY <1>1, <1>2, <1>3 DEF Saved
  <1>5. SwitchesAreStored'
    BY <1>4 DEF SwitchInv, SwitchesAreStored
  <1>6. ReadSwitchesAreStored'
    BY <1>1, <1>2, <1>3, <1>4 DEF SwitchInv, ReadSwitchesAreStored
  <1>7. SavesKnowTheRest'
    BY <1>1, <1>2, <1>3, <1>4 DEF SwitchInv, SwitchesAreStored, SavesKnowTheRest, Saving
  <1> QED BY <1>5, <1>6, <1>7 DEF SwitchInv

LEMMA OpenTabSwitches ==
  ASSUME Typed, SwitchInv, Patient, NEW t \in Tabs, OpenTab(t)
  PROVE  SwitchInv'
  <1>0. Len(wire) \in Nat /\ DOMAIN wire = 1..Len(wire)
          /\ \A i \in DOMAIN wire : wire[i] \in CallN
    BY WireLength
  <1>1. /\ WireTyped' /\ Len(wire') = IF t = "overview" THEN Len(wire) ELSE Len(wire) + 1
        /\ \A i \in DOMAIN wire :
              wire'[i] = IF wire[i].what = "overview" THEN wire[i]
                         ELSE [wire[i] EXCEPT !.live = FALSE, !.busy = FALSE]
        /\ t # "overview" => wire'[Len(wire) + 1] = Load(0, None)
    BY OpenTabWire
  <1>2. UNCHANGED <<overview, settings>> /\ \A i \in DOMAIN wire : ~Saving(i)
    BY DEF OpenTab, MovesOn, Patient, Waiting, server, Saving, Changes
  <1> PICK n : n = Len(wire) + 1
    OBVIOUS
  <1>3. \A i \in DOMAIN wire' : i \in DOMAIN wire \/ (i = n /\ wire'[n] = Load(0, None))
    <2>1. wire' \in Seq(CallN)
      BY <1>1 DEF WireTyped
    <2>2. DOMAIN wire' = 1..Len(wire')
      BY <2>1
    <2>3. Len(wire') = IF t = "overview" THEN Len(wire) ELSE Len(wire) + 1
      BY <1>1
    <2>4. t # "overview" => wire'[n] = Load(0, None)
      BY <1>1
    <2> QED BY <1>0, <2>2, <2>3, <2>4
  <1>4. Load(0, None).what = "rows"
    BY DEF Load, NoCall
  <1>5. ASSUME NEW i \in DOMAIN wire
        PROVE  ~Saving(i)' /\ (Reading(i)' => Reading(i) /\ wire'[i] = wire[i])
    <2>1. wire[i] \in CallN
      BY <1>0
    <2>2. wire'[i] = IF wire[i].what = "overview" THEN wire[i]
                         ELSE [wire[i] EXCEPT !.live = FALSE, !.busy = FALSE]
      BY <1>1
    <2> QED BY <1>2, <2>1, <2>2 DEF CallN, Saving, Reading
  <1>6. ~Saved /\ ~Saved'
    BY <1>2, <1>3, <1>4, <1>5 DEF Saved, Saving
  <1>7. SwitchesAreStored'
    BY <1>2, <1>6 DEF SwitchInv, SwitchesAreStored
  <1>8. ReadSwitchesAreStored'
    BY <1>2, <1>3, <1>4, <1>5, <1>6 DEF SwitchInv, ReadSwitchesAreStored, Reading
  <1>9. SavesKnowTheRest'
    BY <1>3, <1>4, <1>5 DEF SavesKnowTheRest, Saving
  <1> QED BY <1>7, <1>8, <1>9 DEF SwitchInv

LEMMA UseSwitches ==
  ASSUME Typed, SwitchInv, Patient, Use
  PROVE  SwitchInv'
  <1>0. UNCHANGED settings
    BY DEF Use, OpenTab, Filter, Turn, Retry, SetHandled, Sends, CloseDialog, OpenDialog,
           Act, Save, MovesOn, server
  <1>1. ASSUME NEW t \in Tabs, OpenTab(t) PROVE SwitchInv'
    BY <1>1, OpenTabSwitches
  <1>2. ASSUME UNCHANGED <<wire, overview>> PROVE SwitchInv'
    <2>1. NoSaveServed
      BY <1>2 DEF NoSaveServed
    <2> QED BY <1>0, <1>2, <2>1, NoSaveServedKeeps
  <1>3. ASSUME NEW p \in Nat, NEW f \in Filters, wire' = Append(wire, Load(p, f)), MovesOn
        PROVE  SwitchInv'
    <2>1. ~Waiting /\ UNCHANGED overview
      BY <1>3 DEF MovesOn, Patient
    <2>2. Load(p, f) \in CallN /\ Load(p, f).at = "sent" /\ Load(p, f).what = "rows"
      BY CallsAreCalls DEF Load, NoCall
    <2> QED BY <1>0, <1>3, <2>1, <2>2, SentSwitches
  <1>4. ASSUME NEW p \in Nat, NEW f \in Filters, Asks(p, f), MovesOn PROVE SwitchInv'
    BY <1>2, <1>3, <1>4 DEF Asks, MovesOn
  <1>5. ASSUME NEW c \in CallN, c.at = "sent", Sends(c),
               c.what = "save" => c.held = overview.switches
        PROVE  SwitchInv'
    <2> DEFINE d == [c EXCEPT !.busy = TRUE, !.page = pane.page, !.filter = pane.filter]
    <2>1. /\ d \in CallN /\ d.at = "sent" /\ d.what = c.what /\ d.held = c.held
      BY <1>5, WireLength DEF CallN, PaneN
    <2>2. wire' = Append(wire, d) /\ UNCHANGED overview /\ ~Waiting
      BY <1>5 DEF Sends, Patient, page
    <2> HIDE DEF d
    <2> QED BY <1>0, <1>5, <2>1, <2>2, SentSwitches
  <1>6. ASSUME NEW f \in Filters, Filter(f) PROVE SwitchInv'
    BY <1>4, <1>6 DEF Filter
  <1>7. ASSUME NEW d \in {-1, 1}, Turn(d) PROVE SwitchInv'
    <2>1. PICK p \in 0..MaxPage : Asks(p, pane.filter)
      BY <1>7 DEF Turn
    <2>2. p \in Nat /\ pane.filter \in Filters
      BY BoundAssumption, WireLength DEF PaneN
    <2> QED BY <1>4, <1>7, <2>1, <2>2 DEF Turn
  <1>8. CASE Retry
    BY <1>3, <1>8, WireLength DEF Retry, PaneN
  <1>9. CASE SetHandled
    <2>1. [NoCall EXCEPT !.what = "handle"].what = "handle"
      BY DEF NoCall
    <2> QED BY <1>5, <1>9, <2>1, ChangesAreCalls DEF SetHandled
  <1>10. CASE CloseDialog
    <2>1. /\ WireTyped' /\ Len(wire') = Len(wire)
          /\ \A i \in DOMAIN wire : wire'[i] = [wire[i] EXCEPT !.busy = FALSE]
      BY <1>10, CloseDialogWire
    <2>2. DOMAIN wire' = DOMAIN wire
      BY <2>1, WireLength DEF WireTyped
    <2>3. \A i \in DOMAIN wire : wire[i] \in CallN
      BY WireLength
    <2>4. NoSaveServed
      BY <2>1, <2>2, <2>3 DEF NoSaveServed, CallN
    <2> QED BY <1>0, <1>10, <2>4, NoSaveServedKeeps DEF CloseDialog
  <1>11. ASSUME NEW u \in Users, OpenDialog(u) PROVE SwitchInv'
    BY <1>2, <1>11 DEF OpenDialog
  <1>12. ASSUME NEW what \in AccountActs, Act(what) PROVE SwitchInv'
    <2>1. selected \in Users \cup {None}
      BY DEF Typed, PageTyped
    <2>2. [NoCall EXCEPT !.what = what, !.on = selected].what = what /\ what # "save"
      BY DEF NoCall, AccountActs
    <2> QED BY <1>5, <1>12, <2>1, <2>2, ChangesAreCalls DEF Act
  <1>13. ASSUME NEW k \in Keys, Save(k) PROVE SwitchInv'
    <2> DEFINE c == [NoCall EXCEPT !.what = "save", !.on = k,
                          !.value = ~overview.switches[k], !.held = overview.switches]
    <2>1. c.held = overview.switches
      BY DEF NoCall
    <2>2. c \in CallN /\ c.at = "sent" /\ Sends(c)
      BY <1>13, ChangesAreCalls DEF Save
    <2> HIDE DEF c
    <2> QED BY <1>5, <2>1, <2>2
  <1> QED BY <1>1, <1>6, <1>7, <1>8, <1>9, <1>10, <1>11, <1>12, <1>13 DEF Use

LEMMA AnswersSwitches ==
  ASSUME Typed, Typed', ReadInv, SwitchInv, Patient, NEW i \in DOMAIN wire, Answered(i)
  PROVE  SwitchInv'
  <1>0. /\ i = 1 /\ UNCHANGED settings /\ wire[1] \in CallN /\ 1 \in DOMAIN wire
        /\ overview \in OverviewN /\ Len(wire) \in Nat /\ DOMAIN wire = 1..Len(wire)
    BY WireLength DEF Answered, RowsAnswered, OverviewAnswered, SaveAnswered, ChangeAnswered,
                      ChangeRefused, Lost, Arrives, Patient, server
  <1>1. ASSUME wire' = RemoveAt(wire, 1)
        PROVE  /\ \A j \in DOMAIN wire' : j + 1 \in DOMAIN wire /\ wire'[j] = wire[j + 1]
               /\ \A j \in DOMAIN wire : j > 1 => j - 1 \in DOMAIN wire' /\ wire'[j - 1] = wire[j]
               /\ Len(wire') = Len(wire) - 1 /\ DOMAIN wire' = 1..Len(wire) - 1
    <2>1. /\ WireTyped' /\ Len(wire') = Len(wire) - 1
          /\ \A j \in 1..Len(wire) - 1 :
               wire'[j] = IF j < 1 THEN wire[j] ELSE wire[j + 1]
      BY <1>0, <1>1, WireRemoved DEF Typed
    <2>2. DOMAIN wire' = 1..Len(wire) - 1
      BY <1>0, <2>1 DEF WireTyped
    <2> QED BY <1>0, <2>1, <2>2
  <1>2. ASSUME wire' = RemoveAt(wire, 1), ~Saving(1)
        PROVE  /\ Saved' <=> Saved
               /\ ReadSwitchesAreStored'
               /\ overview'.unsure = overview.unsure => SavesKnowTheRest'
    <2>1. Saved' <=> Saved
      <3>1. ASSUME Saved' PROVE Saved
        BY <1>1, <1>2, <3>1 DEF Saved, Saving
      <3>2. ASSUME Saved PROVE Saved'
        <4>1. PICK j \in DOMAIN wire : Saving(j) /\ wire[j].at = "served"
          BY <3>2 DEF Saved
        <4>2. j > 1
          BY <1>0, <1>2, <4>1
        <4>3. j - 1 \in DOMAIN wire' /\ wire'[j - 1] = wire[j]
          BY <1>1, <1>2, <4>2
        <4> QED BY <4>1, <4>3 DEF Saved, Saving
      <3> QED BY <3>1, <3>2
    <2>2. ReadSwitchesAreStored'
      BY <1>0, <1>1, <1>2, <2>1 DEF SwitchInv, ReadSwitchesAreStored, Reading
    <2>3. ASSUME overview'.unsure = overview.unsure PROVE SavesKnowTheRest'
      <3> SUFFICES ASSUME ~overview.unsure, NEW j \in DOMAIN wire', Saving(j)'
                   PROVE  settings = IF wire'[j].at = "served"
                            THEN [wire'[j].held EXCEPT ![wire'[j].on] = wire'[j].value]
                            ELSE wire'[j].held
        BY <1>0, <2>3 DEF SavesKnowTheRest
      <3>1. j + 1 \in DOMAIN wire /\ wire'[j] = wire[j + 1]
        BY <1>1, <1>2
      <3> QED BY <3>1 DEF SwitchInv, SavesKnowTheRest, Saving
    <2> QED BY <2>1, <2>2, <2>3
  <1>3. ASSUME wire' = RemoveAt(wire, 1), ~Saving(1), overview'.unsure = overview.unsure,
               overview'.switches = overview.switches
        PROVE  SwitchInv'
    <2>1. SwitchesAreStored'
      BY <1>0, <1>2, <1>3 DEF SwitchInv, SwitchesAreStored
    <2> QED BY <1>2, <1>3, <2>1 DEF SwitchInv
  <1>4. ASSUME wire' = RemoveAt(wire, 1), Saving(1)
        PROVE  ~Saved' /\ ReadSwitchesAreStored' /\ SavesKnowTheRest' /\ (Saved => wire[1].at = "served")
    <2>1. Len(wire) = 1
      BY <1>0, <1>4, OneChangeAlone DEF Saving, Changes
    <2>2. DOMAIN wire' = {} /\ \A j \in DOMAIN wire : j = 1
      BY <1>0, <1>1, <1>4, <2>1
    <2> QED BY <2>2 DEF Saved, ReadSwitchesAreStored, SavesKnowTheRest
  <1>5. CASE RowsAnswered(i)
    BY <1>0, <1>3, <1>5 DEF RowsAnswered, Saving
  <1>6. CASE OverviewAnswered(i)
    <2>1. wire' = RemoveAt(wire, 1) /\ ~Saving(1) /\ wire[1].at \in {"served", "refused"}
      BY <1>0, <1>6 DEF OverviewAnswered, Saving, Arrives
    <2>2. CASE wire[1].at = "refused"
      BY <1>0, <1>3, <1>6, <2>1, <2>2 DEF OverviewAnswered, OverviewN
    <2>3. CASE wire[1].at = "served"
      <3>1. /\ overview'.switches = wire[1].held
            /\ overview'.unsure = (overview.unsure /\ OnWire("save"))
        BY <1>0, <1>6, <2>3 DEF OverviewAnswered, OverviewN
      <3>2. ~Saved => wire[1].held = settings
        BY <1>0, <1>6, <2>3 DEF SwitchInv, ReadSwitchesAreStored, Reading, OverviewAnswered
      <3>3. SwitchesAreStored'
        BY <1>0, <1>2, <2>1, <3>1, <3>2 DEF SwitchesAreStored
      <3>4. SavesKnowTheRest'
        <4>1. CASE OnWire("save")
          BY <1>0, <1>2, <2>1, <3>1, <4>1 DEF OverviewN
        <4>2. CASE ~OnWire("save")
          <5>1. \A j \in DOMAIN wire' : ~Saving(j)'
            BY <1>1, <2>1, <4>2 DEF OnWire, Saving
          <5> QED BY <5>1 DEF SavesKnowTheRest
        <4> QED BY <4>1, <4>2
      <3> QED BY <1>2, <2>1, <3>3, <3>4 DEF SwitchInv
    <2> QED BY <2>1, <2>2, <2>3
  <1>7. CASE SaveAnswered(i)
    <2>1. wire' = RemoveAt(wire, 1) /\ Saving(1) /\ wire[1].at \in {"served", "refused"}
      BY <1>0, <1>7 DEF SaveAnswered, Saving, Arrives
    <2>2. CASE wire[1].at = "refused"
      <3>1. ~Saved /\ overview' = overview
        BY <1>0, <1>4, <1>7, <2>1, <2>2 DEF SaveAnswered
      <3> QED BY <1>0, <1>4, <2>1, <3>1 DEF SwitchInv, SwitchesAreStored
    <2>3. CASE wire[1].at = "served"
      <3>1. /\ overview'.switches = [wire[1].held EXCEPT ![wire[1].on] = wire[1].value]
            /\ overview'.unsure = overview.unsure
        BY <1>0, <1>7, <2>3 DEF SaveAnswered, OverviewN
      <3>2. ~overview.unsure =>
              settings = [wire[1].held EXCEPT ![wire[1].on] = wire[1].value]
        BY <1>0, <2>1, <2>3 DEF SwitchInv, SavesKnowTheRest
      <3>3. SwitchesAreStored'
        BY <1>0, <3>1, <3>2 DEF SwitchesAreStored
      <3> QED BY <1>4, <2>1, <3>3 DEF SwitchInv
    <2> QED BY <2>1, <2>2, <2>3
  <1>8. CASE ChangeRefused(i)
    <2>1. wire' = RemoveAt(wire, 1) /\ ~Saving(1) /\ UNCHANGED overview
      BY <1>0, <1>8 DEF ChangeRefused, Saving, AccountActs
    <2> QED BY <1>3, <2>1
  <1>9. CASE Lost(i)
    <2>1. /\ wire' = RemoveAt(wire, 1) /\ overview'.switches = overview.switches
          /\ overview'.unsure = (overview.unsure \/ wire[1].what = "save")
      BY <1>0, <1>9 DEF Lost, OverviewN
    <2>2. CASE Saving(1)
      <3>1. overview'.unsure
        BY <2>1, <2>2 DEF Saving
      <3>2. SwitchesAreStored'
        BY <3>1 DEF SwitchesAreStored
      <3> QED BY <1>4, <2>1, <2>2, <3>2 DEF SwitchInv
    <2>3. CASE ~Saving(1)
      <3>1. overview'.unsure = overview.unsure
        BY <1>0, <2>1, <2>3 DEF Saving, OverviewN
      <3> QED BY <1>3, <2>1, <2>3, <3>1
    <2> QED BY <2>2, <2>3
  <1>10. CASE ChangeAnswered(i)
    <2> DEFINE a == [Load(wire[1].page, wire[1].filter) EXCEPT !.live = wire[1].live]
    <2>1. wire[1].what \in Changes /\ ~Saving(1)
      BY <1>0, <1>10 DEF ChangeAnswered, Changes, Saving, AccountActs
    <2>2. Len(wire) = 1
      BY <1>0, <2>1, OneChangeAlone
    <2>3. /\ wire' \in Seq(CallN) /\ Len(wire') = 2
          /\ wire'[1] = a /\ wire'[2] = RefreshOverview
      <3>1. /\ WireTyped' /\ Len(wire') = Len(wire) + 1
            /\ wire'[Len(wire)] = a /\ wire'[Len(wire) + 1] = RefreshOverview
        BY <1>0, <1>10, ChangeAnsweredWire
      <3> QED BY <2>2, <3>1 DEF WireTyped
    <2>4. /\ a.what = "rows" /\ a.at = "sent"
          /\ RefreshOverview.what = "overview" /\ RefreshOverview.at = "sent"
      BY DEF Load, NoCall, RefreshOverview
    <2> HIDE DEF a
    <2>5. \A j \in DOMAIN wire' : wire'[j].at = "sent" /\ ~Saving(j)'
      <3>1. \A j \in DOMAIN wire' : j = 1 \/ j = 2
        BY <2>3
      <3> QED BY <2>3, <2>4, <3>1 DEF Saving
    <2>6. ~Saved
      BY <1>0, <2>1, <2>2 DEF Saved
    <2>7. overview'.switches = overview.switches /\ overview'.unsure = overview.unsure
      BY <1>0, <1>10 DEF ChangeAnswered, OverviewN
    <2> QED BY <1>0, <2>5, <2>6, <2>7 DEF SwitchInv, SwitchesAreStored,
                                          ReadSwitchesAreStored, SavesKnowTheRest
  <1> QED BY <1>5, <1>6, <1>7, <1>8, <1>9, <1>10 DEF Answered

------------------------------------------------------------------------
LEMMA PageInvariant ==
  ASSUME Patient
  PROVE  Spec => [](Typed /\ ReadInv /\ SwitchInv)
  <1>1. Init => Typed /\ ReadInv /\ SwitchInv
    <2> SUFFICES ASSUME Init PROVE ReadInv /\ SwitchInv
      BY InitTyped
    <2>1. ReadInv
      BY DEF Init, ReadInv, ListInv, TilesInv, ChangesAreLast, CountsAreDone,
             ChangesAreOfThisList, LastLoadIsDue, LoadedIsCurrent, LastOverviewIsDue,
             TilesAreCurrent, Fresh
    <2>2. SwitchInv
      BY DEF Init, SwitchInv, SwitchesAreStored, ReadSwitchesAreStored, SavesKnowTheRest
    <2> QED BY <2>1, <2>2
  <1>2. Typed /\ ReadInv /\ SwitchInv /\ [Next]_vars => (Typed /\ ReadInv /\ SwitchInv)'
    <2> SUFFICES ASSUME Typed, ReadInv, SwitchInv, [Next]_vars
                 PROVE  ReadInv' /\ SwitchInv'
      BY NextTyped
    <2>1. Typed'
      BY NextTyped
    <2>2. CASE UNCHANGED vars
      <3>1. UNCHANGED <<pane, overview, wire, done, settings>>
        BY <2>2 DEF vars, page
      <3>2. InPlace /\ NoSaveServed
        BY <3>1 DEF InPlace, NoSaveServed
      <3>3. done' >= done
        BY <3>1, WireLength
      <3>4. ReadInv'
        BY <2>1, <3>1, <3>2, <3>3, InPlaceReads
      <3> QED BY <3>1, <3>2, <3>4, NoSaveServedKeeps
    <2>3. ReadInv'
      BY <2>1, <2>2, ElsewhereReads, UseReads, ServeReads, AnswersReads DEF Next
    <2>4. SwitchInv'
      BY <2>1, <2>2, ElsewhereSwitches, UseSwitches, ServeSwitches, AnswersSwitches DEF Next
    <2> QED BY <2>3, <2>4
  <1> QED BY <1>1, <1>2, PTL DEF Spec

\* A list with nothing under way answers the page and filter chosen and shows
\* the operator's own changes, however it came to be on screen
\* (admin.tsx:426-443, 519-529): for a patient operator, any number of pages,
\* filters, other operators and lost requests.
THEOREM ListsAreCurrent ==
  ASSUME Patient
  PROVE  Spec => []ListIsCurrent
  <1>1. ReadInv => ListIsCurrent
    BY DEF ReadInv, ListInv, LoadedIsCurrent, NoneShowing, ListIsCurrent, Idle, Showing
  <1> QED BY <1>1, PageInvariant, PTL

\* The tiles show the operator's own changes and the switches what is stored,
\* unless the answer that would have said so was lost (admin.tsx:98, 744-750):
\* a save replaces every switch by what the panel held, and with one change
\* under way at a time that is what the server holds.
THEOREM OverviewsAreCurrent ==
  ASSUME Patient
  PROVE  Spec => []OverviewIsCurrent
  <1>1. ReadInv /\ SwitchInv => OverviewIsCurrent
    <2> SUFFICES ASSUME ReadInv, SwitchInv PROVE OverviewIsCurrent
      OBVIOUS
    <2>1. Idle({"overview"}) /\ ~overview.missed => overview.counted >= overview.owed
      BY DEF ReadInv, TilesInv, TilesAreCurrent, NoneReading, Reading, Idle
    <2>2. Idle({"overview", "save"}) => ~Saved
      BY DEF Idle, Saved, Saving
    <2> QED BY <2>1, <2>2 DEF OverviewIsCurrent, SwitchInv, SwitchesAreStored
  <1> QED BY <1>1, PageInvariant, PTL

=============================================================================
