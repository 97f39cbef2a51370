------------------------------ MODULE LiveView ------------------------------
(***************************************************************************)
(* What live sync promises: "a change on one device reaches every other    *)
(* signed-in client".  Changes are numbered in commit order; an open tab   *)
(* shows a set of them, never one that was not written, never fewer than   *)
(* before unless the page is opened again, and all of them in the end if   *)
(* the page stays open.                                                    *)
(***************************************************************************)
EXTENDS Naturals

CONSTANTS Tabs, MaxRevision

VARIABLES
  written,   \* changes committed so far
  open,      \* open[t]: is the tab's page there, or still loading?
  seen       \* seen[t]: the changes tab t shows

vars == <<written, open, seen>>

Init ==
  /\ written = 0
  /\ open = [t \in Tabs |-> TRUE]
  /\ seen = [t \in Tabs |-> {}]

Write ==
  /\ written < MaxRevision
  /\ written' = written + 1
  /\ UNCHANGED <<open, seen>>

\* The view gains some of what was written.
Gain(t) ==
  \E gained \in SUBSET (1..written) : seen' = [seen EXCEPT ![t] = @ \cup gained]

Refresh(t) == open[t] /\ Gain(t) /\ UNCHANGED <<written, open>>

\* The page is navigated: nothing is shown until it has loaded.
Reopen(t) ==
  /\ open' = [open EXCEPT ![t] = FALSE]
  /\ seen' = [seen EXCEPT ![t] = {}]
  /\ UNCHANGED written

Show(t) ==
  /\ ~ open[t]
  /\ open' = [open EXCEPT ![t] = TRUE]
  /\ Gain(t)
  /\ UNCHANGED written

CatchUp(t) == Refresh(t) /\ seen'[t] = 1..written

Next == Write \/ \E t \in Tabs : Refresh(t) \/ Reopen(t) \/ Show(t)

Spec ==
  /\ Init /\ [][Next]_vars
  /\ \A t \in Tabs : WF_vars(Show(t)) /\ WF_vars(CatchUp(t))
============================================================================
