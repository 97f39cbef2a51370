--------------------------- MODULE AdminConsole ---------------------------
(***************************************************************************)
(* The management console: the handlers of admin_view.go, which any        *)
(* operator may call, and one operator's page (admin.tsx), whose tabs read *)
(* what the server holds and are read again after every change.            *)
(*                                                                         *)
(* A list is reduced to the question it answers (page and filter) and to   *)
(* how many of the changes made so far it shows; the platform switches are *)
(* kept with their values.                                                 *)
(***************************************************************************)
EXTENDS FiniteSets, Integers, SequencesExt

CONSTANTS
  Users, Me,      \* accounts, and the one whose console page is modelled
  Keys,           \* platform settings
  Filters,        \* searches, or the inbox's two views; None is there at first
  Bootstrap,      \* the account ADMIN_BOOTSTRAP_EMAIL_STRING names
  None,
  MaxPage,        \* bound: the last page of a list
  MaxActs,        \* bound: changes made by all operators, one each for a saved
                  \* switch, a handled message and a changed account
  MaxWire,        \* bound: requests the operator leaves unanswered
  Overlap,        \* account changes decided and not yet committed
  Waits,          \* does the operator wait for a change to be answered?
  InOrder,        \* do answers arrive in the order of their requests?
  SelfErasure     \* do operators delete their own account in Settings?

ASSUME UsersAssumption ==
  /\ Me \in Users /\ None \notin Users \cup Keys /\ Bootstrap \in Users \cup {None}
  /\ Users \cap Keys = {} /\ None \in Filters

ASSUME BoundAssumption ==
  /\ {MaxPage, MaxActs, MaxWire, Overlap} \subseteq Nat
  /\ {Waits, InOrder, SelfErasure} \subseteq BOOLEAN

VARIABLES
  accounts,   \* the accounts there are
  grants,     \* vault3_admin: who holds the role, and who granted it
  suspended, verified, signedIn,
  elsewhere,  \* account changes other operators have in flight
  settings,   \* the platform settings
  done,       \* how many changes are committed
  tab,        \* the console section shown
  pane,       \* the list of that section
  selected,   \* the account whose dialog is open
  overview,   \* the tiles and switches of the first section
  wire        \* the page's requests, in the order they were sent

roles == <<accounts, grants, suspended, verified, signedIn>>
page == <<tab, pane, selected, overview>>
vars == <<roles, elsewhere, settings, done, page, wire>>

AccountActs == {"suspend", "reactivate", "signOut", "verify", "resend",
                "grant", "revoke", "erase"}
Changes == AccountActs \cup {"handle", "save"}
Reads == {"rows", "overview"}
Tabs == {"overview", "accounts", "trail", "inbox"}

Rows == [page: 0..MaxPage, filter: Filters, counted: 0..MaxActs]
Pane == [page: 0..MaxPage, filter: Filters, data: Rows \cup {None},
         failed: BOOLEAN, owed: 0..MaxActs]
\* missed: the last overview asked for never came; unsure: an answer to a save
\* was lost, and nothing read since then is sure to show what became of it.
Overview == [counted: 0..MaxActs, switches: [Keys -> BOOLEAN],
             missed: BOOLEAN, unsure: BOOLEAN, owed: 0..MaxActs]
Change == [by: Users, what: AccountActs, on: Users]

\* busy: the component that sent it is there and refuses a second action;
\* live: the section that sent it is still on screen.
Call == [what: Changes \cup Reads, on: Users \cup Keys \cup {None}, value: BOOLEAN,
         page: 0..MaxPage, filter: Filters, held: [Keys -> BOOLEAN],
         at: {"sent", "decided", "served", "refused"}, counted: 0..MaxActs,
         busy: BOOLEAN, live: BOOLEAN]

Quiet == [k \in Keys |-> FALSE]
NoCall == [what |-> "rows", on |-> None, value |-> FALSE, page |-> 0,
           filter |-> None, held |-> Quiet, at |-> "sent", counted |-> 0,
           busy |-> FALSE, live |-> TRUE]
Fresh == [page |-> 0, filter |-> None, data |-> None, failed |-> FALSE, owed |-> 0]

Init ==
  /\ accounts = Users /\ grants = [u \in {Me} |-> None]
  /\ suspended = {} /\ signedIn = {Me} /\ verified = {Me}
  /\ elsewhere = {} /\ settings = Quiet /\ done = 0
  /\ tab = "overview" /\ pane = Fresh /\ selected = None
  /\ overview = [counted |-> 0, switches |-> Quiet, missed |-> FALSE,
                 unsure |-> FALSE, owed |-> 0]
  /\ wire = <<>>

------------------------------------------------------------------------
(* The server.                                                             *)

Admins == DOMAIN grants

\* RequireAdmin, on the user resolveSession finds.
MayAdminister(u) == u \in (signedIn \cap Admins) \ suspended

\* (variant) The account named may be the operator's own.
RefusesStrangers(c) ==
  \/ c.on \notin accounts
  \/ c.what = "revoke" /\ (c.on = c.by \/ Cardinality(Admins) <= 1)
  \/ c.what \in {"verify", "resend"} /\ c.on \in verified

Refuses(c) ==
  \/ c.on \notin accounts
  \/ c.what \in {"suspend", "revoke", "erase"} /\ c.on = c.by
  \/ c.what = "revoke" /\ Cardinality(Admins) <= 1
  \/ c.what \in {"verify", "resend"} /\ c.on \in verified

\* A deletion is refused by the grants the account has made.
Undeletable(u) == \E v \in Admins \ {u} : grants[v] = u

\* DeleteUser and its cascades.
DeleteUser(u) ==
  /\ accounts' = accounts \ {u}
  /\ grants' = [v \in Admins \ {u} |-> grants[v]]
  /\ suspended' = suspended \ {u}
  /\ verified' = verified \ {u}
  /\ signedIn' = signedIn \ {u}

Grant(u, by) == IF u \in Admins THEN grants ELSE [v \in Admins \cup {u} |->
                  IF v = u THEN by ELSE grants[v]]

\* The transaction of a change; it fails on a row that is gone.
Works(c) ==
  /\ c.on \in accounts
  /\ c.what = "grant" => c.by \in accounts
  /\ c.what = "erase" => ~Undeletable(c.on)

Apply(c) ==
  \/ c.what = "erase" /\ DeleteUser(c.on)
  \/ /\ c.what # "erase" /\ UNCHANGED accounts
     /\ grants' = CASE c.what = "grant" -> Grant(c.on, c.by)
                    [] c.what = "revoke" -> [v \in Admins \ {c.on} |-> grants[v]]
                    [] OTHER -> grants
     /\ suspended' = CASE c.what = "suspend" -> suspended \cup {c.on}
                       [] c.what = "reactivate" -> suspended \ {c.on}
                       [] OTHER -> suspended
     /\ verified' = IF c.what = "verify" THEN verified \cup {c.on} ELSE verified
     /\ signedIn' = IF c.what \in {"suspend", "signOut"} THEN signedIn \ {c.on}
                    ELSE signedIn

Decided == Cardinality(elsewhere)
             + Cardinality({i \in DOMAIN wire : wire[i].at = "decided"})

Unserved == {i \in DOMAIN wire : wire[i].what \in Changes
                                    /\ wire[i].at \in {"sent", "decided"}}
Room == done + Cardinality(elsewhere) + Cardinality(Unserved) < MaxActs

\* Another operator's request, up to its transaction ...
Decide(c) ==
  /\ c.by # Me /\ MayAdminister(c.by) /\ ~Refuses(c)
  /\ Decided < Overlap /\ Room
  /\ elsewhere' = elsewhere \cup {c}
  /\ UNCHANGED <<roles, settings, done, page, wire>>

\* ... and its transaction, which commits or leaves everything as it was.
Commit(c) ==
  /\ c \in elsewhere
  /\ elsewhere' = elsewhere \ {c}
  /\ IF Works(c) THEN Apply(c) /\ done' = done + 1 ELSE UNCHANGED <<roles, done>>
  /\ UNCHANGED <<settings, page, wire>>

\* LoginAPI does not look at the suspension; resolveSession does.
SignIn(u) ==
  /\ u \in accounts
  /\ signedIn' = signedIn \cup {u}
  /\ UNCHANGED <<accounts, grants, suspended, verified, elsewhere, settings, done,
                 page, wire>>

\* DeleteAccountAPI, which knows nothing of the role.
EraseSelf(u) ==
  /\ u \in signedIn \ suspended /\ (u \in Admins => SelfErasure)
  /\ ~Undeletable(u)
  /\ DeleteUser(u)
  /\ UNCHANGED <<elsewhere, settings, done, page, wire>>

\* A restart drops what has not committed; Start() calls bootstrapAdmin.
Restart ==
  /\ elsewhere' = {}
  /\ wire' = [i \in DOMAIN wire |-> IF wire[i].at = "decided"
                THEN [wire[i] EXCEPT !.at = "refused"] ELSE wire[i]]
  /\ grants' = IF Bootstrap \in accounts THEN Grant(Bootstrap, None) ELSE grants
  /\ UNCHANGED <<accounts, suspended, verified, signedIn, settings, done, page>>

------------------------------------------------------------------------
(* The page's requests at the server.                                      *)

Reaches(i, call) == wire' = [wire EXCEPT ![i] = call] /\ UNCHANGED <<elsewhere, page>>

AsChange(call) == [by |-> Me, what |-> call.what, on |-> call.on]

Refuse(i) ==
  /\ wire[i].at = "sent"
  /\ ~MayAdminister(Me) \/ (wire[i].what \in AccountActs /\ Refuses(AsChange(wire[i])))
  /\ Reaches(i, [wire[i] EXCEPT !.at = "refused"])
  /\ UNCHANGED <<roles, settings, done>>

ServeRead(i) ==
  /\ wire[i].at = "sent" /\ wire[i].what \in Reads /\ MayAdminister(Me)
  /\ Reaches(i, [wire[i] EXCEPT !.at = "served", !.counted = done,
                   !.held = IF wire[i].what = "overview" THEN settings ELSE @])
  /\ UNCHANGED <<roles, settings, done>>

\* AdminUpdateSettingAPI
ServeSave(i) ==
  /\ wire[i].at = "sent" /\ wire[i].what = "save" /\ MayAdminister(Me)
  /\ settings' = [settings EXCEPT ![wire[i].on] = wire[i].value]
  /\ done' = done + 1
  /\ Reaches(i, [wire[i] EXCEPT !.at = "served"])
  /\ UNCHANGED roles

\* AdminInquiryHandledAPI
ServeHandled(i) ==
  /\ wire[i].at = "sent" /\ wire[i].what = "handle" /\ MayAdminister(Me)
  /\ done' = done + 1
  /\ Reaches(i, [wire[i] EXCEPT !.at = "served", !.counted = done + 1])
  /\ UNCHANGED <<roles, settings>>

\* An account change goes through the same two steps as anybody's.
DecideMine(i) ==
  /\ wire[i].at = "sent" /\ wire[i].what \in AccountActs
  /\ MayAdminister(Me) /\ ~Refuses(AsChange(wire[i]))
  /\ Decided < Overlap
  /\ Reaches(i, [wire[i] EXCEPT !.at = "decided"])
  /\ UNCHANGED <<roles, settings, done>>

CommitMine(i) ==
  /\ wire[i].at = "decided"
  /\ IF Works(AsChange(wire[i]))
     THEN /\ Apply(AsChange(wire[i]))
          /\ done' = done + 1
          /\ Reaches(i, [wire[i] EXCEPT !.at = "served", !.counted = done + 1])
     ELSE /\ Reaches(i, [wire[i] EXCEPT !.at = "refused"])
          /\ UNCHANGED <<roles, done>>
  /\ UNCHANGED settings

------------------------------------------------------------------------
(* The page.                                                               *)

server == <<roles, elsewhere, settings, done>>

Load(p, f) == [NoCall EXCEPT !.page = p, !.filter = f]
RefreshOverview == [NoCall EXCEPT !.what = "overview"]

OnWire(what) == \E i \in DOMAIN wire : wire[i].what = what
Waiting == \E i \in DOMAIN wire : wire[i].what \in Changes
Busy == \E i \in DOMAIN wire : wire[i].busy

\* The operator turns to something else.
MovesOn ==
  /\ Waits => ~Waiting
  /\ Len(wire) < MaxWire
  /\ UNCHANGED <<server, overview>>

\* A section is unmounted with all it holds; the next one loads.
OpenTab(t) ==
  /\ t # tab /\ MovesOn
  /\ tab' = t /\ pane' = Fresh /\ selected' = None
  /\ wire' = [i \in DOMAIN wire |-> IF wire[i].what = "overview" THEN wire[i]
                ELSE [wire[i] EXCEPT !.live = FALSE, !.busy = FALSE]]
             \o (IF t = "overview" THEN <<>> ELSE <<Load(0, None)>>)

\* Another page or filter is loaded by the effect, the same one is not.
Asks(p, f) ==
  /\ pane' = [pane EXCEPT !.page = p, !.filter = f,
                !.failed = IF <<p, f>> = <<pane.page, pane.filter>> THEN @ ELSE FALSE]
  /\ wire' = IF <<p, f>> = <<pane.page, pane.filter>> THEN wire
             ELSE Append(wire, Load(p, f))
  /\ UNCHANGED <<tab, selected>>

\* The search form, or the inbox's "Open" and "Everything".
Filter(f) == tab \in {"accounts", "inbox"} /\ selected = None /\ MovesOn /\ Asks(0, f)

\* The pager turns from the page on show, the trail from the page asked for.
Turn(d) ==
  /\ pane.data # None /\ ~pane.failed /\ selected = None /\ MovesOn
  /\ LET p == (IF tab = "trail" THEN pane.page ELSE pane.data.page) + d
     IN  p \in 0..MaxPage /\ Asks(p, pane.filter)

Retry ==
  /\ pane.failed /\ MovesOn
  /\ pane' = [pane EXCEPT !.failed = FALSE]
  /\ wire' = Append(wire, Load(pane.page, pane.filter))
  /\ UNCHANGED <<tab, selected>>

\* A row opens its dialog; rows may be old, so any account may be there, and
\* the dialog offers each change in either direction.
OpenDialog(u) ==
  /\ tab = "accounts" /\ pane.data # None /\ ~pane.failed /\ selected = None
  /\ selected' = u
  /\ UNCHANGED <<server, tab, pane, overview, wire>>

CloseDialog ==
  /\ selected # None /\ (Waits => ~Waiting)
  /\ selected' = None
  /\ wire' = [i \in DOMAIN wire |-> [wire[i] EXCEPT !.busy = FALSE]]
  /\ UNCHANGED <<server, tab, pane, overview>>

Sends(call) ==
  /\ ~Busy /\ Len(wire) < MaxWire /\ (Waits => ~Waiting)
  /\ Room
  /\ wire' = Append(wire, [call EXCEPT !.busy = TRUE, !.page = pane.page,
                             !.filter = pane.filter])
  /\ UNCHANGED <<server, page>>

\* The dialog's buttons; the operator's own row offers the e-mail ones only.
Act(what) ==
  /\ selected # None /\ (selected = Me => what \in {"verify", "resend"})
  /\ Sends([NoCall EXCEPT !.what = what, !.on = selected])

SetHandled ==
  /\ tab = "inbox" /\ pane.data # None /\ ~pane.failed
  /\ Sends([NoCall EXCEPT !.what = "handle"])

\* A switch; what the panel holds is remembered until the answer.
Save(k) ==
  /\ tab = "overview"
  /\ Sends([NoCall EXCEPT !.what = "save", !.on = k, !.value = ~overview.switches[k],
              !.held = overview.switches])

------------------------------------------------------------------------
(* Answers.                                                                *)

Arrives(i) ==
  /\ wire[i].at \in {"served", "refused"} /\ (InOrder => i = 1)
  /\ UNCHANGED <<server, tab>>

RowsAnswered(i) ==
  /\ wire[i].what = "rows" /\ Arrives(i)
  /\ pane' = IF ~wire[i].live THEN pane
             ELSE IF wire[i].at = "refused" THEN [pane EXCEPT !.failed = TRUE]
             ELSE [pane EXCEPT !.data =
                    [page |-> wire[i].page, filter |-> wire[i].filter,
                     counted |-> wire[i].counted]]
  /\ wire' = RemoveAt(wire, i)
  /\ UNCHANGED <<selected, overview>>

\* It settles what became of a lost save, unless the next is on its way: that
\* one's answer brings back what the panel held.
OverviewAnswered(i) ==
  /\ wire[i].what = "overview" /\ Arrives(i)
  /\ overview' = IF wire[i].at = "refused" THEN [overview EXCEPT !.missed = TRUE]
                 ELSE [overview EXCEPT !.counted = wire[i].counted,
                         !.switches = wire[i].held, !.missed = FALSE,
                         !.unsure = @ /\ OnWire("save")]
  /\ wire' = RemoveAt(wire, i)
  /\ UNCHANGED <<selected, pane>>

\* onSaved: the switches the panel held when it was clicked, and this one.
SaveAnswered(i) ==
  /\ wire[i].what = "save" /\ Arrives(i)
  /\ overview' = IF wire[i].at = "refused" THEN overview
                 ELSE [overview EXCEPT !.switches =
                         [wire[i].held EXCEPT ![wire[i].on] = wire[i].value]]
  /\ wire' = RemoveAt(wire, i)
  /\ UNCHANGED <<selected, pane>>

\* (variant) A change reads its own list again, and not the overview.
ChangeAnsweredAlone(i) ==
  /\ wire[i].what \in AccountActs \cup {"handle"} /\ wire[i].at = "served" /\ Arrives(i)
  /\ selected' = IF wire[i].live THEN None ELSE selected
  /\ pane' = IF wire[i].live
             THEN [pane EXCEPT !.failed = FALSE, !.owed = wire[i].counted] ELSE pane
  /\ overview' = [overview EXCEPT !.owed = wire[i].counted]
  /\ wire' = RemoveAt(wire, i) \o <<[Load(wire[i].page, wire[i].filter)
                                      EXCEPT !.live = wire[i].live]>>

\* (variant) A change reads the overview again, and leaves the list.
ChangeAnsweredQuietly(i) ==
  /\ wire[i].what \in AccountActs \cup {"handle"} /\ wire[i].at = "served" /\ Arrives(i)
  /\ selected' = IF wire[i].live THEN None ELSE selected
  /\ pane' = IF wire[i].live THEN [pane EXCEPT !.owed = wire[i].counted] ELSE pane
  /\ overview' = [overview EXCEPT !.owed = wire[i].counted]
  /\ wire' = RemoveAt(wire, i) \o <<RefreshOverview>>

\* A change was made: the dialog open now closes, the list of the moment the
\* button was pressed and the overview are read again.
ChangeAnswered(i) ==
  /\ wire[i].what \in AccountActs \cup {"handle"} /\ wire[i].at = "served" /\ Arrives(i)
  /\ selected' = IF wire[i].live THEN None ELSE selected
  /\ pane' = IF wire[i].live
             THEN [pane EXCEPT !.failed = FALSE, !.owed = wire[i].counted] ELSE pane
  /\ overview' = [overview EXCEPT !.owed = wire[i].counted]
  /\ wire' = RemoveAt(wire, i) \o <<[Load(wire[i].page, wire[i].filter)
                                      EXCEPT !.live = wire[i].live], RefreshOverview>>

\* It was not: an error is shown.
ChangeRefused(i) ==
  /\ wire[i].what \in AccountActs \cup {"handle"} /\ wire[i].at = "refused" /\ Arrives(i)
  /\ wire' = RemoveAt(wire, i)
  /\ UNCHANGED <<selected, pane, overview>>

\* The connection goes, before the request was served or after.  A lost save
\* leaves the switches in doubt.
Lost(i) ==
  /\ InOrder => i = 1
  /\ wire' = RemoveAt(wire, i)
  /\ pane' = IF wire[i].what = "rows" /\ wire[i].live THEN [pane EXCEPT !.failed = TRUE]
             ELSE pane
  /\ overview' = [overview EXCEPT !.missed = @ \/ wire[i].what = "overview",
                                  !.unsure = @ \/ wire[i].what = "save"]
  /\ UNCHANGED <<server, tab, selected>>

------------------------------------------------------------------------
Elsewhere ==
  \/ \E c \in Change : Decide(c) \/ Commit(c)
  \/ \E u \in Users : SignIn(u) \/ EraseSelf(u)
  \/ Restart

Serve(i) ==
  Refuse(i) \/ ServeRead(i) \/ ServeSave(i) \/ ServeHandled(i) \/ DecideMine(i)
    \/ CommitMine(i)

Use ==
  \/ \E t \in Tabs : OpenTab(t)
  \/ \E f \in Filters : Filter(f)
  \/ \E d \in {-1, 1} : Turn(d)
  \/ Retry \/ SetHandled \/ CloseDialog
  \/ \E u \in Users : OpenDialog(u)
  \/ \E what \in AccountActs : Act(what)
  \/ \E k \in Keys : Save(k)

Answered(i) ==
  RowsAnswered(i) \/ OverviewAnswered(i) \/ SaveAnswered(i) \/ ChangeAnswered(i)
    \/ ChangeRefused(i) \/ Lost(i)

Next == Elsewhere \/ Use \/ \E i \in DOMAIN wire : Serve(i) \/ Answered(i)

Spec == Init /\ [][Next]_vars

------------------------------------------------------------------------
RoleTypes ==
  /\ accounts \subseteq Users
  /\ Admins \subseteq accounts /\ \A u \in Admins : grants[u] \in accounts \cup {None}
  /\ suspended \subseteq accounts /\ verified \subseteq accounts
  /\ signedIn \subseteq accounts
  /\ elsewhere \subseteq Change /\ settings \in [Keys -> BOOLEAN]
  /\ done \in 0..MaxActs

\* Types of what the server and the page hold; the role is never held by, or
\* in the name of, an account that is gone.
TypeOK ==
  /\ RoleTypes
  /\ tab \in Tabs /\ pane \in Pane /\ selected \in Users \cup {None}
  /\ overview \in Overview /\ wire \in Seq(Call)

\* Somebody can always reach the console: no sequence of grants, revocations,
\* suspensions and erasures leaves only suspended admins, or none (so long as
\* they come one at a time, and no operator deletes their own account).
ConsoleReachable == Admins \ suspended # {}

Idle(what) == \A i \in DOMAIN wire : wire[i].what \notin what

\* A list that shows rows, with nothing under way, answers the page and filter
\* that are chosen and shows the operator's own changes.
ListIsCurrent ==
  Idle({"rows"}) /\ ~pane.failed /\ pane.data # None =>
    /\ pane.data.page = pane.page /\ pane.data.filter = pane.filter
    /\ pane.data.counted >= pane.owed

\* So do the tiles, unless the overview they were last asked to show got lost,
\* and the switches, unless the answer to a save did.
OverviewIsCurrent ==
  /\ Idle({"overview"}) /\ ~overview.missed => overview.counted >= overview.owed
  /\ Idle({"overview", "save"}) /\ ~overview.unsure => overview.switches = settings
===========================================================================
