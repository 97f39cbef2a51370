---------------------------- MODULE LinkDialogs ----------------------------
(***************************************************************************)
(* The two dialogs that hand out links: share-dialog.tsx, for the item     *)
(* selected on the vault page, and vault-manage.tsx, for the vault that is *)
(* active.  Neither is keyed by what it is open on: one dialog is shown on *)
(* one item after another, with the requests of the one before under way.  *)
(*                                                                         *)
(* The token of a link stands for the link; its fragment carries the key   *)
(* that opens what the link was made for.                                  *)
(***************************************************************************)
EXTENDS FiniteSets, Integers, SequencesExt

CONSTANTS
  Items, Vaults,
  Links,          \* bound: the links that may be created
  MaxCalls,       \* bound: requests unanswered when the user starts another
  NoItem, NoLink, Unknown,
  Patient,        \* does the user wait for an answer before closing a dialog?
  AnswersInOrder

ASSUME LinksAssumption ==
  /\ NoItem \notin Items \cup Vaults /\ Items \cap Vaults = {}
  /\ NoLink \notin Links /\ \A S \in SUBSET Links : S # Unknown
  /\ MaxCalls \in Nat /\ Patient \in BOOLEAN /\ AnswersInOrder \in BOOLEAN

VARIABLES
  madeFor,    \* the item or vault each link was made for
  liveLinks,  \* the links that still work
  vaults,     \* the user's vaults
  selected,   \* the item on show, if any
  active,     \* the vault on show
  dialogs,    \* the two dialogs
  calls       \* their requests, in the order they were sent

linkVars == <<madeFor, liveLinks, vaults, selected, active, dialogs, calls>>

Kinds == {"share", "manage"}
Subjects == Items \cup Vaults

\* fresh: the link shown once; doubt: a creation was sent whose answer was
\* lost; armed: "Delete vault" was pressed once.
Dialog == [open: BOOLEAN, list: (SUBSET Links) \cup {Unknown}, fresh: Links \cup {NoLink},
           failed: BOOLEAN, doubt: BOOLEAN, armed: BOOLEAN]
Closed == [open |-> FALSE, list |-> Unknown, fresh |-> NoLink, failed |-> FALSE,
           doubt |-> FALSE, armed |-> FALSE]

\* The vault settings start with no invites, the share dialog with no list.
Unopened(d) == IF d = "manage" THEN [Closed EXCEPT !.list = {}] ELSE Closed

\* mounted: the dialog that sent it is still there to hear the answer.
LinkCall == [what: {"list", "create", "revoke", "rename", "drop"}, from: Kinds,
             on: Subjects, link: Links \cup {NoLink}, shows: SUBSET Links,
             at: {"sent", "served"}, mounted: BOOLEAN]
Call(what, d, s) == [what |-> what, from |-> d, on |-> s, link |-> NoLink,
                     shows |-> {}, at |-> "sent", mounted |-> TRUE]

LinksInit ==
  /\ madeFor = [l \in {} |-> NoItem] /\ liveLinks = {}
  /\ vaults = Vaults /\ selected = NoItem /\ active \in Vaults
  /\ dialogs = [d \in Kinds |-> Unopened(d)] /\ calls = <<>>

------------------------------------------------------------------------
(* The server.                                                             *)

LinksOf(s) == {l \in liveLinks : madeFor[l] = s}

Serves(i, call) ==
  /\ calls[i].at = "sent"
  /\ calls' = [calls EXCEPT ![i] = call]
  /\ UNCHANGED <<vaults, selected, active, dialogs>>

ServeList(i) ==
  /\ calls[i].what = "list"
  /\ Serves(i, [calls[i] EXCEPT !.at = "served", !.shows = LinksOf(calls[i].on)])
  /\ UNCHANGED <<madeFor, liveLinks>>

ServeCreate(i) ==
  /\ calls[i].what = "create"
  /\ \E l \in Links \ DOMAIN madeFor :
       /\ madeFor' = [k \in DOMAIN madeFor \cup {l} |->
                        IF k = l THEN calls[i].on ELSE madeFor[k]]
       /\ liveLinks' = liveLinks \cup {l}
       /\ Serves(i, [calls[i] EXCEPT !.at = "served", !.link = l])

ServeRevoke(i) ==
  /\ calls[i].what = "revoke"
  /\ liveLinks' = liveLinks \ {calls[i].link}
  /\ Serves(i, [calls[i] EXCEPT !.at = "served"])
  /\ UNCHANGED madeFor

ServeRename(i) ==
  /\ calls[i].what = "rename"
  /\ Serves(i, [calls[i] EXCEPT !.at = "served"])
  /\ UNCHANGED <<madeFor, liveLinks>>

\* Deleting a vault takes its invites along; leaving one, the user's access.
ServeDrop(i) ==
  /\ calls[i].what = "drop"
  /\ liveLinks' = liveLinks \ LinksOf(calls[i].on)
  /\ Serves(i, [calls[i] EXCEPT !.at = "served"])
  /\ UNCHANGED madeFor

\* A link expires, or its invite is claimed.
LinkLapses(l) ==
  /\ liveLinks' = liveLinks \ {l}
  /\ l \in liveLinks
  /\ UNCHANGED <<madeFor, vaults, selected, active, dialogs, calls>>

------------------------------------------------------------------------
(* The dialogs.                                                            *)

Subject(d) == IF d = "share" THEN selected ELSE active

Asked(d) == \E i \in DOMAIN calls : calls[i].from = d /\ calls[i].what # "list"
Hurried == Patient /\ \E d \in Kinds : Asked(d)

\* The effect of a dialog that opens, or is open on another subject.  The vault
\* settings keep the invites on show, of whichever vault, until the list comes.
Reset(d) ==
  [dialogs EXCEPT ![d] = [Closed EXCEPT !.open = TRUE,
                            !.list = IF d = "manage" THEN dialogs[d].list ELSE @]]

\* The item list, or the vault switcher; the dialogs are modal.
ChooseItem(x) ==
  /\ x # selected /\ ~Hurried /\ \A d \in Kinds : ~dialogs[d].open
  /\ selected' = x
  /\ IF x = NoItem
     THEN /\ dialogs' = [dialogs EXCEPT !["share"] = Closed]
          /\ calls' = [i \in DOMAIN calls |-> IF calls[i].from = "share"
                         THEN [calls[i] EXCEPT !.mounted = FALSE] ELSE calls[i]]
     ELSE UNCHANGED <<dialogs, calls>>
  /\ UNCHANGED <<madeFor, liveLinks, vaults, active>>

ChooseVault(v) ==
  /\ v \in vaults \ {active} /\ ~Hurried /\ \A d \in Kinds : ~dialogs[d].open
  /\ active' = v
  /\ UNCHANGED <<madeFor, liveLinks, vaults, selected, dialogs, calls>>

Open(d) ==
  /\ Subject(d) # NoItem /\ ~Hurried /\ \A k \in Kinds : ~dialogs[k].open
  /\ Len(calls) < MaxCalls
  /\ dialogs' = Reset(d)
  /\ calls' = Append(calls, Call("list", d, Subject(d)))
  /\ UNCHANGED <<madeFor, liveLinks, vaults, selected, active>>

Close(d) ==
  /\ dialogs[d].open /\ ~Hurried
  /\ dialogs' = [dialogs EXCEPT ![d].open = FALSE]
  /\ UNCHANGED <<madeFor, liveLinks, vaults, selected, active, calls>>

Requests(d, call) ==
  /\ dialogs[d].open /\ Len(calls) < MaxCalls
  /\ \A i \in DOMAIN calls : calls[i].mounted /\ calls[i].from = d =>
       IF call.what = "revoke" THEN calls[i].what # "revoke"
       ELSE calls[i].what \notin {"create", "rename", "drop"}
  /\ calls' = Append(calls, call)
  /\ UNCHANGED <<madeFor, liveLinks, vaults, selected, active, dialogs>>

\* createLink and createInvite mint the key and seal what is on show under it.
Create(d) ==
  /\ Cardinality(DOMAIN madeFor)
       + Len(SelectSeq(calls, LAMBDA c : c.what = "create" /\ c.at = "sent"))
       < Cardinality(Links)
  /\ Requests(d, Call("create", d, Subject(d)))

Revoke(d, l) ==
  /\ dialogs[d].list # Unknown /\ l \in dialogs[d].list
  /\ Requests(d, [Call("revoke", d, Subject(d)) EXCEPT !.link = l])

Rename == Requests("manage", Call("rename", "manage", active))

\* "Delete vault" asks twice.
Arm ==
  /\ dialogs["manage"].open /\ ~dialogs["manage"].armed
  /\ dialogs' = [dialogs EXCEPT !["manage"].armed = TRUE]
  /\ UNCHANGED <<madeFor, liveLinks, vaults, selected, active, calls>>

DropVault ==
  /\ dialogs["manage"].armed /\ Cardinality(vaults) > 1
  /\ Requests("manage", Call("drop", "manage", active))

------------------------------------------------------------------------
(* Answers, to whatever the dialog shows by then.                          *)

Answers(i, what) ==
  /\ calls[i].what = what
  /\ calls[i].at = "served" /\ (AnswersInOrder => i = 1)
  /\ UNCHANGED <<madeFor, liveLinks>>

Hears(i, dialog) ==
  /\ dialogs' = IF calls[i].mounted THEN [dialogs EXCEPT ![calls[i].from] = dialog]
                ELSE dialogs
  /\ calls' = RemoveAt(calls, i)
  /\ UNCHANGED <<vaults, selected, active>>

Sender(i) == dialogs[calls[i].from]

Listed(i) ==
  /\ Answers(i, "list")
  /\ Hears(i, [Sender(i) EXCEPT !.list = calls[i].shows])

\* (variant) A new link is only shown, and listed from the next time on.
CreatedUnlisted(i) ==
  /\ Answers(i, "create")
  /\ Hears(i, [Sender(i) EXCEPT !.fresh = calls[i].link])

Created(i) ==
  /\ Answers(i, "create")
  /\ Hears(i, [Sender(i) EXCEPT !.fresh = calls[i].link,
                 !.list = (IF @ = Unknown THEN {} ELSE @) \cup {calls[i].link}])

Revoked(i) ==
  /\ Answers(i, "revoke")
  /\ Hears(i, [Sender(i) EXCEPT !.list = IF @ = Unknown THEN @ ELSE @ \ {calls[i].link}])

\* The name is a dependency of the effect: the dialog starts over, and the
\* invite link that was shown once is gone.
Renamed(i) ==
  /\ Answers(i, "rename")
  /\ IF dialogs["manage"].open /\ calls[i].on = active
     THEN /\ dialogs' = Reset("manage")
          /\ calls' = Append(RemoveAt(calls, i), Call("list", "manage", active))
          /\ UNCHANGED <<vaults, selected, active>>
     ELSE Hears(i, Sender(i))

Dropped(i) ==
  /\ Answers(i, "drop")
  /\ vaults' = vaults \ {calls[i].on}
  /\ active' \in IF active = calls[i].on THEN vaults' ELSE {active}
  /\ dialogs' = [dialogs EXCEPT !["manage"].open = FALSE]
  /\ calls' = RemoveAt(calls, i)
  /\ UNCHANGED selected

\* A refusal (a cap, a role, a fault) or a lost connection: a list that did not
\* come says so, a delete is disarmed.
Fails(i) ==
  /\ AnswersInOrder => i = 1
  /\ Hears(i, CASE calls[i].what = "list" -> [Sender(i) EXCEPT !.list = {}, !.failed = TRUE]
                [] calls[i].what = "drop" -> [Sender(i) EXCEPT !.armed = FALSE]
                [] calls[i].what = "create" -> [Sender(i) EXCEPT
                                                  !.doubt = @ \/ calls[i].at = "served"]
                [] OTHER -> Sender(i))
  /\ UNCHANGED <<madeFor, liveLinks>>

------------------------------------------------------------------------
LinksUse ==
  \/ \E x \in Items \cup {NoItem} : ChooseItem(x)
  \/ \E v \in Vaults : ChooseVault(v)
  \/ \E d \in Kinds : Open(d) \/ Close(d) \/ Create(d) \/ \E l \in Links : Revoke(d, l)
  \/ Rename \/ Arm \/ DropVault

LinksServe(i) ==
  ServeList(i) \/ ServeCreate(i) \/ ServeRevoke(i) \/ ServeRename(i) \/ ServeDrop(i)

LinksAnswered(i) ==
  Listed(i) \/ Created(i) \/ Revoked(i) \/ Renamed(i) \/ Dropped(i) \/ Fails(i)

LinksNext ==
  \/ LinksUse \/ \E l \in Links : LinkLapses(l)
  \/ \E i \in DOMAIN calls : LinksServe(i) \/ LinksAnswered(i)

LinksSpec == LinksInit /\ [][LinksNext]_linkVars

------------------------------------------------------------------------
Settled(d) ==
  /\ dialogs[d].open /\ dialogs[d].list # Unknown
  /\ ~dialogs[d].failed /\ ~dialogs[d].doubt
  /\ \A i \in DOMAIN calls : calls[i].from # d

\* A dialog with nothing under way, whose list came and whose creations were
\* all answered, shows every working link to its subject, and no link, listed
\* or fresh, that opens anything else (so long as the user waits for answers,
\* and they come in order).
ExposureIsShown ==
  \A d \in Kinds : Settled(d) =>
    /\ LinksOf(Subject(d)) \subseteq dialogs[d].list
    /\ \A l \in (dialogs[d].list \cup {dialogs[d].fresh}) \ {NoLink} :
         madeFor[l] = Subject(d)

LinkTypes ==
  /\ DOMAIN madeFor \subseteq Links /\ \A l \in DOMAIN madeFor : madeFor[l] \in Subjects
  /\ liveLinks \subseteq DOMAIN madeFor
  /\ vaults \subseteq Vaults /\ active \in vaults /\ selected \in Items \cup {NoItem}
  /\ dialogs \in [Kinds -> Dialog] /\ calls \in Seq(LinkCall)
============================================================================
