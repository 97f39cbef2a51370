----------------------------- MODULE ChangeSync -----------------------------
(***************************************************************************)
(* Live sync of one account (signal.go, sync.ts, vault.tsx): every change  *)
(* bumps the account's revision in its own transaction, is published to    *)
(* the account's sockets after it commits, and makes every tab but the one *)
(* that caused it fetch the active vault's items and the vault list again. *)
(*                                                                         *)
(* A change is abstracted to its place in the log of committed changes and *)
(* the list it touches: the items of a vault, or the Directory of vaults.  *)
(* Each change touches a row of its own, so a view is the set of changes   *)
(* it includes.  A definition marked (variant) is a plausible mistake.     *)
(***************************************************************************)
EXTENDS Naturals, Sequences

CONSTANTS
  Tabs,            \* open tabs of the account, each with a client id
  Writers,         \* the tabs that write; a subset of Tabs
  Elsewhere,       \* another device, or a member of a shared vault
  Vaults,
  Directory,       \* the list of vaults
  NoVault,
  FirstVault,      \* the vault whose items the page is served with
  NoTx,
  OneAtATime,      \* are a tab's refetches answered one after the other?
  RequestsMayFail, \* may requests fail and the server crash?
  KeysMayGo,       \* may a tab's key store be locked?
  MaxRevision,     \* bound: changes ever committed
  MaxDrops,        \* bound: sockets dropped
  MaxSwitches,     \* bound: times a page starts its sync over
  MaxFetches       \* bound: refetches a tab has in flight

ASSUME SetsAssumption ==
  /\ Writers \subseteq Tabs
  /\ Elsewhere \notin Tabs
  /\ Directory \notin Vaults /\ NoVault \notin Vaults
  /\ FirstVault \in Vaults
  /\ \A c \in Tabs \cup {Elsewhere}, l \in Vaults \cup {Directory} :
       NoTx # [by |-> c, list |-> l, awaited |-> c # Elsewhere]

ASSUME BoundsAssumption ==
  /\ OneAtATime \in BOOLEAN /\ RequestsMayFail \in BOOLEAN /\ KeysMayGo \in BOOLEAN
  /\ MaxRevision \in Nat /\ MaxDrops \in Nat /\ MaxSwitches \in Nat
  /\ MaxFetches \in Nat

Clients == Tabs \cup {Elsewhere}
Lists == Vaults \cup {Directory}
Revisions == 0..MaxRevision
Changes == 1..MaxRevision

VARIABLES
  log,         \* the committed changes; the revision is its length
  tx,          \* the transaction that holds the account's row, if any
  publishing,  \* signals of committed changes, not published yet
  conn,        \* conn[t]: the tab's socket
  greeting,    \* greeting[t]: the revision looked up for a new socket
  frames,      \* frames[t]: signals on their way to the tab
  held,        \* held[t]: does sessionStorage hold the tab's keys?
  page,        \* page[t]: the vault page loads, is open, or shows the lock screen
  ref,         \* ref[t]: revisionRef, the revision the tab last heard of
  last,        \* last[t]: lastApplied
  active,      \* active[t]: the vault the tab shows
  shown,       \* shown[t]: the items on screen, and of which vault
  payload,     \* payload[t]: the items the page was served with, until used
  directory,   \* directory[t]: the vault list on screen
  fetches,     \* fetches[t]: refetches in flight, in the order they were sent
  writing,     \* writing[t]: own committed change not answered yet, or 0
  drops, switches

vars == <<log, tx, publishing, conn, greeting, frames, held, page, ref, last,
          active, shown, payload, directory, fetches, writing, drops, switches>>

------------------------------------------------------------------------
Revision == Len(log)
Signal == [revision: Revisions, origin: Clients]
Change == [by: Clients, list: Lists]
Transaction == [by: Clients, list: Lists, awaited: BOOLEAN]
Items == [of: Vaults \cup {NoVault}, has: SUBSET Changes]
Nothing == [of |-> NoVault, has |-> {}]
Fetch == [list: Lists, stage: {"sent", "read", "answered", "decrypting", "lost"},
          has: SUBSET Changes, revision: Revisions]

\* The changes of a list that are committed now.
Stored(list) == {i \in DOMAIN log : log[i].list = list}
Ask(list) == [list |-> list, stage |-> "sent", has |-> {}, revision |-> 0]

\* decryptRows of the items the page was served with: nothing is asked for.
Decrypt(items) ==
  [list |-> FirstVault, stage |-> "decrypting", has |-> items.has, revision |-> 0]

\* loadKeys: a lapsed idle window locks the store the keys are looked for in.
LoadKeys(t, found) ==
  /\ IF found THEN held[t] ELSE held[t] => KeysMayGo
  /\ held' = [held EXCEPT ![t] = found]

\* setItems(prev ?? []): what a failed refetch of items leaves on screen.
OrEmpty(t) == IF shown[t] = Nothing THEN [of |-> active[t], has |-> {}] ELSE shown[t]

Open(t) == page[t] = "open"
AskedForItems(t) == \E k \in DOMAIN fetches[t] : fetches[t][k].list # Directory
Turn(t, k) == k \in DOMAIN fetches[t] /\ (OneAtATime => k = 1)
Without(s, k) == [i \in 1..(Len(s) - 1) |-> IF i < k THEN s[i] ELSE s[i + 1]]

server == <<log, tx, publishing>>
socket == <<conn, greeting, frames>>
screen == <<held, page, active, shown, payload, directory>>
bounds == <<drops, switches>>

\* Every tab has just loaded the page of an account without changes.
Init ==
  /\ log = <<>> /\ tx = NoTx /\ publishing = {}
  /\ conn = [t \in Tabs |-> "down"]
  /\ greeting = [t \in Tabs |-> 0]
  /\ frames = [t \in Tabs |-> <<>>]
  /\ held = [t \in Tabs |-> TRUE]
  /\ page = [t \in Tabs |-> "open"]
  /\ ref = [t \in Tabs |-> 0]
  /\ last = [t \in Tabs |-> 0]
  /\ active = [t \in Tabs |-> FirstVault]
  /\ shown = [t \in Tabs |-> [of |-> FirstVault, has |-> {}]]
  /\ payload = [t \in Tabs |-> Nothing]
  /\ directory = [t \in Tabs |-> {}]
  /\ fetches = [t \in Tabs |-> <<>>]
  /\ writing = [t \in Tabs |-> 0]
  /\ drops = 0 /\ switches = 0

------------------------------------------------------------------------
(* The commit pipeline.                                                    *)

\* Who may change what: a tab writes the vault it shows, or creates one, and
\* has one write in flight (useAction).
MayWrite(client, list) ==
  client # Elsewhere =>
    /\ client \in Writers
    /\ Open(client)
    /\ writing[client] = 0
    /\ list \in {active[client], Directory}

\* (variant) The signal goes out from within the transaction.
PublishFirst(client, list) ==
  /\ tx = NoTx
  /\ Revision < MaxRevision
  /\ MayWrite(client, list)
  /\ tx' = [by |-> client, list |-> list, awaited |-> client # Elsewhere]
  /\ publishing' = publishing \cup {[revision |-> Revision + 1, origin |-> client]}
  /\ UNCHANGED <<log, socket, screen, ref, last, fetches, writing, bounds>>

\* A mutation and BumpUserRevision, which locks the account's row until the
\* transaction ends.
Mutate(client, list) ==
  /\ tx = NoTx
  /\ Revision < MaxRevision
  /\ MayWrite(client, list)
  /\ tx' = [by |-> client, list |-> list, awaited |-> client # Elsewhere]
  /\ UNCHANGED <<log, publishing, socket, screen, ref, last, fetches, writing, bounds>>

Rollback ==
  /\ tx # NoTx
  /\ tx' = NoTx
  /\ UNCHANGED <<log, publishing, socket, screen, ref, last, fetches, writing, bounds>>

\* (variant) A handler bumps the revision that the helper bumps again.
CommitBumpedTwice ==
  /\ tx # NoTx
  /\ log' = Append(log, [by |-> tx.by, list |-> tx.list])
  /\ publishing' = publishing \cup {[revision |-> Revision + 2, origin |-> tx.by]}
  /\ writing' = IF tx.awaited THEN [writing EXCEPT ![tx.by] = Revision + 1] ELSE writing
  /\ tx' = NoTx
  /\ UNCHANGED <<socket, screen, ref, last, fetches, bounds>>

Commit ==
  /\ tx # NoTx
  /\ log' = Append(log, [by |-> tx.by, list |-> tx.list])
  /\ publishing' = publishing \cup {[revision |-> Revision + 1, origin |-> tx.by]}
  /\ writing' = IF tx.awaited THEN [writing EXCEPT ![tx.by] = Revision + 1] ELSE writing
  /\ tx' = NoTx
  /\ UNCHANGED <<socket, screen, ref, last, fetches, bounds>>

\* (variant) A socket joins its topic only once it has been greeted.
PublishToGreeted(signal) ==
  /\ signal \in publishing
  /\ publishing' = publishing \ {signal}
  /\ frames' = [t \in Tabs |-> IF conn[t] = "open" THEN Append(frames[t], signal)
                                                   ELSE frames[t]]
  /\ UNCHANGED <<log, tx, conn, greeting, screen, ref, last, fetches, writing, bounds>>

\* PublishChange: requests publish after their commits, in any order.
Publish(signal) ==
  /\ signal \in publishing
  /\ publishing' = publishing \ {signal}
  /\ frames' = [t \in Tabs |-> IF conn[t] # "down" THEN Append(frames[t], signal)
                                                   ELSE frames[t]]
  /\ UNCHANGED <<log, tx, conn, greeting, screen, ref, last, fetches, writing, bounds>>

------------------------------------------------------------------------
(* The socket.                                                             *)

\* The tab dials (at once, or when its retry timer fires) and joins its topic.
Connect(t) ==
  /\ Open(t)
  /\ conn[t] = "down"
  /\ conn' = [conn EXCEPT ![t] = "subscribed"]
  /\ UNCHANGED <<server, greeting, frames, screen, ref, last, fetches, writing, bounds>>

LookUpRevision(t) ==
  /\ conn[t] = "subscribed"
  /\ conn' = [conn EXCEPT ![t] = "greeting"]
  /\ greeting' = [greeting EXCEPT ![t] = Revision]
  /\ UNCHANGED <<server, frames, screen, ref, last, fetches, writing, bounds>>

\* The lookup failed: the socket stays, ungreeted.
LookUpFails(t) ==
  /\ RequestsMayFail
  /\ conn[t] = "subscribed"
  /\ conn' = [conn EXCEPT ![t] = "open"]
  /\ UNCHANGED <<server, greeting, frames, screen, ref, last, fetches, writing, bounds>>

\* (variant) A new socket is not greeted.
GreetNobody(t) ==
  /\ conn[t] = "greeting"
  /\ conn' = [conn EXCEPT ![t] = "open"]
  /\ UNCHANGED <<server, greeting, frames, screen, ref, last, fetches, writing, bounds>>

\* The greeting names no tab as its origin.
Greet(t) ==
  /\ conn[t] = "greeting"
  /\ conn' = [conn EXCEPT ![t] = "open"]
  /\ frames' = [frames EXCEPT ![t] =
                  Append(@, [revision |-> greeting[t], origin |-> Elsewhere])]
  /\ UNCHANGED <<server, greeting, screen, ref, last, fetches, writing, bounds>>

\* The connection breaks, or is too slow and closed; what was on it is lost.
Drop(t) ==
  /\ drops < MaxDrops
  /\ conn[t] # "down"
  /\ conn' = [conn EXCEPT ![t] = "down"]
  /\ frames' = [frames EXCEPT ![t] = <<>>]
  /\ drops' = drops + 1
  /\ UNCHANGED <<server, greeting, screen, ref, last, fetches, writing, switches>>

\* A request whose answer will not come.
Lost(request) ==
  IF request.stage \in {"sent", "read"} THEN [request EXCEPT !.stage = "lost"] ELSE request

\* The server dies: its transaction, its unpublished signals, the sockets and
\* the answers it owed are gone.
Crash ==
  /\ RequestsMayFail
  /\ drops < MaxDrops
  /\ tx' = NoTx
  /\ publishing' = {}
  /\ conn' = [t \in Tabs |-> "down"]
  /\ frames' = [t \in Tabs |-> <<>>]
  /\ fetches' = [t \in Tabs |-> [k \in DOMAIN fetches[t] |-> Lost(fetches[t][k])]]
  /\ writing' = [t \in Tabs |-> 0]
  /\ drops' = drops + 1
  /\ UNCHANGED <<log, greeting, screen, ref, last, switches>>

------------------------------------------------------------------------
(* The tab: onmessage and the refetches.                                   *)

Receive(t) ==
  /\ frames[t] # <<>>
  /\ frames' = [frames EXCEPT ![t] = Tail(@)]
  /\ UNCHANGED <<server, conn, greeting, page, active, shown, payload, directory, ref,
                 writing, bounds>>

\* A revision that was applied already.
IgnoreStale(t) ==
  /\ Receive(t)
  /\ Head(frames[t]).revision <= last[t]
  /\ UNCHANGED <<held, last, fetches>>

\* "The tab already has the freshest state from its own response."
SkipOwn(t) ==
  /\ Receive(t)
  /\ Head(frames[t]).revision > last[t]
  /\ Head(frames[t]).origin = t
  /\ last' = [last EXCEPT ![t] = Head(frames[t]).revision]
  /\ UNCHANGED <<held, fetches>>

\* (variant) Only the items are fetched again.
RefetchItemsOnly(t) ==
  /\ Receive(t)
  /\ Head(frames[t]).revision > last[t]
  /\ Head(frames[t]).origin # t
  /\ Len(fetches[t]) + 2 <= MaxFetches
  /\ last' = [last EXCEPT ![t] = Head(frames[t]).revision]
  /\ LoadKeys(t, TRUE)
  /\ fetches' = [fetches EXCEPT ![t] = @ \o <<Ask(active[t])>>]

\* onChange: refetch, which finds its key, and refetchVaults.
Refetch(t) ==
  /\ Receive(t)
  /\ Head(frames[t]).revision > last[t]
  /\ Head(frames[t]).origin # t
  /\ Len(fetches[t]) + 2 <= MaxFetches
  /\ last' = [last EXCEPT ![t] = Head(frames[t]).revision]
  /\ LoadKeys(t, TRUE)
  /\ fetches' = [fetches EXCEPT ![t] = @ \o <<Ask(active[t]), Ask(Directory)>>]

\* onChange over a store without keys: refetch returns and asks for nothing.
RefetchDirectory(t) ==
  /\ Receive(t)
  /\ Head(frames[t]).revision > last[t]
  /\ Head(frames[t]).origin # t
  /\ Len(fetches[t]) < MaxFetches
  /\ last' = [last EXCEPT ![t] = Head(frames[t]).revision]
  /\ LoadKeys(t, FALSE)
  /\ fetches' = [fetches EXCEPT ![t] = Append(@, Ask(Directory))]

\* ItemsAPI and VaultsAPI: first the rows ...
ReadRows(t, k) ==
  /\ Turn(t, k)
  /\ fetches[t][k].stage = "sent"
  /\ fetches' = [fetches EXCEPT ![t][k].stage = "read",
                                ![t][k].has = Stored(fetches[t][k].list)]
  /\ UNCHANGED <<server, socket, screen, ref, last, writing, bounds>>

\* ... and then the revision.
ReadRevision(t, k) ==
  /\ Turn(t, k)
  /\ fetches[t][k].stage = "read"
  /\ fetches' = [fetches EXCEPT ![t][k].stage = "answered",
                                ![t][k].revision = Revision]
  /\ UNCHANGED <<server, socket, screen, ref, last, writing, bounds>>

\* handle.close(): the sync is over.
HangUp(t) ==
  /\ conn' = [conn EXCEPT ![t] = "down"]
  /\ frames' = [frames EXCEPT ![t] = <<>>]
  /\ UNCHANGED greeting

\* startSync anew: the old socket is closed, and what revisionRef holds is
\* taken as applied.
Resync(t, revision) ==
  /\ HangUp(t)
  /\ last' = [last EXCEPT ![t] = revision]

\* The rows of a vault are there, with their revision, and are decrypted ...
RowsArrive(t, k) ==
  /\ Turn(t, k)
  /\ fetches[t][k].stage = "answered"
  /\ fetches[t][k].list # Directory
  /\ ref' = [ref EXCEPT ![t] = fetches[t][k].revision]
  /\ fetches' = [fetches EXCEPT ![t][k].stage = "decrypting"]
  /\ UNCHANGED <<server, socket, screen, last, writing, bounds>>

\* ... and replace the items on screen, whatever vault that shows.
ItemsArrive(t, k) ==
  LET fetch == fetches[t][k]
  IN /\ Turn(t, k)
     /\ fetch.stage = "decrypting"
     /\ fetch.list # Directory
     /\ shown' = [shown EXCEPT ![t] = [of |-> fetch.list, has |-> fetch.has]]
     /\ fetches' = [fetches EXCEPT ![t] = Without(@, k)]
     /\ UNCHANGED <<server, socket, held, page, active, payload, directory, ref, last,
                    writing, bounds>>

\* The vault list is replaced; when it brings an open page a new vault, its key
\* is opened, the page's keys are saved and the sync starts over.
DirectoryArrives(t, k) ==
  LET fetch == fetches[t][k]
  IN /\ Turn(t, k)
     /\ fetch.stage = "answered"
     /\ fetch.list = Directory
     /\ directory' = [directory EXCEPT ![t] = fetch.has]
     /\ ref' = [ref EXCEPT ![t] = fetch.revision]
     /\ fetches' = [fetches EXCEPT ![t] = Without(@, k)]
     /\ \/ UNCHANGED <<socket, held, last, switches>>
        \/ /\ switches < MaxSwitches
           /\ Open(t)
           /\ ~ fetch.has \subseteq directory[t]
           /\ held' = [held EXCEPT ![t] = TRUE]
           /\ Resync(t, fetch.revision)
           /\ switches' = switches + 1
     /\ UNCHANGED <<server, page, active, shown, payload, writing, drops>>

\* (variant) A failed refetch is only reported.
FetchFailsSilently(t, k) ==
  /\ RequestsMayFail
  /\ Turn(t, k)
  /\ fetches[t][k].stage # "decrypting"
  /\ fetches' = [fetches EXCEPT ![t] = Without(@, k)]
  /\ UNCHANGED <<server, socket, screen, ref, last, writing, bounds>>

\* "Network error loading this vault.": a refetch is not tried again.
FetchFails(t, k) ==
  /\ RequestsMayFail
  /\ Turn(t, k)
  /\ fetches[t][k].stage # "decrypting"
  /\ fetches' = [fetches EXCEPT ![t] = Without(@, k)]
  /\ shown' = IF fetches[t][k].list = Directory THEN shown
                ELSE [shown EXCEPT ![t] = OrEmpty(t)]
  /\ UNCHANGED <<server, socket, held, page, active, payload, directory, ref, last, writing,
                 bounds>>

------------------------------------------------------------------------
(* The tab's own writes, and the vault on screen.                          *)

\* The handler answers after it has published.
Answered(t) ==
  /\ writing[t] # 0
  /\ \A signal \in publishing : signal.revision # writing[t]
  /\ writing' = [writing EXCEPT ![t] = 0]

\* applyWrite: the stored row joins the items on screen, if there are any.
ApplyWrite(t) ==
  /\ Answered(t)
  /\ log[writing[t]].list # Directory
  /\ shown' = IF shown[t] = Nothing THEN shown
                ELSE [shown EXCEPT ![t].has = @ \cup {writing[t]}]
  /\ ref' = [ref EXCEPT ![t] = writing[t]]
  /\ UNCHANGED <<server, socket, held, page, active, payload, directory, last, fetches, bounds>>

\* The vault whose items the effect shows: the page's own, decrypted the first
\* time it is the first vault, or none until a refetch answers, if it finds
\* its key and asks.
ShowVault(t, v, served, found) ==
  IF v = FirstVault /\ served # Nothing
    THEN /\ payload' = [payload EXCEPT ![t] = Nothing]
         /\ fetches' = [fetches EXCEPT ![t] = Append(@, Decrypt(served))]
         /\ UNCHANGED shown
    ELSE /\ shown' = [shown EXCEPT ![t] = Nothing]
         /\ payload' = [payload EXCEPT ![t] = served]
         /\ fetches' = IF found THEN [fetches EXCEPT ![t] = Append(@, Ask(v))] ELSE fetches

\* createVault: the vault joins the list and is selected; the new key makes
\* the sync start over.
ApplyNewVault(t, v) ==
  /\ switches < MaxSwitches
  /\ Len(fetches[t]) < MaxFetches
  /\ v # FirstVault
  /\ Answered(t)
  /\ log[writing[t]].list = Directory
  /\ LoadKeys(t, TRUE)
  /\ directory' = [directory EXCEPT ![t] = @ \cup {writing[t]}]
  /\ ref' = [ref EXCEPT ![t] = writing[t]]
  /\ active' = [active EXCEPT ![t] = v]
  /\ ShowVault(t, v, payload[t], TRUE)
  /\ Resync(t, writing[t])
  /\ switches' = switches + 1
  /\ UNCHANGED <<server, page, drops>>

\* createVault over a store without keys: setKeys(null) brings the lock screen.
NewVaultLocked(t, v) ==
  /\ v # FirstVault
  /\ Answered(t)
  /\ log[writing[t]].list = Directory
  /\ LoadKeys(t, FALSE)
  /\ page' = [page EXCEPT ![t] = "locked"]
  /\ directory' = [directory EXCEPT ![t] = @ \cup {writing[t]}]
  /\ ref' = [ref EXCEPT ![t] = writing[t]]
  /\ active' = [active EXCEPT ![t] = v]
  /\ HangUp(t)
  /\ UNCHANGED <<server, shown, payload, last, fetches, bounds>>

\* The answer is lost: "Network error. Try again."
LoseAnswer(t) ==
  /\ RequestsMayFail
  /\ Answered(t)
  /\ UNCHANGED <<server, socket, screen, ref, last, fetches, bounds>>

\* The user selects a vault; the click is activity, so no window lapses now.
SelectVault(t, v) ==
  /\ switches < MaxSwitches
  /\ Len(fetches[t]) < MaxFetches
  /\ Open(t)
  /\ v # active[t]
  /\ active' = [active EXCEPT ![t] = v]
  /\ ShowVault(t, v, payload[t], held[t])
  /\ Resync(t, ref[t])
  /\ switches' = switches + 1
  /\ UNCHANGED <<server, held, page, directory, ref, writing, drops>>

\* The watch finds the window lapsed: setKeys(null) and setItems(null).
Lock(t) ==
  /\ KeysMayGo
  /\ Open(t) /\ held[t]
  /\ held' = [held EXCEPT ![t] = FALSE]
  /\ page' = [page EXCEPT ![t] = "locked"]
  /\ shown' = [shown EXCEPT ![t] = Nothing]
  /\ HangUp(t)
  /\ UNCHANGED <<server, active, payload, directory, ref, last, fetches, writing, bounds>>

\* "Lock now" wipes the store; the page goes on until the tab navigates.
LockNow(t) ==
  /\ KeysMayGo
  /\ Open(t) /\ held[t]
  /\ held' = [held EXCEPT ![t] = FALSE]
  /\ UNCHANGED <<server, socket, page, active, shown, payload, directory, ref, last,
                 fetches, writing, bounds>>

\* onUnlocked: the keys are saved and the page shows its vault and syncs again.
Unlock(t) ==
  /\ switches < MaxSwitches
  /\ Len(fetches[t]) < MaxFetches
  /\ page[t] = "locked"
  /\ held' = [held EXCEPT ![t] = TRUE]
  /\ page' = [page EXCEPT ![t] = "open"]
  /\ ShowVault(t, active[t], payload[t], TRUE)
  /\ Resync(t, ref[t])
  /\ switches' = switches + 1
  /\ UNCHANGED <<server, active, directory, ref, writing, drops>>

\* A navigation: RequireAuth reads the account with its revision and vaults.
\* Requests in flight go on at the server, but nobody awaits them.
Navigate(t) ==
  /\ page' = [page EXCEPT ![t] = "loading"]
  /\ ref' = [ref EXCEPT ![t] = Revision]
  /\ directory' = [directory EXCEPT ![t] = Stored(Directory)]
  /\ shown' = [shown EXCEPT ![t] = Nothing]
  /\ payload' = [payload EXCEPT ![t] = Nothing]
  /\ conn' = [conn EXCEPT ![t] = "down"]
  /\ frames' = [frames EXCEPT ![t] = <<>>]
  /\ fetches' = [fetches EXCEPT ![t] = <<>>]
  /\ writing' = [writing EXCEPT ![t] = 0]
  /\ tx' = IF tx # NoTx /\ tx.by = t THEN [tx EXCEPT !.awaited = FALSE] ELSE tx
  /\ UNCHANGED <<log, publishing, greeting, held, last, active, bounds>>

Served == [of |-> FirstVault, has |-> Stored(FirstVault)]

\* (variant) The page is stamped with the revision read after everything else.
StampLast(t) ==
  /\ page[t] = "loading"
  /\ LoadKeys(t, TRUE)
  /\ page' = [page EXCEPT ![t] = "open"]
  /\ ref' = [ref EXCEPT ![t] = Revision]
  /\ last' = [last EXCEPT ![t] = Revision]
  /\ ShowVault(t, active[t], Served, TRUE)
  /\ UNCHANGED <<server, socket, active, directory, writing, bounds>>

\* AppVaultPage reads the first vault's items; the page renders and syncs from
\* the revision it was stamped with.
ShowPage(t) ==
  /\ page[t] = "loading"
  /\ LoadKeys(t, TRUE)
  /\ page' = [page EXCEPT ![t] = "open"]
  /\ last' = [last EXCEPT ![t] = ref[t]]
  /\ ShowVault(t, active[t], Served, TRUE)
  /\ UNCHANGED <<server, socket, active, directory, ref, writing, bounds>>

\* No keys are found: the lock screen, with the page's items still unused.
ShowLockScreen(t) ==
  /\ page[t] = "loading"
  /\ LoadKeys(t, FALSE)
  /\ page' = [page EXCEPT ![t] = "locked"]
  /\ payload' = [payload EXCEPT ![t] = Served]
  /\ UNCHANGED <<server, socket, active, shown, directory, ref, last, fetches, writing, bounds>>

------------------------------------------------------------------------
Next ==
  \/ \E client \in Clients, list \in Lists : Mutate(client, list)
  \/ Rollback
  \/ Commit
  \/ \E signal \in publishing : Publish(signal)
  \/ Crash
  \/ \E t \in Tabs :
       \/ Connect(t) \/ LookUpRevision(t) \/ LookUpFails(t) \/ Greet(t) \/ Drop(t)
       \/ IgnoreStale(t) \/ SkipOwn(t) \/ Refetch(t) \/ RefetchDirectory(t)
       \/ \E k \in DOMAIN fetches[t] :
            \/ ReadRows(t, k) \/ ReadRevision(t, k) \/ RowsArrive(t, k)
            \/ ItemsArrive(t, k) \/ DirectoryArrives(t, k) \/ FetchFails(t, k)
       \/ ApplyWrite(t) \/ LoseAnswer(t)
       \/ \E v \in Vaults : ApplyNewVault(t, v) \/ NewVaultLocked(t, v) \/ SelectVault(t, v)
       \/ Lock(t) \/ LockNow(t) \/ Unlock(t)
       \/ Navigate(t) \/ ShowPage(t) \/ ShowLockScreen(t)

Spec == Init /\ [][Next]_vars

\* A committed change is published, and a tab's own machinery goes on: its
\* retry timer, its socket, its refetches.  Nothing is assumed of the users.
Fairness ==
  /\ WF_vars(\E signal \in publishing : Publish(signal))
  /\ \A t \in Tabs :
       /\ WF_vars(Connect(t)) /\ WF_vars(LookUpRevision(t)) /\ WF_vars(Greet(t))
       /\ WF_vars(IgnoreStale(t) \/ SkipOwn(t) \/ Refetch(t) \/ RefetchDirectory(t))
       /\ WF_vars(\E k \in DOMAIN fetches[t] :
                    \/ ReadRows(t, k) \/ ReadRevision(t, k) \/ RowsArrive(t, k)
                    \/ ItemsArrive(t, k) \/ DirectoryArrives(t, k))
       /\ WF_vars(ShowPage(t) \/ ShowLockScreen(t))

FairSpec == Spec /\ Fairness

------------------------------------------------------------------------
\* Types of the server's state, the sockets and the tabs.
TypeOK ==
  /\ log \in Seq(Change) /\ Revision <= MaxRevision
  /\ tx \in Transaction \cup {NoTx}
  /\ publishing \subseteq Signal
  /\ conn \in [Tabs -> {"down", "subscribed", "greeting", "open"}]
  /\ greeting \in [Tabs -> Revisions]
  /\ frames \in [Tabs -> Seq(Signal)]
  /\ held \in [Tabs -> BOOLEAN]
  /\ page \in [Tabs -> {"loading", "open", "locked"}]
  /\ ref \in [Tabs -> Revisions]
  /\ last \in [Tabs -> Revisions]
  /\ active \in [Tabs -> Vaults]
  /\ shown \in [Tabs -> Items]
  /\ payload \in [Tabs -> Items]
  /\ directory \in [Tabs -> SUBSET Changes]
  /\ fetches \in [Tabs -> Seq(Fetch)]
  /\ writing \in [Tabs -> Revisions]
  /\ drops \in 0..MaxDrops /\ switches \in 0..MaxSwitches

\* A rolled-back change never signals anyone: every revision a tab has heard of
\* or is about to hear of is committed, so there is something to fetch.
SignalsFollowCommits ==
  \A t \in Tabs :
    /\ ref[t] <= Revision /\ last[t] <= Revision
    /\ \A n \in DOMAIN frames[t] : frames[t][n].revision <= Revision

\* Nothing this tab waits for is on its way.
Settled(t) ==
  /\ Open(t) /\ conn[t] = "open"
  /\ frames[t] = <<>> /\ fetches[t] = <<>> /\ writing[t] = 0
  /\ publishing = {}

\* Once everything has arrived, a connected tab shows the stored items of the
\* vault it has selected ...
SettledItemsAreFresh ==
  \A t \in Tabs :
    Settled(t) => shown[t] = [of |-> active[t], has |-> Stored(active[t])]

\* ... and the stored list of vaults.
SettledDirectoryIsFresh ==
  \A t \in Tabs : Settled(t) => directory[t] = Stored(Directory)

\* A tab has change i on screen, or has asked for it.
Shows(t, i) ==
  \/ i \in directory[t]
  \/ shown[t].of = active[t] /\ i \in shown[t].has

Fetching(t, i) ==
  \E k \in DOMAIN fetches[t] :
    /\ fetches[t][k].list = log[i].list
    /\ fetches[t][k].stage = "sent" \/ i \in fetches[t][k].has

\* The tab's lastApplied never gets past a change of another client to a list
\* it shows, unless the tab shows that change or is fetching it.
EverySignalIsFetched ==
  \A t \in Tabs : Open(t) =>
    \A i \in 1..last[t] :
      log[i].by # t /\ log[i].list \in {active[t], Directory}
        => Shows(t, i) \/ Fetching(t, i)

\* "Unsealing your vault" is on screen, and no items are on their way.
Stranded(t) == Open(t) /\ shown[t] = Nothing /\ ~ AskedForItems(t)

\* Whatever fails, is lost or crashes, and whatever the user opens, locks or
\* unlocks meanwhile, a page is left unsealing for ever by one thing only: its
\* keys are gone from the store it looks for them in.
OnlyLocksStrand ==
  [][\A t \in Tabs : Stranded(t)' => Stranded(t) \/ ~ held'[t]]_vars

\* Live sync implements its promise, in a tab that does not write, stays on its
\* vault and has its refetches answered one after the other.
Promise == INSTANCE LiveView WITH
  written <- Revision,
  open <- [t \in Tabs |-> Open(t)],
  seen <- [t \in Tabs |-> IF Open(t) THEN shown[t].has \cup directory[t] ELSE {}]

PromiseKept == Promise!Spec
============================================================================
