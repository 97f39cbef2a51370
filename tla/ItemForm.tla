------------------------------ MODULE ItemForm ------------------------------
(***************************************************************************)
(* The items on the vault page and the form that edits them: item-form.tsx *)
(* with the writes of vault.tsx.  Every save sends the whole item, sealed  *)
(* anew from what the page held, so what the user did not touch has to     *)
(* come out as it went in.                                                 *)
(*                                                                         *)
(* How refetches race is ChangeSync's subject; here one shows the rows as  *)
(* they are when it lands.                                                 *)
(***************************************************************************)
EXTENDS FiniteSets, Totp

CONSTANTS
  Rows,       \* bound: the items there may be
  Safes,      \* the user's vaults
  Words,      \* what may be typed or generated; blank text is Blank
  Seeds,      \* what may be pasted as a one-time-code seed
  MaxTyped,   \* bound: fields touched in one form
  Blank, Nothing, Unborn, Gone,
  Waits       \* does the user wait for a write before choosing another vault?

ASSUME FormAssumption ==
  /\ Blank \notin Words \cup Seeds /\ Nothing \notin Rows /\ MaxTyped \in Nat
  /\ Waits \in BOOLEAN

VARIABLES
  store,   \* the server's rows
  here,    \* the vault on show
  screen,  \* its items as the page decrypted them; Nothing while they load
  form,    \* the open form
  write    \* the one request the page's useAction has under way

formVars == <<store, here, screen, form, write>>

Fields == {"title", "notes", "password", "seed"}
CATEGORY_FIELDS == [login |-> {"password", "seed"}, secure_note |-> {}]
Categories == DOMAIN CATEGORY_FIELDS
Texts == Words \cup Seeds \cup {Bare(Clean(s.chars)) : s \in Seeds} \cup {Blank}

Content == [text: [Fields -> Texts], category: Categories, favorite: BOOLEAN]
Item == [home: Safes, content: Content, trashed: BOOLEAN]
Exists(row) == row \notin {Unborn, Gone}

Shown == IF screen = Nothing THEN {} ELSE DOMAIN screen

\* was: the item on screen when it was opened for editing; typed: what the user
\* changed since.  A new item's form starts out empty.
Form == [item: Rows \cup {Nothing}, content: Content, was: Content,
         typed: SUBSET (Fields \cup {"category"}), refused: BOOLEAN]
FormOn(r, content) ==
  [item |-> r, content |-> content, was |-> content, typed |-> {}, refused |-> FALSE]
Empty == [text |-> [f \in Fields |-> Blank], category |-> "login", favorite |-> FALSE]

Request == [what: {"create", "update", "trash", "restore", "delete"},
            item: Rows \cup {Nothing}, home: Safes, content: Content, was: Content,
            typed: SUBSET (Fields \cup {"category", "favorite"}),
            at: {"sent", "served"}]

FormInit ==
  /\ here \in Safes
  /\ store \in [Rows -> {Unborn} \cup
       {[home |-> here, trashed |-> FALSE,
         content |-> [Empty EXCEPT !.text["title"] = w]] : w \in Words}]
  /\ screen = Nothing /\ form = Nothing /\ write = Nothing

------------------------------------------------------------------------
(* The page.                                                               *)

RowsOf(v) ==
  LET there == {r \in Rows : Exists(store[r]) /\ store[r].home = v}
  IN  [r \in there |-> store[r]]

\* The first rows, a refetch after a switch or after news.
Loaded ==
  /\ screen # RowsOf(here) /\ screen' = RowsOf(here)
  /\ UNCHANGED <<store, here, form, write>>

\* (variant) The items stay on screen until those of the other vault are there.
ChooseSafeKeepingItems(v) ==
  /\ v # here /\ form = Nothing /\ (Waits => write = Nothing)
  /\ here' = v
  /\ UNCHANGED <<store, screen, form, write>>

\* The switcher is not disabled while a write is under way.
ChooseSafe(v) ==
  /\ v # here /\ form = Nothing /\ (Waits => write = Nothing)
  /\ here' = v /\ screen' = Nothing
  /\ UNCHANGED <<store, form, write>>

------------------------------------------------------------------------
(* The form.                                                               *)

Opens(f) == form = Nothing /\ form' = f /\ UNCHANGED <<store, here, screen, write>>

\* "New item" is not disabled while a write is under way; "Edit" is.
NewItem == Opens(FormOn(Nothing, Empty))

EditItem(r) ==
  /\ r \in Shown /\ ~screen[r].trashed /\ write = Nothing
  /\ Opens(FormOn(r, screen[r].content))

\* The inputs are disabled while a write is under way.
Changes(f) == form # Nothing /\ write = Nothing /\ form' = f
              /\ UNCHANGED <<store, here, screen, write>>

Type(f, text) ==
  /\ form # Nothing /\ text # form.content.text[f]
  /\ f \in form.typed \/ Cardinality(form.typed) < MaxTyped
  /\ f \in {"password", "seed"} => f \in CATEGORY_FIELDS[form.content.category]
  /\ text \in IF f = "seed" THEN Seeds \cup {Blank} ELSE Words \cup {Blank}
  /\ Changes([form EXCEPT !.content.text[f] = text, !.typed = @ \cup {f},
                          !.refused = @ /\ f # "seed"])

\* Buttons of a new item's form.  The template decides what is shown; what was
\* typed into another template's fields stays behind.
ChooseCategory(c) ==
  /\ form # Nothing /\ form.item = Nothing /\ c # form.content.category
  /\ Changes([form EXCEPT !.content.category = c, !.typed = @ \cup {"category"}])

\* Cancel waits for the write, Escape and the backdrop do not.
CancelForm ==
  /\ form # Nothing /\ form' = Nothing
  /\ UNCHANGED <<store, here, screen, write>>

\* Only the template's fields are sealed, the seed in its normal form.
Sealed(f, content, text) ==
  IF f \in {"title", "notes"} THEN text
  ELSE IF f \notin CATEGORY_FIELDS[content.category] \/ text = Blank THEN Blank
  ELSE IF f = "seed" THEN NormalizeTotpInput(text) ELSE text

\* (variant) The star is not carried over from the item the form was opened on.
CleanedUnstarred(content) ==
  [content EXCEPT !.text = [f \in Fields |-> Sealed(f, content, content.text[f])],
                  !.favorite = FALSE]

Cleaned(content) ==
  [content EXCEPT !.text = [f \in Fields |-> Sealed(f, content, content.text[f])]]

Sends(request) ==
  /\ write = Nothing /\ write' = request
  /\ UNCHANGED <<store, here, screen>>

Submit ==
  /\ form # Nothing /\ form.content.text["title"] # Blank
  /\ LET cleaned == Cleaned(form.content) IN
     IF cleaned.text["seed"] = Unreadable
     THEN Changes([form EXCEPT !.refused = TRUE])
     ELSE /\ Sends([what |-> IF form.item = Nothing THEN "create" ELSE "update",
                    item |-> form.item, home |-> here, content |-> cleaned,
                    was |-> form.was, typed |-> IF form.item = Nothing THEN {} ELSE form.typed,
                    at |-> "sent"])
          /\ UNCHANGED form

------------------------------------------------------------------------
(* The detail pane.                                                        *)

OnItem(what, r, content, was, typed) ==
  /\ form = Nothing /\ r \in Shown
  /\ Sends([what |-> what, item |-> r, home |-> here, content |-> content,
            was |-> was, typed |-> typed, at |-> "sent"])
  /\ UNCHANGED form

\* The star seals the details on screen again, with the overview turned.
ToggleFavorite(r) ==
  /\ r \in Shown /\ ~screen[r].trashed
  /\ OnItem("update", r, [screen[r].content EXCEPT !.favorite = ~@], screen[r].content,
            {"favorite"})

\* These send the item's id alone.
Moves(what, r, trashed) ==
  /\ r \in Shown /\ screen[r].trashed = trashed
  /\ OnItem(what, r, Empty, Empty, {})

Trash(r) == Moves("trash", r, FALSE)
Restore(r) == Moves("restore", r, TRUE)
DeleteForever(r) == Moves("delete", r, TRUE)

------------------------------------------------------------------------
(* The server, other devices, and the answers.                             *)

Stores(rows) ==
  /\ write # Nothing /\ write.at = "sent"
  /\ store' = rows
  /\ UNCHANGED <<here, screen, form>>

StoreNew ==
  /\ write # Nothing /\ write.what = "create"
  /\ \E r \in Rows :
       /\ store[r] = Unborn
       /\ Stores([store EXCEPT ![r] = [home |-> write.home, content |-> write.content,
                                       trashed |-> FALSE]])
       /\ write' = [write EXCEPT !.at = "served", !.item = r]

StoreWrite ==
  /\ write # Nothing /\ write.what # "create" /\ Exists(store[write.item])
  /\ Stores(CASE write.what = "update" -> [store EXCEPT ![write.item].content = write.content]
              [] write.what = "delete" -> [store EXCEPT ![write.item] = Gone]
              [] OTHER -> [store EXCEPT ![write.item].trashed = (write.what = "trash")])
  /\ write' = [write EXCEPT !.at = "served"]

\* Another device, of this user or of another member, changes an item, whatever
\* is done to it here.
OtherDevice(r) ==
  /\ Exists(store[r])
  /\ \E w \in Words : store' = [store EXCEPT ![r].content.text["notes"] = w]
  /\ UNCHANGED <<here, screen, form, write>>

\* applyWrite, onto whatever is on screen by then.
WithSaved ==
  [r \in DOMAIN screen \cup {write.item} |->
     IF r = write.item THEN [store[r] EXCEPT !.content = write.content] ELSE screen[r]]

Applied ==
  IF screen = Nothing THEN Nothing
  ELSE CASE write.what \in {"create", "update"} -> WithSaved
         [] write.what = "delete" -> Restrict(screen, Shown \ {write.item})
         [] write.what \in {"trash", "restore"} /\ write.item \in Shown ->
              [screen EXCEPT ![write.item].trashed = (write.what = "trash")]
         [] OTHER -> screen

\* A save closes the form, whichever is open by then.
Answered ==
  /\ write # Nothing /\ write.at = "served"
  /\ screen' = Applied /\ write' = Nothing
  /\ form' = IF write.what \in {"create", "update"} THEN Nothing ELSE form
  /\ UNCHANGED <<store, here>>

\* The item is gone, the vault full, the request malformed, the server at fault,
\* or the connection lost before the request or after it: the form stays as it is.
WriteFails ==
  /\ write # Nothing /\ write' = Nothing
  /\ UNCHANGED <<store, here, screen, form>>

------------------------------------------------------------------------
FormNext ==
  \/ Loaded \/ \E v \in Safes : ChooseSafe(v)
  \/ NewItem \/ \E r \in Rows : EditItem(r)
  \/ \E f \in Fields, text \in Texts : Type(f, text)
  \/ \E c \in Categories : ChooseCategory(c)
  \/ CancelForm \/ Submit
  \/ \E r \in Rows : ToggleFavorite(r) \/ Trash(r) \/ Restore(r) \/ DeleteForever(r)
  \/ StoreNew \/ StoreWrite \/ \E r \in Rows : OtherDevice(r)
  \/ Answered \/ WriteFails

FormSpec == FormInit /\ [][FormNext]_formVars

------------------------------------------------------------------------
FormTypes ==
  /\ \A r \in Rows : Exists(store[r]) => store[r] \in Item
  /\ here \in Safes
  /\ \A r \in Shown : screen[r] \in Item
  /\ form \in Form \cup {Nothing} /\ write \in Request \cup {Nothing}

Served == write # Nothing /\ write' # Nothing /\ write.at # write'.at

\* What the user changes an item from: a save, from what the form (or the star)
\* was opened on; anything else leaves the content as the server has it.
Before(r) ==
  IF write.what = "update" /\ write.item = r THEN write.was ELSE store[r].content

\* A save, which seals every field again, stores the item that was on screen
\* when the user opened it, changed in what the user changed and in nothing
\* else; no other request changes a content; and no seed is stored whose code
\* the detail pane could not show.  (Where the screen was behind the server, by
\* another device or by an own save whose answer was lost, the whole old item
\* replaces the newer one: items carry no version.)
SavesOnlyWhatWasTyped ==
  [][\A r \in Rows : Served /\ Exists(store[r]) /\ Exists(store'[r]) =>
       LET now == store'[r].content IN
       /\ \A f \in Fields : now.text[f] # Before(r).text[f] => f \in write.typed
       /\ now.favorite # Before(r).favorite => "favorite" \in write.typed
       /\ now.category = Before(r).category
       /\ now.text["seed"] = Blank \/ ParseTotp(now.text["seed"]) # Unreadable]_formVars

\* The items on screen are those of the vault on show, whatever was saved,
\* moved or switched meanwhile (if the user lets a write finish before choosing another vault).
ScreenShowsOneVault == \A r \in Shown : screen[r].home = here
=============================================================================
