# Vault3 in TLA+

A verification development for vault3, a zero-knowledge password manager: a Go
server over PostgreSQL (`internal/`), a scheduler process (`cmd/scheduler`), and
a React client that holds every key (`web/`). The modules here are translated
from the source; the line ranges are in `PROJECT.json` under `map`.

- [The system](#the-system)
- [Modules](#modules)
- [Runs](#runs)
- [What the runs refute](#what-the-runs-refute)
- [Proofs](#proofs)
- [Abstractions and bounds](#abstractions-and-bounds)
- [Not modelled](#not-modelled)
- [Plan](#plan)

## The system

One server process answers requests concurrently, one goroutine each. Its only
durable state is PostgreSQL at READ COMMITTED; the WebSocket hub lives in the
process and dies with it (`main.go` ends in `http.ListenAndServe`, there is no
graceful shutdown). The scheduler runs housekeeping statements against the same
database. A browser has one cookie and any number of tabs, each with its own
`sessionStorage` and its own socket.

Almost every handler has the same shape: resolve the session and hydrate the
account (`RequireAuth`), read and refuse, open a transaction, mutate, bump the
revision of everyone affected, commit, publish, write an audit row, answer. **The
decision is taken on what was read before the transaction**; the transaction
re-checks only what its `WHERE` clauses and the schema's constraints say. Most of
what is hard here follows from that.

| component | state | operations | what makes it correct |
|---|---|---|---|
| vault membership (`vault_manage_view.go`, `vault.go`, `vault_invite.go`) | user, vault, access and invite rows | register, create, delete, invite, revoke, accept, remove, leave, delete account, purge | one owner per live vault; an invite is settled once; caps; kind in step with members; whoever loses a vault hears of it |
| account keys (`account_view.go`, `auth.go`, `settings.tsx`, `lock-screen.tsx`, `login.tsx`) | credential hash and salt, one wrap per vault, sessions; per tab: key and page keyset | login, logout, revoke, load, lock, unlock, gain or lose a vault, change the Master Password | no vault key left under replaced credentials; no session outlives its credentials; keys are proven; failures are reported truthfully |
| live sync (`signal.go`, `sync.ts`, `vault.tsx`) | revision, hub and sockets; per tab: lastApplied, revisionRef, items, vault list, requests in flight | commit, publish, connect, greet, drop, refetch, apply a write, switch, navigate | signals follow commits; none is lost; views converge; own writes stay |
| items, trash, share links (`vault_view.go`, `share_view.go`) | item and link rows | write, trash, restore, delete, purge; create, open, revoke | caps, retention, revocation |
| sign-in and joining (`login.tsx`, `join.tsx`, `turnstile.tsx`, `verify-email.tsx`, `auth.go`, `register_view.go`, `account_view.go`, `email_verification_view.go`) | account, verification token, enrolled and pending secret; per page: form, step, widget and its token; per settings section: what it says | generate a phrase, save its kit, register, sign in with and without the second factor, solve and lose a human check; set up, scan, verify, disable, cancel; send, resend and redeem a verification | no spent token is offered; the enrolled secret is one the owner holds; a saved kit opens the account |
| admin console (`admin_view.go`, `admin.tsx`) | accounts, admin rows, suspension, settings; the page's section, list, dialogs and requests in flight | grant, revoke, suspend, restore, delete, save a setting, handle an inquiry, bootstrap; load, filter, page | someone can administer; what is on screen is what is stored |
| scheduler (`jobs/`) | none | four purges | removes only what has lapsed |
| client key store (`keystore.ts`, `vault.tsx`, `lock-screen.tsx`) | per tab: stored keys and last activity, the page's copy, completions under way | unlock, lock, load, complete, idle out, navigate | the screen shows the keys stored; a lock stays; an idle tab locks; every vault is opened |
| item form (`item-form.tsx`, `item-detail.tsx`, `vault.tsx`) | rows, items on screen, the open form, the write under way | select, open, type, save, star, trash, restore, delete | a save stores what was typed; the screen is of one vault |
| link dialogs (`share-dialog.tsx`, `vault-manage.tsx`) | links and invites; per dialog: open, list, the link shown once; calls in flight | open, list, create, revoke, rename, delete, close | a live link is listed where it can be revoked |
| client cryptography (`crypto.ts`, `wordlist.ts`) | who holds what key; what the server was given | join, seal, share, invite, accept, re-wrap | typed secrets open exactly the account's vaults, a link what it was made for, the server nothing |
| generators and codes (`generator.ts`, `totp.ts`) | none | generate, parse, normalise, count | every allowed password, no other; seeds survive normalising |

Interactions: the components share the database; a change reaches other tabs only
through the hub and a refetch; the keys of a vault reach a member only inside an
invite link's fragment, which the server never sees. The behaviours that are hard
to test are listed with their lines under `hazards` in `PROJECT.json`.

## Modules

| module | models |
|---|---|
| `VaultMembership` | who can reach which vault |
| `VaultMembership_proofs` | theorems about it |
| `AccountKeys` | what one account's vault keys are sealed under, its sessions and tabs |
| `AccountKeys_proofs` | theorems about it |
| `ChangeSync`, `ChangeSync_proofs` | live sync of one account, from the commit to the screen |
| `ItemLifecycle` | the items of a vault, its trash, its share links and their purges |
| `ItemLifecycle_proofs` | theorems about it |
| `LiveView` | what live sync promises; `ChangeSync` is shown to implement it |
| `KeyStore`, `KeyStore_proofs` | the keys of one tab: the store, the page's copy, the idle window |
| `SignIn`, `SignIn_proofs` | how an account comes to be, proves its address, enrols a factor and signs in |
| `AdminConsole`, `AdminConsole_proofs` | the console's handlers and one operator's page |
| `LinkDialogs` | the dialogs that hand out share links and invites |
| `ItemForm` | the items on the page, the form, and the writes of the vault page |
| `Panels_proofs` | theorems about `LinkDialogs` and `ItemForm` |
| `Sealing` | what is sealed under what, and who can open it; its theorems are in `SignIn_proofs` |
| `Totp`, `Generator` | pure: one-time-code seeds, passwords |
| `MC*` | instances: symmetry sets and values for TLC, and the checks of pure functions; the constants are in the `.cfg` files |

A definition marked `(variant)` is not the code. It is a plausible mistake; the
`mutants` of `PROJECT.json` say which property catches it.

**VaultMembership.** `account`, `vault`, `owner`, `kind`, `access` and `invite`
are the rows; `req[r]` is what request `r` has read and is about to write;
`bumped` is whose revision the last step bumped. Each handler is a `Begin` action
(its reads and refusals) and a `Commit` action (its transaction). `RemoveVaultMemberAPI`
has a third step between them because its transaction counts the rows in one
statement and updates the kind in a later one; the row lock its DELETE holds
meanwhile is `RowLocked`. `CascadeRows` is the schema's `ON DELETE CASCADE`.
`Abandon` is every way a request ends without effect: a constraint, a missing
row, a cancelled context, a crash of the server.

**AccountKeys.** Cryptography is ideal: a wrap opens under exactly the key that
sealed it. A *generation* numbers the credentials a password change mints (each
has a fresh salt), so the stored hash, a wrap and a key in a tab are numbers that
are equal when they fit. `Junk` is the key derived from mistyped secrets. A tab
works from the keyset its *page* was served with, which is what makes staleness
possible; tabs of a browser share its cookie. `AnswerChange` and `LoseAnswer` are
the two ends of a change that committed.

**ChangeSync.** A change is its position in the log of commits, so the revision
is the length of the log, and a view is the set of changes it includes. `tx` is
the transaction that holds the account's row (`BumpUserRevision` locks it);
`publishing` the signals committed and not yet published, in any order, because
every request publishes for itself. A socket is subscribed before its greeting is
looked up and sent, as in `subscribeToChanges`. A refetch is sent, reads its rows,
reads the revision, is answered and is decrypted, in separate steps (the revision is
taken over when the answer is there, the items are replaced when they are decrypted).
`held` says whether `sessionStorage` still has the tab's keys: `refetch` looks for them
there and returns without a word when they are gone, whatever the page itself still
holds (`LoadKeys`, `RefetchDirectory`). Switching vaults, unlocking and receiving a new
vault's key all restart the sync from `revisionRef` (`Resync`). In `LiveView` an open
page shows some of what was written, and all of it in the end if it stays open.

**ItemLifecycle.** One vault: `item`, `link` and `views` are the rows, `now` is the
clock the server and the database share. Only the owner writes and the owner never
changes, so requests carry no user. An open is two steps, as in `OpenShareAPI`:
`RedeemLink` is the statement that checks a link and counts the view, `ServeItem`
reads the item afterwards and refuses one that is in the trash. The purge job
computes its cutoff (`BeginPurge`) some time before its DELETE. `trashedSince` and
`served` are history that no code reads: since when an item is in the trash without
a break, and how often it was handed out through a link. `UpdateItemAPI` is a change
of `ChangeSync`: nothing here tells two contents of an item apart.

**KeyStore.** One tab. A key set is the set of vaults it opens. `store` is
`sessionStorage`, which survives page loads; `keys` is the vault page's React copy,
which decides between lock screen and vaults. Effects that follow a state change are
part of the action that made it; what they start (`completeKeySet`, a refetch)
finishes in an action of its own with the values its closure captured, so two
completions can each save what they knew. `Loaded` is `loadKeys`, which locks a store
whose idle window has lapsed; `WatchFires` is the periodic check, which runs only
while the vault page is mounted with keys. The Lock button is that of `base.gohtml`.

**SignIn.** A submission is two steps: what the browser derives and the server
decides (`Reaches`), and the answer (`Answered`), which may be lost. A code stands for
the secret it was computed from. Tokens of the human check are redeemed by the server
(`spent`) and the widget makes a new one only when it is mounted again or the old one
lapses. Each two-factor request has the read and the write of its handler as separate
steps, and any number of settings sections say what they last heard.

**AdminConsole.** Any operator may call the handlers; the page is one operator's. A
list is reduced to the question it answers and to how many of the committed changes it
shows, the platform's switches are kept with their values. A saved switch repaints all of
them from what its closure holds; `unsure` says that such an answer was lost and no
overview has settled it since. Account changes are decided and committed in separate
steps.

**LinkDialogs, ItemForm.** Both dialogs stay mounted while the vault page shows one item
or vault after another, so their state and their requests outlive what they are about.
The item form seals the whole item anew on every save; `useAction` holds one request at
a time. `Totp` is what the form does to a pasted seed. `MCPanels` and `MCSignIn`
combine two machines each that share no variable: `turn` chooses the one a
behaviour is about, which explores both without their product.

**Sealing.** Keys, contents and envelopes are terms, the ciphers ideal. `told` and
`sent` are all the server was ever given, clear and sealed; it forgets nothing.
`Unsealed(known)` is all that a holder of some keys can read. The Secret Phrase
and the fragment of a link are read by operators checked against what they should
accept.

## Runs

Every run finishes within two or three minutes on two workers, most in seconds.

| run | bound | shows |
|---|---|---|
| `vault_overlap` | 3 users, 3 vaults, 2 invites, 2 requests | `EveryVaultHasItsOwner`, `SettledInviteStaysSettled`, `OneMemberPerClaim` whatever overlaps |
| `vault_serial` | 3 users, 4 vaults, 2 invites, 1 request | without overlap `MemberCap`, `PersonalVaultIsPrivate` and `DeleteKeepsALastVault` hold; `LossIsSignalled`: whoever loses a vault has their revision bumped, unless the owner's account went |
| `keys_serial` | 2 browsers, 3 sessions, 1 request, 1 change | without overlap and lost answers `NoWrapUnderOldCredentials`, `SessionsMatchCredentials` and `FailureMeansUnchanged` hold |
| `keys_overlap` | 2 requests, 2 changes, answers may be lost | `ChangeStrandsOnlyNewcomers`: a change strands no vault it was checked against |
| `items_overlap` | 1 item, 2 links, 2 requests, a clock of 2, 2 views, caps of 1 | `EveryViewIsCounted` and `DeadLinkStaysDead` however opens, revocations and purges overlap; `LinkCapOvershoot`: the cap is passed by no more than the overlapping creates; `RetentionIsHonoured`: no purge takes an item early |
| `sync_faults` | a writing tab, 2 vaults, one change, one drop or crash, one switch, 3 refetches in flight, locks, failing and reordered requests | `SignalsFollowCommits`; `OnlyLocksStrand`: whatever fails, a page without items has them on their way, unless its keys are gone from the store |
| `sync_converge` | a watching tab, 2 changes, 2 drops, navigation | settled views are fresh, no signal passes without a fetch, `PromiseKept` |
| `client_lock` | 2 vaults, windows of 1 and 2 ticks, one vault list on its way | `ScreenMatchesStore`; `LockHolds`: nothing in flight undoes a lock; `IdleTabLocks`; `EveryVaultOpens`, completions that overwrite each other included |
| `sign_in` | 2 tokens, 2 secrets, 2 phrases, 2 links, 1 settings section, 1 request; 2 accounts, vaults, versions and fragments, 1 item for Sealing | `NoSpentTokenOffered`, `EnrolledSecretIsHeld`, `SavedKitOpensAccount`; `SecretsOpenTheVaults`, `LinksOpenOneThing`; words are uniform, phrases and fragments read as composed |
| `console` | 2 accounts, 2 settings, 2 pages, 2 changes, 2 requests in flight | `ConsoleReachable`; settled, `ListIsCurrent` for the rows and `OverviewIsCurrent` for the tiles and the switches |
| `panels` | 2 items, 2 vaults, 2 links, 2 calls in flight; 1 row, 2 vaults, 1 word, 2 seeds, 2 fields typed | `ExposureIsShown`, `ScreenShowsOneVault`, `SavesOnlyWhatWasTyped`; the generator and the seed reader against reference definitions |
| `idle_lock` | as `client_lock`, a window of 1, late news | `IdleTabLocks` is refuted (below) |

The bounds are small and sufficient for the questions asked: a race needs two requests;
a membership race needs an owner, a member and one who joins; a stranded key needs the
old and the new generation (a third for a change that overlaps another); a purge that
takes an item early needs one item and a clock that moves twice, past the cutoff and
past the retention; a link's cap needs one link more than it allows; a lost signal needs
two changes and one lost socket; a spent token needs one to be spent and one to replace
it; a switch painted over needs a second one; a lost registration needs the phrase of
the first try and that of the second; a page that lags needs a change and a request sent
before it; a dialog shown on the wrong thing needs two things; a term that opens too
much needs two accounts and two vaults.

`CHECK_DEADLOCK FALSE` appears only in the VaultMembership configurations: the
pool of row ids is finite and each is used once, so the instance stops when it is
spent. Sealing's pool is finite too, and there the end is a step (`Terminating`). The
other instances never stop.

**Fairness** is assumed only of the machinery, in two runs (`FairSpec` of either
module). `sync_converge`: a committed change is published (the handler's own next statement), a
tab dials again (the retry timer), a new socket is greeted, frames are read,
refetches are answered, a page finishes loading. Nothing is assumed of users,
writers or drops. The run has no failing requests, since the code does not retry
a failed refetch, and its refetches are answered one after the other
(`OneAtATime`), which the code does not guarantee: dropping that assumption
yields a stale view (below). Nor does it lock the tab (`KeysMayGo`): a refetch without
keys asks for no items and is not made up for. `PromiseKept` is refinement of
`LiveView`, liveness included: a tab that is reloaded for ever need not show anything. `client_lock`: the clock ticks, the timer of the watch fires while
it is set, a page that was asked for is loaded, and Web Crypto answers. Nothing is
assumed of users in either, nor of writers or drops.

## What the runs refute

One run expects a counterexample, against what a comment of the code states (`findings`
in `PROJECT.json`): in `idle_lock` a change made on another device reaches a tab after
its idle window lapsed and before the watch's next check. `loadKeys` locks the store in
passing (`vault.tsx:150`); the watch then finds no keys and never calls `onLock`, "so
the view can swap to the lock screen" (`keystore.ts:115-117`), and the page stays
unlocked.

The passing runs state under which restrictions the code keeps its properties. Lifting
one in its configuration shows that it is needed, and why:

| change | refutes | because |
|---|---|---|
| `vault_serial` with two requests (and three vaults) | `PersonalVaultIsPrivate` | a removal counts the members, an accept commits, and the vault is stored as personal with a member in it (`vault_manage_view.go:530`; "keep the kind honest", `vault.go:305-306`) |
| | `MemberCap` | overlapping accepts each count the others' place as free (`vault_manage_view.go:415`) |
| | `DeleteKeepsALastVault` | each of two deletes counts the other's vault, and the account is left with none (`vault_manage_view.go:169`, "forbidden on the account's last vault", 158-159) |
| `keys_serial` with two requests | `NoWrapUnderOldCredentials` | a vault created while a password change is between check and transaction is stranded (`account_view.go:157-163`) |
| | `SessionsMatchCredentials` | a login that compared the old hash creates its session after a change has deleted the others (`auth.go:318`; `docs/security.md:102` says a change revokes every other session) |
| `keys_serial` with two tabs per browser | `NoWrapUnderOldCredentials` | a second tab seals a new vault's key under the replaced key (`settings.tsx:157`; `docs/security.md:77`) |
| `keys_serial` with `ResponsesMayBeLost = TRUE` | `FailureMeansUnchanged` | the change committed and its answer got lost; the form says "Nothing was changed." (`settings.tsx:164`) |
| `sync_faults` without the exception `~ held'` | `OnlyLocksStrand` | the keys are gone ("Lock now", or a refetch that found the window lapsed, `idle_lock`) and another vault is chosen: its items are blanked and `refetch` returns before it asks, "unsealing your vault…" on screen (`vault.tsx:150-151`, `190-191`; the comment at 143-148 means to exclude just that) |
| `sync_converge` with `KeysMayGo = TRUE` | `EverySignalIsFetched` | a refetch that finds no keys has taken the signal as applied, and asks for the vault list alone (`vault.tsx:150-151`, `209-211`) |
| `sync_converge` with a tab that writes | `EverySignalIsFetched` | the tab's own signal overtakes a foreign one, which is then ignored (`sync.ts:57`) |
| `sync_converge` with `OneAtATime = FALSE` | `SettledItemsAreFresh` | an older refetch that is answered last stays on screen (`vault.tsx:156`) |
| `sync_converge` with two vaults and two switches | `SettledItemsAreFresh` | rows of the vault shown before are shown under the vault selected now (`vault.tsx:156`) |
| `sync_converge` with `MaxSwitches = 2` | `SettledDirectoryIsFresh` | a restart from `revisionRef`, which a refetch of items has moved past a change of the vault list, makes the next greeting look stale (`vault.tsx:209`) |
| `client_lock` with `LateNews = TRUE` | `IdleTabLocks`, `ScreenMatchesStore` | the run `idle_lock` |
| `client_lock` with a damaged vault | `IdleTabLocks` | a lock screen whose active vault's wrap does not open stays (`lock-screen.tsx:52`), and the timer runs only on the vault page |
| `sign_in` with `Overlap = 2`, two sections, three secrets | `EnrolledSecretIsHeld` | a verify promotes whatever is pending when it writes (`account_view.go:282`) |
| `sign_in` with `ChangesItsMind = TRUE` | `SavedKitOpensAccount` | "I saved it" stays ticked while the phrase is generated anew (`join.tsx:204`, `217`) |
| `console` with `SelfErasure = TRUE` | `ConsoleReachable` | deleting one's own account does not ask whether an admin remains, as revoking does (`admin_view.go:300-302`) |
| `console` with `Overlap = 2`, `MaxActs = 3` | `ConsoleReachable` | two admins revoke each other, each counting two (`admin_view.go:303`) |
| `console` with `Waits = FALSE` | `ListIsCurrent` and `OverviewIsCurrent` | a second change is sent while the first is out, and the answers each paint their own picture (`admin.tsx:631-640`, `95-104`) |
| `console` with `InOrder = FALSE` | both | an older read is answered last (`admin.tsx:426-439`, `744-750`) |
| `panels` with `Patient = FALSE` | `ExposureIsShown` | a link created for a dialog that was closed shows in the one opened next (`share-dialog.tsx:110`) |
| `panels` with `AnswersInOrder = FALSE` | `ExposureIsShown` | a list read before the creation replaces the one that has the link |
| `panels`, with `Before(r)` as what is stored rather than what was on screen | `SavesOnlyWhatWasTyped` | an item carries no version, so a save takes back what the screen did not show: the edit of another device, or the user's own save whose answer was lost and whose signal was skipped as the tab's own (`vault.tsx:281-289`, `322-332`; `sync.ts:57-58`) |
| `panels` with `Waits = FALSE` | `ScreenShowsOneVault` | the switcher stays enabled during a write, whose answer goes into whatever items are on screen (`vault.tsx:251-258`) |

Some behaviours of the code are modelled and no property is stated about them,
because it would not hold. A member's account deletion leaves the vault stored as
`shared` with the owner alone (`user_write.go:222` bypasses the kind update); an
owner's account deletion signals nobody (the exception in `LossIsSignalled`); a
refetch that read its rows before the tab's own write takes that write off the
screen when it is answered (`vault.tsx:156`); the lock screen of an account
without vaults accepts any secrets (`lock-screen.tsx:61`); the item cap does not
bound a vault, since trashed items are not counted and restoring is not checked
(`vault_view.go:111`: create, trash, create, restore passes it with one request at a
time, although `constants.go:214-216` says it keeps a vault from growing without
limit); and an open that has redeemed its link still serves the item after the link
was revoked (`share_view.go:162`; `share-dialog.tsx` says it stops immediately).

`OverviewIsCurrent` excepts the switches of an operator one of whose saves was never
answered (`unsure`), since they may then drift. The switch of the lost save shows the
old value; an overview asked for by another change is still out when a second switch is
clicked, and corrects the first; the answer to the second save paints all switches from
the list the panel held at the click (`admin.tsx:98`) and takes the first back. It stays
wrong until the next account change or reload, although "every mutation asks for the
overview again rather than adjusting a number locally" (`admin.tsx:741-743`). Without
the exception TLC finds this in 17 steps, with one account, two settings and
`MaxActs = 3`.

The pages add these. *Keys*: a vault that arrives from elsewhere counts as activity and
restarts the idle window; an active vault whose wrap is damaged keeps the lock screen
up, whatever is typed, and blocks a password change. *Sign-in*: a human-check token that
lapsed on the join page's first step is offered by the next one (`turnstile.tsx:19`);
after a lost answer the verification page says the link did not work, and the
two-factor section that the factor is off; a suspended account can still be given
session rows (`auth.go:280`), which resolve to nobody. *Console*: tiles whose refresh is
lost stay stale; emptying the last page of a list leaves an empty page without a way
back; an account that granted the role cannot be deleted (`002.sql:82`). *Dialogs*:
after any change the vault settings close whatever dialog is open by then; renaming the
vault wipes the invite link that is "visible only now"; a creation whose answer is lost
leaves a live link that nobody lists until the dialog is opened again; until its list is
there, the settings of one vault show the invites of the vault they were opened on before
(`vault-manage.tsx:61-65`), revocable as ever. *Item form*: the
answer to a star closes a form opened meanwhile (`vault.tsx:293-297`); a save retried
after a lost answer makes a second item (`vault.tsx:260`). Two more are outside the
models: a malformed `%` in the label of an `otpauth:` URI throws (`totp.ts:92`), and the
comment in `wordlist.ts` still computes 9 words, 99 bits, where phrases have 12.

## Proofs

TLAPS checks eight proof modules to the last leaf, for every value of the constants
that satisfies the named assumptions (distinct "none" values, positive limits, finite
sets of users, requests, items and links, ids that never meet). A module `X_proofs` is
about `X`; `SignIn_proofs` is about `Sealing` as well, and `Panels_proofs` about
`LinkDialogs` and `ItemForm`, as the runs have them together. Every invariant and every
action property that a passing run checks is stated by a theorem. Where a theorem has a
hypothesis on how the system is used, it is one a run makes too, and the table above
shows what happens without it.

*VaultMembership.* `EveryVaultHasItsOwner` is not inductive: deleting a user
relies on row locks being honoured, removing a member on the row the request
checked still being a member's, accepting on the invite still naming the vault
the request read. `IInv` adds what requests in flight know
(`RequestsAreAddressed` and the identity of invite rows). From `Spec => []IInv`
(`Invariant`) follow `TypeCorrect`, `Ownership` and, as action properties,
`InvitesSettleOnce` and `ClaimsArePaired`.

Under `Serial`, one request at a time, the invariant is what the request in flight read
(`Knows`): its vault exists, its audience names every member, a place is free, no third
member is there. Only registrations run beside it, and they make vaults of their own.
From it follow `MembersAreCapped`, `PersonalVaultsArePrivate` and `LossesAreSignalled`;
`DeletesKeepALastVault` needs in addition the other vault that the count found (`Spare`),
and that vaults are finitely many. With overlapping requests none of this stays true of
what was read: see the table above.

*ChangeSync.* For any number of tabs, sockets and requests: what a tab is about to hear
of, in publications, greetings, its own writes' answers and refetches, is committed
(`Committed`), hence `SignalsAreCommitted`. `OnlyLocksStrandPages` is an action property of
every typed state: a step that takes the items off the screen asks for them again or finds
no keys, a request for items that ends leaves a list on screen (`FetchesStrandNobody`), and
no other step ends one (`AsksStay`).

Under `Quiet`, the hypothesis of `sync_converge` (tabs that only watch and stay on their
vault, keys that stay where they are, refetches that are answered one after the other,
nothing that fails or crashes),
the invariant `WatchInv` follows a change from the log to the screen: a connected tab that
is behind hears of the latest revision from a publication, a frame or a greeting
(`NewsIsOnItsWay`); what a tab has heard of is on its screen or being fetched
(`HeardIsFetched`); an answer takes nothing off the screen (`AnswersAdd`); and a page
that loads is stamped with no more than it shows (`PageIsWhole`). From it follow
`WatchersFetchEverySignal`, `WatchersItemsAreFresh` and `WatchersDirectoryIsFresh`, for
any number of tabs, changes, dropped sockets and navigations, and, step by step, that
`ChangeSync` does nothing `LiveView` does not allow (`WatchersImplementLiveView`): the
safety half of `PromiseKept`.

*AccountKeys.* `CheckedVaultsAreReWrapped` needs no hypothesis about scheduling:
the strengthening is that a pending change covers exactly the vaults it was
checked against, which no other step can alter. `FailedChangesChangedNothing` needs only
that no answer is lost: the generation of a change under way is its own, and neither the
stored hash, another change nor a form's report is of it (`ChangesAreFresh`). Under
`Serial`, one request at a time, one tab per browser, no lost answers, the invariant says
that a signed-in tab's key is of the current generation whenever its session is live;
`SerialChangesStrandNothing` and `SerialChangesEndOldSessions` follow. No hypothesis can
be dropped, as the table above shows; a lost answer leaves its own tab stale as a second
tab is.

*ItemLifecycle.* Everything its run checks is proved. `ViewsCounted` and `LinkCap`
are inductive over the types: every step is shown to be the one that adds (and then
by how much) or one that only shrinks the sets counted. `LinksStayDead` is an action
property of every typed state. `Retention` needs `Stamps`: what the purge reads,
`DeletedAt` and a clock from its past, says nothing by itself about how long an item
has been in the trash; the invariant is that the stamp is never older than the
beginning of that time and the purge's clock never ahead of the present.

*SignIn.* `FormsOfferFreshTokens` needs that a page holds a redeemed token only
while the answer is on its way (`TokensAreFresh`), and type correctness
needs that a submission under way carries a token (`SubmissionsCarryTokens`).
`KitsOpenAccounts` assumes `ChangesItsMind = FALSE`: its invariant ties the phrase of the
account to that of the submission and of the kit (`KitInvariant`). `EnrolmentIsHeld`
assumes `Overlap = 1`: between the read and the write of a verify, what is pending is what
was validated (`FactorInvariant`).

*KeyStore.* `LocksHold` is an action property of every typed state. `ScreensMatchStores`
assumes `LateNews = FALSE`: what may be on its way to a tab then finds its window open.

*AdminConsole.* `ConsoleStaysReachable` assumes account changes one at a time and no
operator who deletes their own account (`OneByOne`). An admin who is not suspended is
not enough to go on, since a change commits on what was true when it was decided: the
invariant says that whoever asked for it is still an admin in good standing and not the
account it takes away (`AskedByAdmins`), which is why one remains. `ListsAreCurrent` and
`OverviewsAreCurrent` assume a patient operator and answers in order (`Patient`). A list
is then current or about to be: the last read on the wire asks for the page and filter
chosen, and if it was served already it was served after the last change (`ReadInv`).
The switches need more, namely what a save on the wire holds of the other settings
(`SwitchInv`). Writing that down showed that the property as first stated was wrong, and
led to the exception for `unsure` (above).

*LinkDialogs, ItemForm (`Panels_proofs`).* `DialogsShowExposure` assumes a user who
keeps a dialog open until it is answered and answers in order: at most one dialog is
open, its calls are about its subject, and a link that is not on its list is one that a
creation on its way will add, or the list still to come has (`LinksInvariant`).
`OneVaultOnScreen` assumes `Waits = TRUE`: a write under way is then of the vault
selected (`HomeInvariant`). `SavesKeepTheRest` assumes nothing of users and devices: an
open form, and an update on its way, agree with the item they were opened on in all that
was not typed, and whatever is stored, shown or sent would be sealed as it is
(`SaveInvariant`). It has one hypothesis about data, `SeedsNormalise`: normalising a
pasted seed twice is normalising it once. That is an induction over the filter that drops characters, which TLAPS cannot
do here; `MCPanels` has TLC evaluate it.

*Sealing.* Without a hypothesis. `ServerIsBlind`: the server was told proving keys only,
and no envelope is sealed under one. For the other two, `KeysInvariant` says of every key
that was ever minted exactly what the envelopes under it hold: a vault's its names and the
keys of its items, an item's its versions, a link's what it was handed out for, an
account's present encryption key the keys of its vaults, one of another password or
phrase under the same salt nothing, and one of a salt still to come nothing. The last is
why a changed password opens what it should and no more: a key derived from a fresh salt
has never sealed anything. `SecretsOpenExactly` and `LinksOpenExactly` follow by counting
envelopes, three deep (`VaultsOpen`, `FirstEnvelope`). Keys an account had before a change
still open what they sealed, to whoever kept them; nothing is claimed about those.

Only model-checked: liveness, which is beyond TLAPS here (`IdleTabLocks`,
`EveryVaultOpens`, the promise of `LiveView` that a change is shown in the end), and the
pure functions, which are checked by enumeration (`ASSUME`s of `MCPanels` and `MCSignIn`),
the hypothesis `SeedsNormalise` among them.

## Abstractions and bounds

- The reads of a request before its transaction are one step. Splitting them
  would add interleavings of the kind the Begin/Commit split already has.
- A transaction is one step, except where a later statement depends on an
  earlier read inside it (member removal).
- Row ids are minted once and are never reused; the scarce ids, `MaxGeneration`,
  `MaxRevision`, `MaxDrops`, `MaxSwitches` and `MaxFetches` are the only bounds.
- ItemLifecycle's clock ticks between steps (`MaxTime`); a link's views are bounded
  by `MaxViews`. The stamp of a trashed item is the time of its commit; PostgreSQL
  takes that of the transaction's start, a moment earlier. The purge of links is one
  step, since an older cutoff only spares more links that are dead anyway.
- ItemLifecycle follows one vault while it exists: deleting the vault or the account
  takes its items along, which `VaultMembership` shows from the side of the vault.
- The expiry of an invite or a session is a step that may happen at any time.
- ChangeSync follows one account; a member of a shared vault or another device
  is `Elsewhere`. Each change touches a row of its own, so two views differ by
  the changes they include.
- KeyStore's clock ticks in units of the watch's interval; AdminConsole's `MaxActs`,
  `MaxWire` and `MaxPage`, LinkDialogs' `MaxCalls`, ItemForm's `MaxTyped` and Sealing's
  `MaxVersions` bound what users do.
- Human-check tokens and two-factor secrets are reused once nobody holds them, which
  bounds SignIn without bounding its behaviours.
- In ItemForm one refetch shows the rows as they are when it lands: how refetches race
  is ChangeSync's subject.
- Totp's accumulator has 16 bits in the run (32 in the code) and its bytes a minimum of
  1; the generator's draws have 6 bits: the arithmetic is the same, the enumeration ends.
- Audit rows, notifications and emails follow the commit, are best-effort, and
  no handler's outcome depends on them.

## Not modelled

- The ciphers and key derivations (ideal in `Sealing`), the worker that runs Argon2 (a
  call that succeeds or fails), the server's hashing and field encryption (pure).
- Throttling: a request that is throttled fails, and every form's failures cover that.
- Notifications, emails, the writes of the audit trail and of the contact form:
  best-effort appends after the commit that no handler's outcome depends on.
- The settings sections without state of consequence (profile, preferences, the list of
  sessions), the emergency kit's document, the strength meter, search and sorting,
  animation, toasts, layouts: rendering.
- What a platform setting changes elsewhere, verification apart.
- The clearing of lapsed verification tokens, which nothing tells from a link never
  opened.

`PROJECT.json` lists each part with its reason.

## Plan

What is left, in order of importance.

1. An abstract `Access` specification (who holds a key of what), the common ground of
   `VaultMembership`, `AccountKeys` and `Sealing`, each a refinement of it.
2. `ChangeSync`: the repair of a failed refetch by the next signal as a property.
3. `VaultMembership`: the cap on an account's vaults as a property.
4. `KeyStore` over two tabs of a browser, which share `localStorage` and nothing else.
5. Throttling (`middleware.go`) and `validateKdfCosts`, as pure functions.
