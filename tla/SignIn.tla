------------------------------ MODULE SignIn ------------------------------
(***************************************************************************)
(* One account comes into being, proves its address, enrols a second       *)
(* factor and signs in: login.tsx, join.tsx, turnstile.tsx and             *)
(* verify-email.tsx, the two-factor section of settings.tsx, and the       *)
(* handlers behind them (auth.go, register_view.go, account_view.go,       *)
(* email_verification_view.go, turnstile.go).                              *)
(*                                                                         *)
(* A form's submission has two steps here: what the browser derives and    *)
(* the server decides (Reaches), and the answer (Answered), which may be   *)
(* lost on the way.  A code stands for the secret it was computed from.    *)
(***************************************************************************)
EXTENDS FiniteSets, Integers

CONSTANTS
  Tokens,               \* human-check tokens; reused once nobody holds them
  Secrets,              \* two-factor secrets, reused likewise
  Phrases,              \* Secret Phrases the join page may generate
  Links,                \* email verification tokens
  Sections,             \* settings pages open on the account
  None, Wrong,
  Overlap,              \* bound: two-factor requests in flight
  VerificationRequired, \* the platform setting of that name
  ChangesItsMind        \* may a user ask for a new phrase after confirming
                        \* that the kit of the last one is saved?

ASSUME NoneAssumption ==
  /\ None \notin Tokens \cup Secrets \cup Phrases \cup Links
  /\ Wrong \notin Secrets \cup {None} /\ IsFiniteSet(Sections)

ASSUME SettingAssumption ==
  /\ Overlap \in Nat /\ Cardinality(Phrases) > 1
  /\ VerificationRequired \in BOOLEAN /\ ChangesItsMind \in BOOLEAN

VARIABLES
  account,    \* the phrase the account was created under
  verified,   \* is the account's address verified?
  link,       \* the verification token stored
  mail,       \* the verification links in the user's inbox
  notice,     \* what the verification page says
  enrolled,   \* the two-factor secret asked for at sign-in
  pending,    \* the secret set up and not yet verified
  app,        \* the secrets in the user's authenticator app
  setup,      \* setup[s]: the secret section s shows to be scanned
  on,         \* on[s]: does section s say two-factor is enabled?
  req,        \* req[s]: the two-factor request of section s
  page,       \* the form on screen, or "app" once signed in
  step,       \* the form's step
  phrase,     \* the phrase the join page shows
  kits,       \* the phrases whose Emergency Kit the user has saved
  savedKit,   \* is "I have saved my Emergency Kit" ticked?
  widget,     \* the human check's widget
  token,      \* the token the form would send
  attempt,    \* the submission under way
  spent,      \* tokens redeemed
  lapsed      \* tokens past their five minutes

server == <<account, verified, link, enrolled, pending>>
inbox == <<mail, notice>>
factor == <<enrolled, pending, app, setup, on, req>>
human == <<widget, token, spent, lapsed>>
form == <<page, step, phrase, kits, savedKit, attempt>>
vars == <<account, verified, link, inbox, factor, form, human>>

Answer == {"pending", "refused", "wrong", "unverified", "codeWanted", "badCode",
           "ok", "taken", "fault"}
Attempt == [stage: {"idle", "deriving", "answered"}, token: Tokens \cup {None},
            code: Secrets \cup {None, Wrong}, answer: Answer]
Idle == [stage |-> "idle", token |-> None, code |-> None, answer |-> "pending"]

Call == [op: {"idle", "setup", "verify", "disable", "done"},
         secret: Secrets \cup {None}, ok: BOOLEAN]
NoCall == [op |-> "idle", secret |-> None, ok |-> FALSE]

Init ==
  /\ account = None /\ verified = FALSE /\ link = None
  /\ mail = {} /\ notice = "none"
  /\ enrolled = None /\ pending = None /\ app = {}
  /\ setup = [s \in Sections |-> None] /\ on = [s \in Sections |-> FALSE]
  /\ req = [s \in Sections |-> NoCall]
  /\ page = "login" /\ step = "credentials"
  /\ phrase \in Phrases /\ kits = {} /\ savedKit = FALSE
  /\ widget = "loading" /\ token = None /\ attempt = Idle
  /\ spent = {} /\ lapsed = {}

------------------------------------------------------------------------
(* The human check: turnstile.tsx and RequireHuman.                        *)

Mounted == page = "login" \/ (page = "join" /\ step = "phrase")
NewWidget == widget' = "loading"

\* Drop the spent token and remount the widget for a fresh one.
NewChallenge == token' = None /\ NewWidget

ScriptLoads ==
  /\ Mounted /\ widget = "loading"
  /\ \/ widget' = "ready" /\ UNCHANGED token
     \/ widget' = "failed" /\ token' = None
  /\ UNCHANGED <<account, verified, link, inbox, factor, form, spent, lapsed>>

Solve(k) ==
  /\ Mounted /\ widget = "ready"
  /\ k \notin {token, attempt.token}
  /\ token' = k
  /\ spent' = spent \ {k} /\ lapsed' = lapsed \ {k}
  /\ UNCHANGED <<account, verified, link, inbox, factor, form, widget>>

\* expired-callback and error-callback, while the widget is there ...
Expire ==
  /\ Mounted /\ widget = "ready" /\ token # None
  /\ token' = None
  /\ lapsed' = lapsed \cup {token}
  /\ UNCHANGED <<account, verified, link, inbox, factor, form, widget, spent>>

\* ... and a token nobody watches any more, or that is on its way.
Lapse(k) ==
  /\ k \in {token, attempt.token} \ {None} /\ ~(Mounted /\ k = token)
  /\ lapsed' = lapsed \cup {k}
  /\ UNCHANGED <<account, verified, link, inbox, factor, form, widget, token, spent>>

\* RequireHuman redeems the token; an outage refuses the request as well.
Human == attempt.token \notin spent \cup lapsed
Redeem == spent' = spent \cup {attempt.token}

------------------------------------------------------------------------
(* The forms.                                                              *)

\* A page load.
Visit(p) ==
  /\ page' = p
  /\ step' = IF p = "login" THEN "credentials" ELSE "account"
  /\ IF p = "join" THEN phrase' \in Phrases \ (kits \cup {account})
     ELSE UNCHANGED phrase
  /\ savedKit' = FALSE /\ attempt' = Idle
  /\ NewChallenge
  /\ UNCHANGED <<account, verified, link, inbox, factor, kits, spent, lapsed>>

Busy == attempt.stage # "idle"

Submits ==
  /\ ~Busy /\ token # None
  /\ UNCHANGED <<account, verified, link, inbox, factor, page, phrase, kits,
                 savedKit, human>>

\* "Unlock", or "Verify" with a six-digit code.
SubmitLogin ==
  /\ page = "login" /\ Submits
  /\ \E code \in IF step = "twofactor" THEN app \cup {Wrong} ELSE {None} :
       attempt' = [Idle EXCEPT !.stage = "deriving", !.token = token, !.code = code]
  /\ UNCHANGED step

\* "Seal my vault".
Register ==
  /\ page = "join" /\ step = "phrase" /\ savedKit /\ Submits
  /\ attempt' = [Idle EXCEPT !.stage = "deriving", !.token = token]
  /\ step' = "sealing"

\* The key parameters did not come: the token was not sent.
ParamsFail ==
  /\ page = "login" /\ attempt.stage = "deriving"
  /\ attempt' = Idle
  /\ UNCHANGED <<account, verified, link, inbox, factor, page, step, phrase, kits,
                 savedKit, human>>

\* LoginAPI, on credentials that are the account's or not.
Verdict(right) ==
  IF ~right THEN "wrong"
  ELSE IF VerificationRequired /\ ~verified THEN "unverified"
  ELSE IF enrolled = None \/ attempt.code = enrolled THEN "ok"
  ELSE IF attempt.code = None THEN "codeWanted" ELSE "badCode"

LoginReaches ==
  /\ page = "login" /\ attempt.stage = "deriving"
  /\ \E answer \in (IF Human THEN {Verdict(FALSE)} ELSE {}) \cup {"refused"}
                   \cup (IF Human /\ account # None THEN {Verdict(TRUE)} ELSE {}) :
       attempt' = [attempt EXCEPT !.stage = "answered", !.answer = answer]
  /\ Redeem
  /\ UNCHANGED <<account, verified, link, inbox, factor, page, step, phrase, kits,
                 savedKit, widget, token, lapsed>>

\* sendVerificationEmail replaces the token stored.
SendLink ==
  /\ link' \in Links \ {link}
  /\ mail' = mail \cup {link'}

\* RegisterAPI: the account is committed before its session is created.
RegisterReaches ==
  /\ page = "join" /\ attempt.stage = "deriving"
  /\ Redeem
  /\ \E answer \in {"refused", "taken", "ok", "fault"} :
       /\ answer \in {"ok", "fault"} => Human /\ account = None
       /\ answer = "taken" => Human /\ account # None
       /\ attempt' = [attempt EXCEPT !.stage = "answered", !.answer = answer]
       /\ account' = IF answer \in {"ok", "fault"} THEN phrase ELSE account
       /\ IF answer = "ok" THEN SendLink ELSE UNCHANGED <<link, mail>>
  /\ UNCHANGED <<verified, notice, factor, page, step, phrase, kits, savedKit,
                 widget, token, lapsed>>

\* (variant) A two-factor challenge, a 200, keeps the token.
LoginAnsweredKeeping ==
  /\ page = "login" /\ attempt.stage = "answered"
  /\ IF attempt.answer \in {"ok", "codeWanted"} THEN UNCHANGED <<token, widget>>
     ELSE NewChallenge
  /\ step' = IF attempt.answer \in {"codeWanted", "badCode"} THEN "twofactor" ELSE step
  /\ page' = IF attempt.answer = "ok" THEN "app" ELSE page
  /\ attempt' = Idle
  /\ UNCHANGED <<account, verified, link, inbox, factor, phrase, kits, savedKit,
                 spent, lapsed>>

\* Anything but the redirect leaves the user on a form that needs a new token.
LoginAnswered ==
  /\ page = "login" /\ attempt.stage = "answered"
  /\ IF attempt.answer = "ok" THEN UNCHANGED <<token, widget>> ELSE NewChallenge
  /\ step' = IF attempt.answer \in {"codeWanted", "badCode"} THEN "twofactor" ELSE step
  /\ page' = IF attempt.answer = "ok" THEN "app" ELSE page
  /\ attempt' = Idle
  /\ UNCHANGED <<account, verified, link, inbox, factor, phrase, kits, savedKit,
                 spent, lapsed>>

RegisterAnswered ==
  /\ page = "join" /\ attempt.stage = "answered"
  /\ IF attempt.answer = "ok" THEN UNCHANGED <<token, widget>> ELSE NewChallenge
  /\ step' = CASE attempt.answer = "ok" -> "done"
               [] attempt.answer = "taken" -> "account"
               [] OTHER -> "phrase"
  /\ page' = IF attempt.answer = "ok" THEN "app" ELSE page
  /\ attempt' = Idle
  /\ UNCHANGED <<account, verified, link, inbox, factor, phrase, kits, savedKit,
                 spent, lapsed>>

\* The connection goes, before the request or after it reached the server.
NetworkFails ==
  /\ Busy
  /\ NewChallenge
  /\ step' = IF page = "join" THEN "phrase" ELSE step
  /\ attempt' = Idle
  /\ UNCHANGED <<account, verified, link, inbox, factor, page, phrase, kits,
                 savedKit, spent, lapsed>>

\* "Back" from the code, with nothing said to the server.
BackToCredentials ==
  /\ page = "login" /\ step = "twofactor" /\ ~Busy
  /\ step' = "credentials"
  /\ UNCHANGED <<account, verified, link, inbox, factor, page, phrase, kits,
                 savedKit, attempt, human>>

\* "Continue" mounts the widget, "Back" unmounts it; the form keeps its token.
Continue ==
  /\ page = "join" /\ step = "account"
  /\ step' = "phrase"
  /\ NewWidget
  /\ UNCHANGED <<account, verified, link, inbox, factor, page, phrase, kits,
                 savedKit, attempt, token, spent, lapsed>>

\* (variant) Going back starts the ceremony over, with another phrase.
BackToAccountAfresh ==
  /\ page = "join" /\ step = "phrase"
  /\ step' = "account"
  /\ phrase' \in Phrases \ (kits \cup {account})
  /\ UNCHANGED <<account, verified, link, inbox, factor, page, kits, savedKit,
                 attempt, human>>

BackToAccount ==
  /\ page = "join" /\ step = "phrase"
  /\ step' = "account"
  /\ UNCHANGED <<account, verified, link, inbox, factor, page, phrase, kits,
                 savedKit, attempt, human>>

\* The user saves the kit of the phrase on screen and says so, or takes it back.
TickSavedKit ==
  /\ page = "join" /\ step = "phrase"
  /\ savedKit' = ~savedKit
  /\ kits' = IF savedKit THEN kits ELSE kits \cup {phrase}
  /\ UNCHANGED <<account, verified, link, inbox, factor, page, step, phrase,
                 attempt, human>>

\* "New phrase" leaves the box as it is.
NewPhrase ==
  /\ page = "join" /\ step = "phrase"
  /\ savedKit => ChangesItsMind
  /\ phrase' \in Phrases \ (kits \cup {phrase, account})
  /\ UNCHANGED <<account, verified, link, inbox, factor, page, step, kits,
                 savedKit, attempt, human>>

------------------------------------------------------------------------
(* The address: verify-email.tsx.                                          *)

\* The page redeems the token of the link; its answer may be lost.
OpenLink(l) ==
  /\ l \in mail
  /\ notice' \in IF l = link THEN {"verified", "failed"} ELSE {"failed"}
  /\ \/ l = link /\ verified' = TRUE /\ link' = None
     \/ notice' = "failed" /\ UNCHANGED <<verified, link>>
  /\ UNCHANGED <<account, mail, factor, form, human>>

\* ResendVerificationAPI answers the same whatever the account is.
Resend ==
  /\ notice \in {"failed", "none"}
  /\ notice' \in {"resent", notice}
  /\ IF account # None /\ ~verified THEN SendLink \/ UNCHANGED <<link, mail>>
     ELSE UNCHANGED <<link, mail>>
  /\ UNCHANGED <<account, verified, factor, form, human>>

------------------------------------------------------------------------
(* The second factor: TwoFactorSection and its handlers.                   *)

Held == {enrolled, pending} \cup {setup[s] : s \in Sections}
          \cup {req[s].secret : s \in Sections}

\* A section sends a request, useAction one at a time ...
Calls(s, call) ==
  /\ page = "app" /\ req[s].op = "idle"
  /\ Cardinality({q \in Sections : req[q].op # "idle"}) < Overlap
  /\ req' = [req EXCEPT ![s] = call]
  /\ UNCHANGED <<account, verified, link, inbox, form, human>>

\* ... and the server, having committed or refused, answers it.
Commits(s) ==
  /\ req' = [req EXCEPT ![s].op = "done", ![s].ok = TRUE]
  /\ UNCHANGED <<account, verified, link, inbox, form, human, app, setup, on>>

\* TwoFactorSetupAPI mints a secret and stores it as pending.
BeginSetup(s, x) ==
  /\ ~on[s] /\ x \notin Held
  /\ Calls(s, [NoCall EXCEPT !.op = "setup", !.secret = x])
  /\ app' = app \ {x}
  /\ UNCHANGED <<enrolled, pending, setup, on>>

CommitSetup(s) ==
  /\ req[s].op = "setup"
  /\ Commits(s)
  /\ pending' = req[s].secret
  /\ UNCHANGED enrolled

Scan(s) ==
  /\ setup[s] # None
  /\ app' = app \cup {setup[s]}
  /\ UNCHANGED <<server, inbox, form, human, setup, on, req>>

\* (variant) A setup is promoted as soon as it is shown.
BeginVerifyUnread(s, code) ==
  /\ setup[s] # None /\ code \in app \cup {Wrong}
  /\ Calls(s, [NoCall EXCEPT !.op = "verify"])
  /\ UNCHANGED <<enrolled, pending, app, setup, on>>

\* TwoFactorVerifyAPI: the code is compared with the pending secret the
\* middleware read ...
BeginVerify(s, code) ==
  /\ setup[s] # None /\ code \in app \cup {Wrong}
  /\ Calls(s, IF code = pending
              THEN [NoCall EXCEPT !.op = "verify"]
              ELSE [NoCall EXCEPT !.op = "done"])
  /\ UNCHANGED <<enrolled, pending, app, setup, on>>

\* ... and the statement promotes whatever is pending when it runs.
CommitVerify(s) ==
  /\ req[s].op = "verify"
  /\ Commits(s)
  /\ enrolled' = pending /\ pending' = None

\* TwoFactorDisableAPI, likewise on a code for the enrolled secret.
BeginDisable(s, code) ==
  /\ on[s] /\ code \in app \cup {Wrong}
  /\ Calls(s, IF code = enrolled
              THEN [NoCall EXCEPT !.op = "disable"]
              ELSE [NoCall EXCEPT !.op = "done"])
  /\ UNCHANGED <<enrolled, pending, app, setup, on>>

CommitDisable(s) ==
  /\ req[s].op = "disable"
  /\ Commits(s)
  /\ enrolled' = None /\ pending' = None

\* The answer: a setup shows its secret, a verification or a disabling flips
\* the section; an error, or a lost answer, leaves it as it was.
FactorAnswered(s) ==
  /\ req[s].op = "done"
  /\ req' = [req EXCEPT ![s] = NoCall]
  /\ \/ /\ req[s].ok /\ req[s].secret # None
        /\ setup' = [setup EXCEPT ![s] = req[s].secret] /\ UNCHANGED on
     \/ /\ req[s].ok /\ req[s].secret = None
        /\ on' = [on EXCEPT ![s] = ~@] /\ setup' = [setup EXCEPT ![s] = None]
     \/ UNCHANGED <<setup, on>>
  /\ UNCHANGED <<server, inbox, app, form, human>>

\* "Cancel", and loading the page.
CancelSetup(s) ==
  /\ setup[s] # None /\ req[s].op = "idle"
  /\ setup' = [setup EXCEPT ![s] = None]
  /\ UNCHANGED <<server, inbox, app, on, req, form, human>>

OpenSettings(s) ==
  /\ page = "app" /\ req[s].op = "idle"
  /\ setup' = [setup EXCEPT ![s] = None]
  /\ on' = [on EXCEPT ![s] = enrolled # None]
  /\ UNCHANGED <<server, inbox, app, req, form, human>>

------------------------------------------------------------------------
Forms ==
  \/ \E p \in {"login", "join"} : Visit(p)
  \/ ScriptLoads \/ Expire \/ \E k \in Tokens : Solve(k) \/ Lapse(k)
  \/ SubmitLogin \/ ParamsFail \/ LoginReaches \/ LoginAnswered
  \/ Register \/ RegisterReaches \/ RegisterAnswered \/ NetworkFails
  \/ BackToCredentials \/ Continue \/ BackToAccount \/ TickSavedKit \/ NewPhrase

Settings ==
  \E s \in Sections :
    \/ \E x \in Secrets : BeginSetup(s, x)
    \/ \E code \in Secrets \cup {Wrong} : BeginVerify(s, code) \/ BeginDisable(s, code)
    \/ CommitSetup(s) \/ CommitVerify(s) \/ CommitDisable(s)
    \/ Scan(s) \/ FactorAnswered(s) \/ CancelSetup(s) \/ OpenSettings(s)

Next == Forms \/ Settings \/ Resend \/ \E l \in Links : OpenLink(l)

Spec == Init /\ [][Next]_vars

------------------------------------------------------------------------
\* Types of the account, the forms and the settings sections.
TypeOK ==
  /\ account \in Phrases \cup {None} /\ verified \in BOOLEAN
  /\ link \in Links \cup {None} /\ mail \subseteq Links
  /\ notice \in {"none", "verified", "failed", "resent"}
  /\ enrolled \in Secrets \cup {None} /\ pending \in Secrets \cup {None}
  /\ app \subseteq Secrets /\ setup \in [Sections -> Secrets \cup {None}]
  /\ on \in [Sections -> BOOLEAN] /\ req \in [Sections -> Call]
  /\ page \in {"login", "join", "app"}
  /\ step \in {"credentials", "twofactor", "account", "phrase", "sealing", "done"}
  /\ phrase \in Phrases /\ kits \subseteq Phrases /\ savedKit \in BOOLEAN
  /\ widget \in {"loading", "ready", "failed"}
  /\ token \in Tokens \cup {None} /\ attempt \in Attempt
  /\ spent \subseteq Tokens /\ lapsed \subseteq Tokens

\* A form that can be submitted never offers a token that an earlier attempt
\* has spent: every way back to it, a two-factor challenge answered with 200
\* and a connection lost at any point included, asks for a new one.
NoSpentTokenOffered == page # "app" /\ ~Busy /\ token # None => token \notin spent

\* Nobody is locked out by their own enrolment: the secret sign-in asks for is
\* in the user's app (so long as one two-factor request runs at a time).
EnrolledSecretIsHeld == enrolled # None => enrolled \in app

\* The kit the user confirmed saved opens the account that was created, also
\* when the answer to its creation was lost and the form came back (so long as
\* the box is not left ticked for another phrase).
SavedKitOpensAccount == account # None => account \in kits
============================================================================
