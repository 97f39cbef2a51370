---------------------------- MODULE SignIn_proofs ----------------------------
(***************************************************************************)
(* Proofs about SignIn, for every number of tokens, secrets, phrases,      *)
(* verification links and settings pages, and about Sealing, for every     *)
(* number of accounts, vaults, items, links, edits and password changes.   *)
(*                                                                         *)
(* SignIn.  Without a hypothesis: types, and that no form offers a spent   *)
(* token.  With one two-factor request at a time: the secret asked for at  *)
(* sign-in is in the user's app.  With a user who does not ask for another *)
(* phrase after confirming that the kit is saved: the kit saved opens the  *)
(* account.  The runs' counterexamples show that neither hypothesis can be *)
(* dropped.                                                                *)
(*                                                                         *)
(* Sealing, without a hypothesis: what the server, an account's secrets, a *)
(* share link and an invite open, and that they open nothing else.         *)
(***************************************************************************)
EXTENDS SignIn, Sealing, FiniteSetTheorems, TLAPS

------------------------------------------------------------------------
(* Type correctness.                                                       *)

\* The records the forms and the sections start from, and what they become.
LEMMA IdleType == Idle \in Attempt /\ NoCall \in Call
BY DEF Idle, Attempt, Answer, NoCall, Call

LEMMA AttemptType ==
  /\ \A k \in Tokens \cup {None}, c \in Secrets \cup {None, Wrong} :
       [Idle EXCEPT !.stage = "deriving", !.token = k, !.code = c] \in Attempt
  /\ \A k \in Tokens \cup {None} :
       [Idle EXCEPT !.stage = "deriving", !.token = k] \in Attempt
  /\ \A a \in Attempt, r \in Answer :
       [a EXCEPT !.stage = "answered", !.answer = r] \in Attempt
BY DEF Idle, Attempt, Answer

LEMMA CallType ==
  /\ \A x \in Secrets : [NoCall EXCEPT !.op = "setup", !.secret = x] \in Call
  /\ \A o \in {"verify", "disable", "done"} : [NoCall EXCEPT !.op = o] \in Call
  /\ \A c \in Call : [[c EXCEPT !.op = "done"] EXCEPT !.ok = TRUE] \in Call
BY DEF NoCall, Call

\* A submission under way carries a token.
SubmissionsCarryTokens == attempt.stage = "deriving" => attempt.token # None

\* A step of the forms keeps the types.
LEMMA FormsType ==
  ASSUME TypeOK, SubmissionsCarryTokens, Forms
  PROVE  TypeOK'
<1> USE DEF TypeOK, form, human, factor, inbox
<1>1. ASSUME NEW p \in {"login", "join"}, Visit(p) PROVE TypeOK'
  BY <1>1, IdleType DEF Visit, NewChallenge, NewWidget
<1>2. ASSUME ScriptLoads PROVE TypeOK'
  BY <1>2 DEF ScriptLoads
<1>3. ASSUME Expire PROVE TypeOK'
  BY <1>3 DEF Expire
<1>4. ASSUME NEW k \in Tokens, Solve(k) PROVE TypeOK'
  BY <1>4 DEF Solve
<1>5. ASSUME NEW k \in Tokens, Lapse(k) PROVE TypeOK'
  BY <1>5 DEF Lapse
<1>6. ASSUME SubmitLogin PROVE TypeOK'
  <2>1. PICK code \in Secrets \cup {None, Wrong} :
          attempt' = [Idle EXCEPT !.stage = "deriving", !.token = token, !.code = code]
    BY <1>6 DEF SubmitLogin
  <2>2. attempt' \in Attempt
    BY <2>1, AttemptType
  <2> QED
    BY <1>6, <2>2 DEF SubmitLogin, Submits
<1>7. ASSUME ParamsFail PROVE TypeOK'
  BY <1>7, IdleType DEF ParamsFail
<1>8. ASSUME LoginReaches PROVE TypeOK'
  <2>1. PICK answer \in Answer :
          attempt' = [attempt EXCEPT !.stage = "answered", !.answer = answer]
    BY <1>8 DEF LoginReaches, Verdict, Answer
  <2>2. attempt' \in Attempt
    BY <2>1, AttemptType
  <2>3. attempt.token \in Tokens
    BY <1>8 DEF LoginReaches, SubmissionsCarryTokens, Attempt
  <2> QED
    BY <1>8, <2>2, <2>3 DEF LoginReaches, Redeem
<1>9. ASSUME LoginAnswered PROVE TypeOK'
  BY <1>9, IdleType DEF LoginAnswered, NewChallenge, NewWidget
<1>10. ASSUME Register PROVE TypeOK'
  BY <1>10, AttemptType DEF Register, Submits
<1>11. ASSUME RegisterReaches PROVE TypeOK'
  <2>1. PICK answer \in Answer :
          attempt' = [attempt EXCEPT !.stage = "answered", !.answer = answer]
    BY <1>11 DEF RegisterReaches, Answer
  <2>2. attempt' \in Attempt
    BY <2>1, AttemptType
  <2>3. attempt.token \in Tokens
    BY <1>11 DEF RegisterReaches, SubmissionsCarryTokens, Attempt
  <2>4. account' \in Phrases \cup {None} /\ link' \in Links \cup {None} /\ mail' \subseteq Links
    BY <1>11 DEF RegisterReaches, SendLink
  <2> QED
    BY <1>11, <2>2, <2>3, <2>4 DEF RegisterReaches, Redeem
<1>12. ASSUME RegisterAnswered PROVE TypeOK'
  BY <1>12, IdleType DEF RegisterAnswered, NewChallenge, NewWidget
<1>13. ASSUME NetworkFails PROVE TypeOK'
  BY <1>13, IdleType DEF NetworkFails, NewChallenge, NewWidget
<1>14. ASSUME BackToCredentials \/ Continue \/ BackToAccount \/ TickSavedKit \/ NewPhrase
       PROVE  TypeOK'
  BY <1>14 DEF BackToCredentials, Continue, BackToAccount, TickSavedKit, NewPhrase,
               NewWidget
<1> QED
  BY <1>1, <1>2, <1>3, <1>4, <1>5, <1>6, <1>7, <1>8, <1>9, <1>10, <1>11, <1>12,
     <1>13, <1>14 DEF Forms

\* So does a step of the settings sections.
LEMMA SettingsType ==
  ASSUME TypeOK, Settings
  PROVE  TypeOK'
<1> USE DEF TypeOK, form, human, factor, inbox, server
<1>0. PICK s \in Sections :
        \/ \E x \in Secrets : BeginSetup(s, x)
        \/ \E code \in Secrets \cup {Wrong} : BeginVerify(s, code) \/ BeginDisable(s, code)
        \/ CommitSetup(s) \/ CommitVerify(s) \/ CommitDisable(s)
        \/ Scan(s) \/ FactorAnswered(s) \/ CancelSetup(s) \/ OpenSettings(s)
  BY DEF Settings
<1> DEFINE Others == <<account, verified, link, mail, notice, page, step, phrase,
                       kits, savedKit, attempt, widget, token, spent, lapsed>>
<1>b. ASSUME NEW c \in Call, Calls(s, c)
      PROVE  req' \in [Sections -> Call] /\ UNCHANGED Others
  BY <1>b DEF Calls
<1>c. ASSUME NEW code, BeginVerify(s, code) \/ BeginDisable(s, code)
      PROVE  req' \in [Sections -> Call] /\ UNCHANGED Others
  <2>1. PICK o \in {"verify", "disable", "done"} : Calls(s, [NoCall EXCEPT !.op = o])
    BY <1>c DEF BeginVerify, BeginDisable
  <2> QED
    BY <1>b, <2>1, CallType
<1>a. req[s] \in Call /\ req[s].secret \in Secrets \cup {None}
  BY DEF Call
<1>1. ASSUME NEW x \in Secrets, BeginSetup(s, x) PROVE TypeOK'
  <2>1. req' \in [Sections -> Call] /\ UNCHANGED Others
    BY <1>b, <1>1, CallType DEF BeginSetup
  <2> QED
    BY <1>1, <2>1 DEF BeginSetup
<1>2. ASSUME NEW code \in Secrets \cup {Wrong}, BeginVerify(s, code) PROVE TypeOK'
  BY <1>c, <1>2 DEF BeginVerify
<1>3. ASSUME NEW code \in Secrets \cup {Wrong}, BeginDisable(s, code) PROVE TypeOK'
  BY <1>c, <1>3 DEF BeginDisable
<1>4. ASSUME Commits(s) PROVE req' \in [Sections -> Call]
  <2>1. req' = [req EXCEPT ![s] = [[req[s] EXCEPT !.op = "done"] EXCEPT !.ok = TRUE]]
    BY <1>4 DEF Commits
  <2> QED
    BY <1>a, <2>1, CallType
<1>5. ASSUME CommitSetup(s) \/ CommitVerify(s) \/ CommitDisable(s) PROVE TypeOK'
  BY <1>5, <1>4, <1>a DEF CommitSetup, CommitVerify, CommitDisable, Commits
<1>d. ASSUME NEW b \in BOOLEAN PROVE [on EXCEPT ![s] = b] \in [Sections -> BOOLEAN]
  OBVIOUS
<1>6. ASSUME Scan(s) \/ CancelSetup(s) PROVE TypeOK'
  BY <1>6 DEF Scan, CancelSetup
<1>7. ASSUME OpenSettings(s) PROVE TypeOK'
  <2>1. on' \in [Sections -> BOOLEAN]
    <3>1. (enrolled # None) \in BOOLEAN
      OBVIOUS
    <3> QED
      BY <1>7, <1>d, <3>1 DEF OpenSettings
  <2> QED
    BY <1>7, <2>1 DEF OpenSettings
<1>8. ASSUME FactorAnswered(s) PROVE TypeOK'
  <2>1. on' \in [Sections -> BOOLEAN]
    <3>1. (~on[s]) \in BOOLEAN
      OBVIOUS
    <3>2. on' = on \/ on' = [on EXCEPT ![s] = ~on[s]]
      BY <1>8 DEF FactorAnswered
    <3> QED
      BY <1>d, <3>1, <3>2
  <2>2. setup' \in [Sections -> Secrets \cup {None}]
    BY <1>8, <1>a DEF FactorAnswered
  <2>3. req' \in [Sections -> Call]
    BY <1>8, IdleType DEF FactorAnswered
  <2> QED
    BY <1>8, <2>1, <2>2, <2>3 DEF FactorAnswered
<1> QED
  BY <1>0, <1>1, <1>2, <1>3, <1>5, <1>6, <1>7, <1>8

LEMMA NextType ==
  ASSUME TypeOK, SubmissionsCarryTokens, [Next]_vars
  PROVE  TypeOK'
<1>1. ASSUME Resend PROVE TypeOK'
  BY <1>1 DEF TypeOK, Resend, SendLink, factor, form, human
<1>2. ASSUME NEW l \in Links, OpenLink(l) PROVE TypeOK'
  <2>1. verified' \in BOOLEAN /\ link' \in Links \cup {None}
    BY <1>2 DEF TypeOK, OpenLink
  <2>2. notice' \in {"none", "verified", "failed", "resent"}
    BY <1>2 DEF OpenLink
  <2> QED
    BY <1>2, <2>1, <2>2 DEF TypeOK, OpenLink, factor, form, human
<1>3. CASE UNCHANGED vars
  BY <1>3 DEF TypeOK, vars, inbox, factor, form, human
<1> QED
  BY <1>1, <1>2, <1>3, FormsType, SettingsType DEF Next

LEMMA NextCarries ==
  ASSUME TypeOK, SubmissionsCarryTokens, [Next]_vars
  PROVE  SubmissionsCarryTokens'
<1> USE DEF SubmissionsCarryTokens
<1>1. CASE UNCHANGED attempt
  BY <1>1
<1>2. CASE attempt' = Idle
  BY <1>2 DEF Idle
<1>3. CASE attempt'.stage = "answered"
  BY <1>3
<1>4. CASE Submits /\ attempt'.token = token
  BY <1>4 DEF Submits
<1>5. ASSUME SubmitLogin \/ Register PROVE Submits /\ attempt'.token = token
  BY <1>5 DEF SubmitLogin, Register, Idle
<1>6. ASSUME LoginReaches \/ RegisterReaches PROVE attempt'.stage = "answered"
  BY <1>6 DEF LoginReaches, RegisterReaches, TypeOK, Attempt
<1>7. ASSUME ParamsFail \/ LoginAnswered \/ RegisterAnswered \/ NetworkFails
             \/ \E p \in {"login", "join"} : Visit(p)
      PROVE  attempt' = Idle
  BY <1>7 DEF ParamsFail, LoginAnswered, RegisterAnswered, NetworkFails, Visit
<1>8. ASSUME ScriptLoads \/ Expire \/ \E k \in Tokens : Solve(k) \/ Lapse(k)
      PROVE  UNCHANGED attempt
  BY <1>8 DEF ScriptLoads, Expire, Solve, Lapse, form
<1>9. ASSUME BackToCredentials \/ Continue \/ BackToAccount \/ TickSavedKit \/ NewPhrase
      PROVE  UNCHANGED attempt
  BY <1>9 DEF BackToCredentials, Continue, BackToAccount, TickSavedKit, NewPhrase
<1>10. ASSUME Settings \/ Resend \/ (\E l \in Links : OpenLink(l)) \/ UNCHANGED vars
       PROVE  UNCHANGED attempt
  BY <1>10 DEF Settings, BeginSetup, BeginVerify, BeginDisable, Calls, Commits,
       CommitSetup, CommitVerify, CommitDisable, Scan, FactorAnswered, CancelSetup,
       OpenSettings, Resend, OpenLink, vars, form
<1> QED
  BY <1>1, <1>2, <1>3, <1>4, <1>5, <1>6, <1>7, <1>8, <1>9, <1>10 DEF Next, Forms

\* The account, the forms and the sections stay typed, and a submission always
\* carries a token: nothing outside the tokens, secrets and phrases there are
\* is ever held, sent or redeemed.
THEOREM TypeCorrect == Spec => [](TypeOK /\ SubmissionsCarryTokens)
<1>1. Init => TypeOK /\ SubmissionsCarryTokens
  <2>1. Init => SubmissionsCarryTokens
    BY DEF Init, SubmissionsCarryTokens, Idle
  <2>2. ASSUME Init PROVE /\ setup \in [Sections -> Secrets \cup {None}]
                         /\ on \in [Sections -> BOOLEAN] /\ req \in [Sections -> Call]
    BY <2>2, IdleType DEF Init
  <2>3. ASSUME Init PROVE TypeOK
    BY <2>2, <2>3, IdleType DEF Init, TypeOK
  <2> QED
    BY <2>1, <2>3
<1>2. TypeOK /\ SubmissionsCarryTokens /\ [Next]_vars
        => TypeOK' /\ SubmissionsCarryTokens'
  BY NextType, NextCarries
<1> QED
  BY <1>1, <1>2, PTL DEF Spec

------------------------------------------------------------------------
(* Human-check tokens.                                                     *)

\* While the server has not seen the submission, the token on the form is
\* unspent; when it has, the answer, or its loss, takes the token away.
TokensAreFresh ==
  page # "app" /\ attempt.stage # "answered" /\ token # None => token \notin spent

LEMMA NextTokens ==
  ASSUME TypeOK, TokensAreFresh, [Next]_vars
  PROVE  TokensAreFresh'
<1> USE DEF TokensAreFresh
<1>1. CASE token' = None
  BY <1>1
<1>2. CASE attempt'.stage = "answered"
  BY <1>2
<1>3. CASE UNCHANGED <<page, attempt, token, spent>>
  BY <1>3
<1>4. CASE page' = "app"
  BY <1>4
<1>5. ASSUME SubmitLogin \/ Register PROVE TokensAreFresh'
  <2>1. attempt.stage = "idle" /\ UNCHANGED <<page, token, spent>>
    BY <1>5 DEF SubmitLogin, Register, Submits, Busy, human
  <2> QED
    BY <2>1
<1>6. ASSUME ParamsFail PROVE TokensAreFresh'
  BY <1>6 DEF ParamsFail, human
<1>7. ASSUME LoginReaches \/ RegisterReaches PROVE attempt'.stage = "answered"
  BY <1>7 DEF LoginReaches, RegisterReaches, TypeOK, Attempt
<1>8. ASSUME LoginAnswered \/ RegisterAnswered PROVE token' = None \/ page' = "app"
  BY <1>8 DEF LoginAnswered, RegisterAnswered, NewChallenge
<1>9. ASSUME NetworkFails \/ (\E p \in {"login", "join"} : Visit(p)) \/ Expire
      PROVE  token' = None
  BY <1>9 DEF NetworkFails, Visit, NewChallenge, Expire
<1>10. ASSUME NEW k \in Tokens, Solve(k) PROVE TokensAreFresh'
  BY <1>10 DEF Solve
<1>11. ASSUME ScriptLoads PROVE token' = None \/ UNCHANGED <<page, attempt, token, spent>>
  BY <1>11 DEF ScriptLoads, form
<1>12. ASSUME \/ \E k \in Tokens : Lapse(k)
              \/ BackToCredentials \/ Continue \/ BackToAccount \/ TickSavedKit \/ NewPhrase
       PROVE  UNCHANGED <<page, attempt, token, spent>>
  BY <1>12 DEF Lapse, BackToCredentials, Continue, BackToAccount, TickSavedKit,
               NewPhrase, form, human
<1>13. ASSUME Settings \/ Resend \/ (\E l \in Links : OpenLink(l)) \/ UNCHANGED vars
       PROVE  UNCHANGED <<page, attempt, token, spent>>
  BY <1>13 DEF Settings, BeginSetup, BeginVerify, BeginDisable, Calls, Commits,
       CommitSetup, CommitVerify, CommitDisable, Scan, FactorAnswered, CancelSetup,
       OpenSettings, Resend, OpenLink, vars, form, human
<1> QED
  BY <1>1, <1>2, <1>3, <1>4, <1>5, <1>6, <1>7, <1>8, <1>9, <1>10, <1>11, <1>12, <1>13
     DEF Next, Forms

\* No form ever offers a token that was redeemed: for any number of tokens, and
\* whatever expires, fails or is lost on the way.
THEOREM FormsOfferFreshTokens == Spec => []NoSpentTokenOffered
<1>1. Init => TokensAreFresh
  BY DEF Init, TokensAreFresh
<1>2. TokensAreFresh => NoSpentTokenOffered
  BY DEF TokensAreFresh, NoSpentTokenOffered, Busy
<1> QED
  BY <1>1, <1>2, TypeCorrect, NextTokens, PTL DEF Spec

------------------------------------------------------------------------
(* The Emergency Kit.                                                      *)

\* A ticked box speaks of the phrase on screen, and a registration under way
\* was sent from a form with the box ticked and nothing left to press.
KitInvariant ==
  /\ account # None => account \in kits
  /\ savedKit => phrase \in kits
  /\ page = "join" /\ attempt.stage # "idle" => step = "sealing" /\ savedKit

LEMMA NextKit ==
  ASSUME ChangesItsMind = FALSE, TypeOK, KitInvariant, [Next]_vars
  PROVE  KitInvariant'
<1> USE DEF KitInvariant
<1>1. CASE UNCHANGED <<account, kits, savedKit, phrase, page, attempt, step>>
  BY <1>1
<1>2. ASSUME NEW p \in {"login", "join"}, Visit(p) PROVE KitInvariant'
  BY <1>2 DEF Visit, Idle
<1>3. ASSUME SubmitLogin \/ ParamsFail \/ LoginReaches PROVE KitInvariant'
  <2>1. page' = "login" /\ UNCHANGED <<account, kits, savedKit, phrase>>
    BY <1>3 DEF SubmitLogin, Submits, ParamsFail, LoginReaches
  <2> QED
    BY <2>1
<1>4. ASSUME Register PROVE KitInvariant'
  <2>1. savedKit /\ step' = "sealing" /\ UNCHANGED <<account, kits, savedKit, phrase>>
    BY <1>4 DEF Register, Submits
  <2> QED
    BY <2>1
<1>5. ASSUME RegisterReaches PROVE KitInvariant'
  BY <1>5 DEF RegisterReaches
<1>6. ASSUME LoginAnswered \/ RegisterAnswered PROVE KitInvariant'
  BY <1>6 DEF LoginAnswered, RegisterAnswered, Idle
<1>7. ASSUME NetworkFails PROVE KitInvariant'
  BY <1>7 DEF NetworkFails, Idle
<1>8. ASSUME BackToCredentials \/ Continue \/ BackToAccount PROVE KitInvariant'
  BY <1>8 DEF BackToCredentials, Continue, BackToAccount
<1>9. ASSUME TickSavedKit PROVE KitInvariant'
  BY <1>9 DEF TickSavedKit
<1>10. ASSUME NewPhrase PROVE KitInvariant'
  BY <1>10 DEF NewPhrase
<1>11. ASSUME ScriptLoads \/ Expire \/ \E k \in Tokens : Solve(k) \/ Lapse(k)
       PROVE  UNCHANGED <<account, kits, savedKit, phrase, page, attempt, step>>
  BY <1>11 DEF ScriptLoads, Expire, Solve, Lapse, form
<1>12. ASSUME Settings \/ Resend \/ (\E l \in Links : OpenLink(l)) \/ UNCHANGED vars
       PROVE  UNCHANGED <<account, kits, savedKit, phrase, page, attempt, step>>
  BY <1>12 DEF Settings, BeginSetup, BeginVerify, BeginDisable, Calls, Commits,
       CommitSetup, CommitVerify, CommitDisable, Scan, FactorAnswered, CancelSetup,
       OpenSettings, Resend, OpenLink, vars, form, server
<1> QED
  BY <1>1, <1>2, <1>3, <1>4, <1>5, <1>6, <1>7, <1>8, <1>9, <1>10, <1>11, <1>12
     DEF Next, Forms

\* The kit confirmed saved is that of the phrase the account was created under,
\* also when the answer was lost and the form came back: for any number of
\* phrases, if the box is not left ticked for another one.
THEOREM KitsOpenAccounts ==
  ASSUME ChangesItsMind = FALSE
  PROVE  Spec => []SavedKitOpensAccount
<1>1. Init => KitInvariant
  BY DEF Init, KitInvariant, Idle
<1>2. TypeOK /\ KitInvariant /\ [Next]_vars => KitInvariant'
  BY NextKit
<1>3. KitInvariant => SavedKitOpensAccount
  BY DEF KitInvariant, SavedKitOpensAccount
<1> QED
  BY <1>1, <1>2, <1>3, TypeCorrect, PTL DEF Spec

------------------------------------------------------------------------
(* The second factor.                                                      *)

\* With one request at a time, the secret a verification was checked against
\* is still the pending one when it commits, and still in the user's app.
FactorInvariant ==
  /\ enrolled # None => enrolled \in app
  /\ \A s \in Sections : req[s].op = "verify" => pending \in app
  /\ \A s, q \in Sections : req[s].op # "idle" /\ req[q].op # "idle" => s = q

\* A request goes out when no other is under way.
LEMMA CallsAlone ==
  ASSUME Overlap = 1, NEW s \in Sections, NEW call, Calls(s, call)
  PROVE  \A q \in Sections : req[q].op = "idle"
<1> DEFINE Running == {q \in Sections : req[q].op # "idle"}
<1>1. IsFiniteSet(Running)
  BY NoneAssumption, FS_Subset
<1>2. Cardinality(Running) \in Nat /\ Cardinality(Running) < 1
  BY <1>1, FS_CardinalityType DEF Calls
<1>3. Cardinality(Running) = 0
  BY <1>2
<1>4. Running = {}
  BY <1>1, <1>3, FS_EmptySet
<1> QED
  BY <1>4

LEMMA NextFactor ==
  ASSUME Overlap = 1, TypeOK, FactorInvariant, [Next]_vars
  PROVE  FactorInvariant'
<1> USE DEF FactorInvariant
<1>1. CASE UNCHANGED <<enrolled, pending, app, req>>
  BY <1>1
<1>2. ASSUME Forms \/ Resend \/ (\E l \in Links : OpenLink(l)) \/ UNCHANGED vars
      PROVE  UNCHANGED <<enrolled, pending, app, req>>
  BY <1>2 DEF Forms, Visit, ScriptLoads, Expire, Solve, Lapse, SubmitLogin, Submits,
     ParamsFail, LoginReaches, LoginAnswered, Register, RegisterReaches,
     RegisterAnswered, NetworkFails, BackToCredentials, Continue, BackToAccount,
     TickSavedKit, NewPhrase, Resend, OpenLink, vars, factor
<1>3. ASSUME NEW s \in Sections,
             \/ \E x \in Secrets : BeginSetup(s, x)
             \/ \E code \in Secrets \cup {Wrong} : BeginVerify(s, code) \/ BeginDisable(s, code)
             \/ CommitSetup(s) \/ CommitVerify(s) \/ CommitDisable(s)
             \/ Scan(s) \/ FactorAnswered(s) \/ CancelSetup(s) \/ OpenSettings(s)
      PROVE  FactorInvariant'
  <2>0. req \in [Sections -> Call]
    BY DEF TypeOK
  <2>1. ASSUME NEW x \in Secrets, BeginSetup(s, x) PROVE FactorInvariant'
    <3>1. \A q \in Sections : req[q].op = "idle"
      BY <2>1, CallsAlone DEF BeginSetup
    <3>2. enrolled # x /\ app' = app \ {x} /\ UNCHANGED <<enrolled, pending>>
      BY <2>1 DEF BeginSetup, Held
    <3>3. req' = [req EXCEPT ![s] = [NoCall EXCEPT !.op = "setup", !.secret = x]]
      BY <2>1 DEF BeginSetup, Calls
    <3>4. \A q \in Sections : req'[q].op # "verify" /\ (q # s => req'[q].op = "idle")
      BY <2>0, <3>1, <3>3 DEF NoCall
    <3> QED
      BY <3>2, <3>4
  <2>2. ASSUME NEW code \in Secrets \cup {Wrong}, BeginVerify(s, code)
        PROVE  FactorInvariant'
    <3>1. \A q \in Sections : req[q].op = "idle"
      BY <2>2, CallsAlone DEF BeginVerify
    <3>2. UNCHANGED <<enrolled, pending, app>>
      BY <2>2 DEF BeginVerify
    <3>3. CASE code = pending
      <4>1. pending \in app
        BY <2>2, <3>3, NoneAssumption DEF BeginVerify, TypeOK
      <4>2. req' = [req EXCEPT ![s] = [NoCall EXCEPT !.op = "verify"]]
        BY <2>2, <3>3 DEF BeginVerify, Calls
      <4>3. \A q \in Sections : q # s => req'[q].op = "idle"
        BY <2>0, <3>1, <4>2
      <4> QED
        BY <3>2, <4>1, <4>3
    <3>4. CASE code # pending
      <4>1. req' = [req EXCEPT ![s] = [NoCall EXCEPT !.op = "done"]]
        BY <2>2, <3>4 DEF BeginVerify, Calls
      <4>2. \A q \in Sections : req'[q].op # "verify" /\ (q # s => req'[q].op = "idle")
        BY <2>0, <3>1, <4>1 DEF NoCall
      <4> QED
        BY <3>2, <4>2
    <3> QED
      BY <3>3, <3>4
  <2>3. ASSUME NEW code \in Secrets \cup {Wrong}, BeginDisable(s, code)
        PROVE  FactorInvariant'
    <3>1. \A q \in Sections : req[q].op = "idle"
      BY <2>3, CallsAlone DEF BeginDisable
    <3>2. PICK o \in {"disable", "done"} : req' = [req EXCEPT ![s] = [NoCall EXCEPT !.op = o]]
      BY <2>3 DEF BeginDisable, Calls
    <3>3. \A q \in Sections : req'[q].op # "verify" /\ (q # s => req'[q].op = "idle")
      BY <2>0, <3>1, <3>2 DEF NoCall
    <3>4. UNCHANGED <<enrolled, pending, app>>
      BY <2>3 DEF BeginDisable
    <3> QED
      BY <3>3, <3>4
  <2>4. ASSUME req[s].op # "idle", Commits(s)
        PROVE  \A q \in Sections : req'[q].op # "verify" /\ (q # s => req'[q].op = "idle")
    <3>1. \A q \in Sections : q # s => req[q].op = "idle" /\ req'[q] = req[q]
      BY <2>0, <2>4 DEF Commits
    <3>2. req'[s].op = "done"
      BY <2>0, <2>4 DEF Commits, Call
    <3> QED
      BY <3>1, <3>2
  <2>5. ASSUME CommitSetup(s) PROVE FactorInvariant'
    BY <2>4, <2>5 DEF CommitSetup, Commits
  <2>6. ASSUME CommitVerify(s) PROVE FactorInvariant'
    BY <2>4, <2>6 DEF CommitVerify, Commits
  <2>7. ASSUME CommitDisable(s) PROVE FactorInvariant'
    BY <2>4, <2>7 DEF CommitDisable, Commits
  <2>8. ASSUME Scan(s) PROVE FactorInvariant'
    BY <2>8 DEF Scan, server
  <2>9. ASSUME FactorAnswered(s) PROVE FactorInvariant'
    <3>1. req' = [req EXCEPT ![s] = NoCall] /\ UNCHANGED <<enrolled, pending, app>>
      BY <2>9 DEF FactorAnswered, server
    <3>2. req'[s].op = "idle" /\ \A q \in Sections : q # s => req'[q] = req[q]
      BY <2>0, <3>1 DEF NoCall
    <3> QED
      BY <3>1, <3>2
  <2>10. ASSUME CancelSetup(s) \/ OpenSettings(s) PROVE FactorInvariant'
    BY <2>10 DEF CancelSetup, OpenSettings, server
  <2> QED
    BY <1>3, <2>1, <2>2, <2>3, <2>5, <2>6, <2>7, <2>8, <2>9, <2>10
<1> QED
  BY <1>1, <1>2, <1>3 DEF Next, Settings

\* Nobody is locked out by their own enrolment: for any number of secrets and
\* settings pages, as long as the account has one two-factor request in flight.
THEOREM EnrolmentIsHeld ==
  ASSUME Overlap = 1
  PROVE  Spec => []EnrolledSecretIsHeld
<1>1. Init => FactorInvariant
  BY DEF Init, FactorInvariant, NoCall
<1>2. TypeOK /\ FactorInvariant /\ [Next]_vars => FactorInvariant'
  BY NextFactor
<1>3. FactorInvariant => EnrolledSecretIsHeld
  BY DEF FactorInvariant, EnrolledSecretIsHeld
<1> QED
  BY <1>1, <1>2, <1>3, TypeCorrect, PTL DEF Spec

------------------------------------------------------------------------
(* Keys and envelopes: what opens what.                                    *)

\* What lies in the envelopes under key k.
Opens(k) == {e.holds : e \in {s \in sent : s.under = k}}

Enc(u, p, f, s) == DeriveKeys(u, p, f, s).encKey
Secret == [password: Passwords, phrase: SecretPhrases, salt: 1..MaxVersions]
ItemsOf(v) == {i \in Papers : place[i] = v}
VaultsOf(u) == {v \in Chests : u \in members[v]}

SealTypes ==
  /\ secrets \in [Owners -> Secret \cup {Nobody}]
  /\ members \in [Chests -> SUBSET Owners]
  /\ place \in [Papers -> Chests \cup {Nobody}]
  /\ version \in [Chests \cup Papers -> Nat]
  /\ handed \in [Fragments -> Chests \cup Papers \cup {Nobody}]

\* Nothing is sealed for a vault without members, an item without a vault, an
\* account without secrets.
Unborn ==
  /\ \A v \in Chests : members[v] = {} => version[v] = 0
  /\ \A i \in Papers : place[i] = Nobody => version[i] = 0
  /\ \A v \in Chests : \A u \in members[v] : secrets[u] # Nobody

\* What opens under each key that was ever minted, and that nothing opens under
\* a text, a proof, or the encryption keys of a salt that is yet to come.
ChestsInv ==
  \A v \in Chests : Opens(Key(v)) = Written(v) \cup {Key(i) : i \in ItemsOf(v)}

PapersInv == \A i \in Papers : Opens(Key(i)) = Written(i)

FragmentsInv ==
  \A l \in Fragments :
    Opens(Key(l)) = IF handed[l] = Nobody THEN {} ELSE {Key(handed[l])}

OwnersInv ==
  \A u \in Owners, p \in Passwords, f \in SecretPhrases : secrets[u] # Nobody =>
    Opens(Enc(u, p, f, secrets[u].salt)) =
      IF p = secrets[u].password /\ f = secrets[u].phrase
      THEN {Key(v) : v \in VaultsOf(u)} ELSE {}

SaltsInv ==
  \A u \in Owners : \A p, f : \A s \in Nat :
    secrets[u] = Nobody \/ secrets[u].salt < s => Opens(Enc(u, p, f, s)) = {}

KeysInvariant ==
  /\ SealTypes /\ Unborn
  /\ ChestsInv /\ PapersInv /\ FragmentsInv /\ OwnersInv /\ SaltsInv

\* The keys are all different.
LEMMA KeysDiffer ==
  /\ \A x, y : Key(x) = Key(y) => x = y
  /\ \A x, u, p, f, s : Key(x) # Enc(u, p, f, s)
  /\ \A u, p, f, s, u2, p2, f2, s2 :
       Enc(u, p, f, s) = Enc(u2, p2, f2, s2) => u = u2 /\ p = p2 /\ f = f2 /\ s = s2
  /\ \A x, y, n : Key(x) # Text(y, n)
  /\ \A x : Key(x)[1] = "key"
  /\ \A u, p, f, s : Enc(u, p, f, s)[1] = "enc"
  /\ \A x, n : Text(x, n)[1] = "text"
BY DEF Key, Enc, DeriveKeys, Text

\* New envelopes open to whoever has their key, and to nobody else.
LEMMA OpensMore ==
  ASSUME NEW E, Gives(E), NEW q
  PROVE  \A h : h \in Opens(q)' <=>
                 h \in Opens(q) \/ \E e \in E : e.under = q /\ e.holds = h
<1>1. sent' = sent \cup E
  BY DEF Gives
<1>2. Opens(q)' = {e.holds : e \in {s \in sent' : s.under = q}}
  BY DEF Opens
<1> QED
  BY <1>1, <1>2 DEF Opens

LEMMA SealedUnder == \A k, h : Seal(k, h).under = k /\ Seal(k, h).holds = h
BY DEF Seal

LEMMA OpensOne ==
  ASSUME NEW k, NEW h, Gives({Seal(k, h)}), NEW q
  PROVE  Opens(q)' = Opens(q) \cup IF q = k THEN {h} ELSE {}
<1>1. PICK E : E = {Seal(k, h)}
  OBVIOUS
<1>2. \A g : (\E e \in E : e.under = q /\ e.holds = g) <=> q = k /\ g = h
  BY <1>1, SealedUnder
<1>3. \A g : g \in Opens(q)' <=> g \in Opens(q) \/ (q = k /\ g = h)
  BY <1>1, <1>2, OpensMore
<1> QED
  BY <1>3

LEMMA OpensTwo ==
  ASSUME NEW k, NEW h, NEW k2, NEW h2, Gives({Seal(k, h), Seal(k2, h2)}), NEW q
  PROVE  Opens(q)' = Opens(q) \cup (IF q = k THEN {h} ELSE {}) \cup (IF q = k2 THEN {h2} ELSE {})
<1>1. PICK E : E = {Seal(k, h), Seal(k2, h2)}
  OBVIOUS
<1>2. \A g : (\E e \in E : e.under = q /\ e.holds = g)
              <=> (q = k /\ g = h) \/ (q = k2 /\ g = h2)
  BY <1>1, SealedUnder
<1>3. \A g : g \in Opens(q)' <=> g \in Opens(q) \/ (q = k /\ g = h) \/ (q = k2 /\ g = h2)
  BY <1>1, <1>2, OpensMore
<1> QED
  BY <1>3

LEMMA OpensMany ==
  ASSUME NEW k, NEW S, Gives({Seal(k, Key(v)) : v \in S}), NEW q
  PROVE  Opens(q)' = Opens(q) \cup IF q = k THEN {Key(v) : v \in S} ELSE {}
<1>1. PICK E : E = {Seal(k, Key(v)) : v \in S}
  OBVIOUS
<1>2. \A g : (\E e \in E : e.under = q /\ e.holds = g) <=> q = k /\ g \in {Key(v) : v \in S}
  BY <1>1, SealedUnder
<1>3. \A g : g \in Opens(q)' <=> g \in Opens(q) \/ (q = k /\ g \in {Key(v) : v \in S})
  BY <1>1, <1>2, OpensMore
<1> QED
  BY <1>3

LEMMA WrittenNext ==
  ASSUME NEW x, version[x] \in Nat, version'[x] = version[x] + 1
  PROVE  Written(x)' = Written(x) \cup {Text(x, version[x] + 1)}
<1>1. 1..version'[x] = 1..version[x] \cup {version[x] + 1}
  OBVIOUS
<1>2. Written(x)' = {Text(x, n) : n \in 1..version'[x]}
  BY DEF Written, Text
<1> QED
  BY <1>1, <1>2 DEF Written

\* A vault is minted by an account that has its secrets, or gets them now.
LEMMA Minting ==
  ASSUME KeysInvariant, NEW u \in Owners, NEW v \in Chests, NEW a \in Secret,
         secrets[u] \in {a, Nobody}, secrets' = [secrets EXCEPT ![u] = a],
         MintVault(v, u, Enc(u, a.password, a.phrase, a.salt)), UNCHANGED <<place, handed>>
  PROVE  KeysInvariant'
<1> USE DEF KeysInvariant
<1>0. a # Nobody /\ a.salt \in Nat
  BY KeysAssumption DEF Secret
<1>1. /\ members[v] = {} /\ members' = [members EXCEPT ![v] = {u}]
      /\ version' = [version EXCEPT ![v] = 1] /\ version[v] = 0
      /\ Gives({Seal(Enc(u, a.password, a.phrase, a.salt), Key(v)), Seal(Key(v), Text(v, 1))})
  BY DEF MintVault, Unborn
<1>2. PICK k : k = Enc(u, a.password, a.phrase, a.salt)
  OBVIOUS
<1>3. \A q : Opens(q)' = Opens(q) \cup (IF q = k THEN {Key(v)} ELSE {})
                          \cup (IF q = Key(v) THEN {Text(v, 1)} ELSE {})
  BY <1>1, <1>2, OpensTwo
<1>4. /\ secrets'[u] = a /\ \A w \in Owners \ {u} : secrets'[w] = secrets[w]
      /\ members'[v] = {u} /\ \A w \in Chests \ {v} : members'[w] = members[w]
      /\ version'[v] = 1 /\ \A x \in (Chests \cup Papers) \ {v} : version'[x] = version[x]
  BY <1>1 DEF SealTypes
<1>5. SealTypes'
  BY <1>1 DEF SealTypes
<1>6. Unborn'
  BY <1>0, <1>1, <1>4, KeysAssumption DEF Unborn, SealTypes
<1>7. Written(v) = {} /\ Written(v)' = {Text(v, 1)}
      /\ \A x \in (Chests \cup Papers) \ {v} : Written(x)' = Written(x)
  <2>1. 1..version[v] = {} /\ 1..version'[v] = {1}
    BY <1>1, <1>4
  <2>2. Written(v)' = {Text(v, n) : n \in 1..version'[v]}
    BY DEF Written, Text
  <2> QED
    BY <1>4, <2>1, <2>2 DEF Written, Text
<1>8. ChestsInv'
  <2> SUFFICES ASSUME NEW w \in Chests
               PROVE  Opens(Key(w))' = Written(w)' \cup {Key(i) : i \in ItemsOf(w)}
    BY DEF ChestsInv, ItemsOf, Key
  <2>1. Opens(Key(w)) = Written(w) \cup {Key(i) : i \in ItemsOf(w)}
    BY DEF ChestsInv
  <2>2. Key(w) # k /\ (Key(w) = Key(v) <=> w = v)
    BY <1>2, KeysDiffer
  <2>3. PICK q : q = Key(w)
    OBVIOUS
  <2>4. Opens(q)' = Opens(Key(w))'
    BY <2>3 DEF Opens, Key
  <2>5. Opens(q)' = Opens(q) \cup IF w = v THEN {Text(v, 1)} ELSE {}
    BY <1>3, <2>2, <2>3
  <2> QED
    BY <1>7, <2>1, <2>3, <2>4, <2>5
<1>9. PapersInv' /\ FragmentsInv'
  <2>1. \A x \in Papers \cup Fragments : Opens(Key(x))' = Opens(Key(x))
    <3> SUFFICES ASSUME NEW x \in Papers \cup Fragments PROVE Opens(Key(x))' = Opens(Key(x))
      OBVIOUS
    <3>1. PICK q : q = Key(x)
      OBVIOUS
    <3>2. q # k /\ q # Key(v)
      BY <1>2, <3>1, KeysDiffer, KeysAssumption
    <3>3. Opens(q)' = Opens(q)
      BY <1>3, <3>2
    <3>4. Opens(q)' = Opens(Key(x))'
      BY <3>1 DEF Opens, Key
    <3> QED
      BY <3>1, <3>3, <3>4
  <2>2. \A i \in Papers : Written(i)' = Written(i)
    BY <1>7, KeysAssumption
  <2> QED
    BY <2>1, <2>2 DEF PapersInv, FragmentsInv, Key
<1>10. \A w \in Owners : VaultsOf(w)' = IF w = u THEN VaultsOf(u) \cup {v} ELSE VaultsOf(w)
  BY <1>1, <1>4 DEF VaultsOf
<1>11. secrets[u] = Nobody => VaultsOf(u) = {}
  BY DEF VaultsOf, Unborn
<1>12. OwnersInv'
  <2> SUFFICES ASSUME NEW w \in Owners, NEW p \in Passwords, NEW f \in SecretPhrases,
                      secrets'[w] # Nobody
               PROVE  Opens(Enc(w, p, f, secrets[w].salt))' =
                        IF p = secrets'[w].password /\ f = secrets'[w].phrase
                        THEN {Key(x) : x \in VaultsOf(w)'} ELSE {}
    BY DEF OwnersInv, Key
  <2>1. PICK q : q = Enc(w, p, f, secrets'[w].salt)
    OBVIOUS
  <2>2. Opens(q)' = Opens(Enc(w, p, f, secrets[w].salt))'
    BY <2>1 DEF Opens, Enc, DeriveKeys
  <2>3. q # Key(v)
    BY <2>1, KeysDiffer
  <2>4. CASE w # u
    <3>1. q # k
      BY <1>2, <2>1, <2>4, KeysDiffer
    <3>2. Opens(q) = IF p = secrets[w].password /\ f = secrets[w].phrase
                     THEN {Key(x) : x \in VaultsOf(w)} ELSE {}
      BY <1>4, <2>1, <2>4 DEF OwnersInv
    <3> QED
      BY <1>3, <1>4, <1>10, <2>2, <2>3, <2>4, <3>1, <3>2
  <2>5. CASE w = u
    <3>1. q = k <=> p = a.password /\ f = a.phrase
      BY <1>2, <1>4, <2>1, <2>5, KeysDiffer
    <3>2. Opens(q) = IF p = a.password /\ f = a.phrase
                     THEN {Key(x) : x \in VaultsOf(u)} ELSE {}
      <4>1. CASE secrets[u] = a
        <5>1. q = Enc(u, p, f, secrets[u].salt)
          BY <1>4, <2>1, <2>5, <4>1
        <5>2. Opens(Enc(u, p, f, secrets[u].salt)) =
                IF p = secrets[u].password /\ f = secrets[u].phrase
                THEN {Key(x) : x \in VaultsOf(u)} ELSE {}
          BY <1>0, <4>1 DEF OwnersInv
        <5> QED
          BY <4>1, <5>1, <5>2
      <4>2. CASE secrets[u] = Nobody
        <5>1. Opens(q) = {}
          BY <1>0, <1>4, <2>1, <2>5, <4>2 DEF SaltsInv
        <5> QED
          BY <1>11, <4>2, <5>1
      <4> QED
        BY <4>1, <4>2
    <3>3. {Key(x) : x \in VaultsOf(u) \cup {v}} = {Key(x) : x \in VaultsOf(u)} \cup {Key(v)}
      OBVIOUS
    <3>4. Opens(q)' = Opens(q) \cup IF p = a.password /\ f = a.phrase THEN {Key(v)} ELSE {}
      BY <1>3, <2>3, <3>1
    <3>5. Opens(q)' = IF p = a.password /\ f = a.phrase
                      THEN {Key(x) : x \in VaultsOf(u) \cup {v}} ELSE {}
      BY <3>2, <3>3, <3>4
    <3> QED
      BY <1>4, <1>10, <2>2, <2>5, <3>5
  <2> QED
    BY <2>4, <2>5
<1>13. SaltsInv'
  <2> SUFFICES ASSUME NEW w \in Owners, NEW p, NEW f, NEW s \in Nat,
                      secrets'[w] = Nobody \/ secrets'[w].salt < s
               PROVE  Opens(Enc(w, p, f, s))' = {}
    BY DEF SaltsInv
  <2>1. PICK q : q = Enc(w, p, f, s)
    OBVIOUS
  <2>2. Opens(q)' = Opens(Enc(w, p, f, s))'
    BY <2>1 DEF Opens, Enc, DeriveKeys
  <2>3. q # Key(v)
    BY <2>1, KeysDiffer
  <2>4. secrets[w] = Nobody \/ secrets[w].salt < s
    BY <1>0, <1>4
  <2>5. Opens(q) = {}
    BY <2>1, <2>4 DEF SaltsInv
  <2>6. q # k
    <3>1. w = u => s # a.salt
      BY <1>0, <1>4
    <3> QED
      BY <1>2, <2>1, <3>1, KeysDiffer
  <2> QED
    BY <1>3, <2>2, <2>3, <2>5, <2>6
<1> QED
  BY <1>5, <1>6, <1>8, <1>9, <1>12, <1>13

\* Sealing names and items touches no key of an account or a link.
LEMMA OthersKeep ==
  ASSUME KeysInvariant, UNCHANGED <<secrets, members, handed>>,
         \A q : (\A x \in Chests \cup Papers : q # Key(x)) => Opens(q)' = Opens(q)
  PROVE  FragmentsInv' /\ OwnersInv' /\ SaltsInv'
<1> USE DEF KeysInvariant
<1>1. FragmentsInv'
  <2> SUFFICES ASSUME NEW l \in Fragments PROVE Opens(Key(l))' = Opens(Key(l))
    BY DEF FragmentsInv, Key
  <2>1. PICK q : q = Key(l)
    OBVIOUS
  <2>2. Opens(q)' = Opens(Key(l))'
    BY <2>1 DEF Opens, Key
  <2> QED
    BY <2>1, <2>2, KeysDiffer, KeysAssumption
<1>2. ASSUME NEW u, NEW p, NEW f, NEW s PROVE Opens(Enc(u, p, f, s))' = Opens(Enc(u, p, f, s))
  <2>1. PICK q : q = Enc(u, p, f, s)
    OBVIOUS
  <2>2. Opens(q)' = Opens(Enc(u, p, f, s))'
    BY <2>1 DEF Opens, Enc, DeriveKeys
  <2> QED
    BY <2>1, <2>2, KeysDiffer
<1>3. OwnersInv'
  <2> SUFFICES ASSUME NEW w \in Owners, NEW p \in Passwords, NEW f \in SecretPhrases,
                      secrets[w] # Nobody
               PROVE  Opens(Enc(w, p, f, secrets[w].salt))' =
                        IF p = secrets[w].password /\ f = secrets[w].phrase
                        THEN {Key(x) : x \in VaultsOf(w)} ELSE {}
    BY DEF OwnersInv, Key, VaultsOf
  <2>1. PICK s : s = secrets[w].salt
    OBVIOUS
  <2>2. Opens(Enc(w, p, f, secrets[w].salt))' = Opens(Enc(w, p, f, s))'
    BY <2>1 DEF Opens, Enc, DeriveKeys
  <2>3. Opens(Enc(w, p, f, secrets[w].salt)) =
          IF p = secrets[w].password /\ f = secrets[w].phrase
          THEN {Key(x) : x \in VaultsOf(w)} ELSE {}
    BY DEF OwnersInv
  <2> QED
    BY <1>2, <2>1, <2>2, <2>3
<1>4. SaltsInv'
  BY <1>2 DEF SaltsInv
<1> QED
  BY <1>1, <1>3, <1>4

LEMMA NamingSteps ==
  ASSUME KeysInvariant, NEW v \in Chests, SealVaultName(v)
  PROVE  KeysInvariant'
<1> USE DEF KeysInvariant
<1>1. /\ members[v] # {} /\ version' = [version EXCEPT ![v] = @ + 1]
      /\ Gives({Seal(Key(v), Text(v, version[v] + 1))})
      /\ UNCHANGED <<secrets, members, place, handed>>
  BY DEF SealVaultName, Write
<1>2. PICK t : t = Text(v, version[v] + 1)
  OBVIOUS
<1>3. \A q : Opens(q)' = Opens(q) \cup IF q = Key(v) THEN {t} ELSE {}
  BY <1>1, <1>2, OpensOne
<1>4. version[v] \in Nat /\ version'[v] = version[v] + 1
      /\ \A x \in (Chests \cup Papers) \ {v} : version'[x] = version[x]
  BY <1>1 DEF SealTypes
<1>5. SealTypes' /\ Unborn'
  BY <1>1, <1>4, KeysAssumption DEF SealTypes, Unborn
<1>6. FragmentsInv' /\ OwnersInv' /\ SaltsInv'
  BY <1>1, <1>3, OthersKeep
<1>7. Written(v)' = Written(v) \cup {t}
      /\ \A x \in (Chests \cup Papers) \ {v} : Written(x)' = Written(x)
  BY <1>2, <1>4, WrittenNext DEF Written, Text
<1>8. \A x : Opens(Key(x))' = Opens(Key(x)) \cup IF x = v THEN {t} ELSE {}
  <2> SUFFICES ASSUME NEW x PROVE Opens(Key(x))' = Opens(Key(x)) \cup IF x = v THEN {t} ELSE {}
    OBVIOUS
  <2>1. PICK q : q = Key(x)
    OBVIOUS
  <2>2. Opens(q)' = Opens(Key(x))'
    BY <2>1 DEF Opens, Key
  <2> QED
    BY <1>3, <2>1, <2>2, KeysDiffer
<1>9. ChestsInv' /\ PapersInv'
  <2>1. ASSUME NEW w \in Chests PROVE Opens(Key(w))' = (Written(w) \cup {Key(i) : i \in ItemsOf(w)})'
    <3>1. Opens(Key(w)) = Written(w) \cup {Key(i) : i \in ItemsOf(w)}
      BY DEF ChestsInv
    <3>2. {Key(i) : i \in ItemsOf(w)}' = {Key(i) : i \in ItemsOf(w)}
      BY <1>1 DEF ItemsOf, Key
    <3> QED
      BY <1>7, <1>8, <3>1, <3>2
  <2>2. ASSUME NEW i \in Papers PROVE Opens(Key(i))' = Written(i)'
    BY <1>7, <1>8, KeysAssumption DEF PapersInv
  <2> QED
    BY <2>1, <2>2 DEF ChestsInv, PapersInv
<1> QED
  BY <1>5, <1>6, <1>9

LEMMA EditingSteps ==
  ASSUME KeysInvariant, NEW i \in Papers, UpdateItem(i)
  PROVE  KeysInvariant'
<1> USE DEF KeysInvariant
<1>1. /\ place[i] # Nobody /\ version' = [version EXCEPT ![i] = @ + 1]
      /\ Gives({Seal(Key(i), Text(i, version[i] + 1))})
      /\ UNCHANGED <<secrets, members, place, handed>>
  BY DEF UpdateItem, Write
<1>2. PICK t : t = Text(i, version[i] + 1)
  OBVIOUS
<1>3. \A q : Opens(q)' = Opens(q) \cup IF q = Key(i) THEN {t} ELSE {}
  BY <1>1, <1>2, OpensOne
<1>4. version[i] \in Nat /\ version'[i] = version[i] + 1
      /\ \A x \in (Chests \cup Papers) \ {i} : version'[x] = version[x]
  BY <1>1 DEF SealTypes
<1>5. SealTypes' /\ Unborn'
  BY <1>1, <1>4, KeysAssumption DEF SealTypes, Unborn
<1>6. FragmentsInv' /\ OwnersInv' /\ SaltsInv'
  BY <1>1, <1>3, OthersKeep
<1>7. Written(i)' = Written(i) \cup {t}
      /\ \A x \in (Chests \cup Papers) \ {i} : Written(x)' = Written(x)
  BY <1>2, <1>4, WrittenNext DEF Written, Text
<1>8. \A x : Opens(Key(x))' = Opens(Key(x)) \cup IF x = i THEN {t} ELSE {}
  <2> SUFFICES ASSUME NEW x PROVE Opens(Key(x))' = Opens(Key(x)) \cup IF x = i THEN {t} ELSE {}
    OBVIOUS
  <2>1. PICK q : q = Key(x)
    OBVIOUS
  <2>2. Opens(q)' = Opens(Key(x))'
    BY <2>1 DEF Opens, Key
  <2> QED
    BY <1>3, <2>1, <2>2, KeysDiffer
<1>9. ChestsInv' /\ PapersInv'
  <2>1. ASSUME NEW w \in Chests PROVE Opens(Key(w))' = (Written(w) \cup {Key(j) : j \in ItemsOf(w)})'
    <3>1. Opens(Key(w)) = Written(w) \cup {Key(j) : j \in ItemsOf(w)} /\ w # i
      BY KeysAssumption DEF ChestsInv
    <3>2. {Key(j) : j \in ItemsOf(w)}' = {Key(j) : j \in ItemsOf(w)}
      BY <1>1 DEF ItemsOf, Key
    <3> QED
      BY <1>7, <1>8, <3>1, <3>2
  <2>2. ASSUME NEW j \in Papers PROVE Opens(Key(j))' = Written(j)'
    <3>1. Opens(Key(j)) = Written(j)
      BY DEF PapersInv
    <3>2. Opens(Key(j))' = Opens(Key(j)) \cup IF j = i THEN {t} ELSE {}
      BY <1>8
    <3>3. Written(j)' = Written(j) \cup IF j = i THEN {t} ELSE {}
      BY <1>7
    <3> QED
      BY <3>1, <3>2, <3>3
  <2> QED
    BY <2>1, <2>2 DEF ChestsInv, PapersInv
<1> QED
  BY <1>5, <1>6, <1>9

LEMMA FilingSteps ==
  ASSUME KeysInvariant, NEW i \in Papers, NEW v \in Chests, SealItem(i, v)
  PROVE  KeysInvariant'
<1> USE DEF KeysInvariant
<1>1. /\ members[v] # {} /\ place[i] = Nobody /\ place' = [place EXCEPT ![i] = v]
      /\ version' = [version EXCEPT ![i] = @ + 1] /\ version[i] = 0
      /\ Gives({Seal(Key(v), Key(i)), Seal(Key(i), Text(i, 1))})
      /\ UNCHANGED <<secrets, members, handed>>
  BY DEF SealItem, Write, Unborn
<1>2. PICK t : t = Text(i, 1)
  OBVIOUS
<1>3. \A q : Opens(q)' = Opens(q) \cup (IF q = Key(v) THEN {Key(i)} ELSE {})
                          \cup (IF q = Key(i) THEN {t} ELSE {})
  BY <1>1, <1>2, OpensTwo
<1>4. /\ version'[i] = version[i] + 1 /\ version[i] + 1 = 1 /\ place'[i] = v
      /\ \A x \in (Chests \cup Papers) \ {i} : version'[x] = version[x]
      /\ \A x \in Papers \ {i} : place'[x] = place[x]
  BY <1>1 DEF SealTypes
<1>5. SealTypes' /\ Unborn'
  BY <1>1, <1>4, KeysAssumption DEF SealTypes, Unborn
<1>6. FragmentsInv' /\ OwnersInv' /\ SaltsInv'
  <2>1. \A q : (\A x \in Chests \cup Papers : q # Key(x)) => Opens(q)' = Opens(q)
    BY <1>3
  <2> QED
    BY <1>1, <2>1, OthersKeep
<1>7. Written(i)' = Written(i) \cup {t}
      /\ \A x \in (Chests \cup Papers) \ {i} : Written(x)' = Written(x)
  <2>1. Written(i)' = Written(i) \cup {Text(i, version[i] + 1)}
    BY <1>1, <1>4, WrittenNext
  <2> QED
    BY <1>2, <1>4, <2>1 DEF Written, Text
<1>8. \A x : Opens(Key(x))' = Opens(Key(x)) \cup (IF x = v THEN {Key(i)} ELSE {})
                                            \cup (IF x = i THEN {t} ELSE {})
  <2> SUFFICES ASSUME NEW x
               PROVE  Opens(Key(x))' = Opens(Key(x)) \cup (IF x = v THEN {Key(i)} ELSE {})
                                                     \cup (IF x = i THEN {t} ELSE {})
    OBVIOUS
  <2>1. PICK q : q = Key(x)
    OBVIOUS
  <2>2. Opens(q)' = Opens(Key(x))'
    BY <2>1 DEF Opens, Key
  <2>3. (q = Key(v) <=> x = v) /\ (q = Key(i) <=> x = i)
    BY <2>1, KeysDiffer
  <2>4. Opens(q)' = Opens(q) \cup (IF x = v THEN {Key(i)} ELSE {}) \cup (IF x = i THEN {t} ELSE {})
    BY <1>3, <2>3
  <2> QED
    BY <2>1, <2>2, <2>4
<1>9. ASSUME NEW w \in Chests PROVE Opens(Key(w))' = (Written(w) \cup {Key(j) : j \in ItemsOf(w)})'
  <2>1. Opens(Key(w)) = Written(w) \cup {Key(j) : j \in ItemsOf(w)} /\ w # i
    BY KeysAssumption DEF ChestsInv
  <2>2. ItemsOf(w)' = IF w = v THEN ItemsOf(v) \cup {i} ELSE ItemsOf(w)
    BY <1>1, <1>4, KeysAssumption DEF ItemsOf
  <2>3. {Key(j) : j \in ItemsOf(w)}' =
          IF w = v THEN {Key(j) : j \in ItemsOf(v)} \cup {Key(i)} ELSE {Key(j) : j \in ItemsOf(w)}
    <3>1. {Key(j) : j \in ItemsOf(w)}' = {Key(j) : j \in ItemsOf(w)'}
      BY DEF Key
    <3>2. {Key(j) : j \in ItemsOf(v) \cup {i}} = {Key(j) : j \in ItemsOf(v)} \cup {Key(i)}
      OBVIOUS
    <3> QED
      BY <2>2, <3>1, <3>2
  <2>4. Opens(Key(w))' = Opens(Key(w)) \cup IF w = v THEN {Key(i)} ELSE {}
    BY <1>8, <2>1
  <2>5. Written(w)' = Written(w)
    BY <1>7, <2>1
  <2> QED
    BY <2>1, <2>3, <2>4, <2>5
<1>10. ASSUME NEW j \in Papers PROVE Opens(Key(j))' = Written(j)'
  <2>1. Opens(Key(j))' = Opens(Key(j)) \cup IF j = i THEN {t} ELSE {}
    BY <1>8, KeysAssumption
  <2> QED
    BY <1>7, <2>1 DEF PapersInv
<1>11. ChestsInv' /\ PapersInv'
  BY <1>9, <1>10 DEF ChestsInv, PapersInv
<1> QED
  BY <1>5, <1>6, <1>11

\* Wrapping a key for a link, or for an account, touches no vault and no item.
LEMMA KeysKeep ==
  ASSUME KeysInvariant, UNCHANGED <<place, version>>,
         \A x \in Chests \cup Papers : Opens(Key(x))' = Opens(Key(x))
  PROVE  ChestsInv' /\ PapersInv'
<1> USE DEF KeysInvariant
<1>1. \A x : Written(x)' = Written(x)
  BY DEF Written, Text
<1>2. ASSUME NEW w \in Chests PROVE Opens(Key(w))' = (Written(w) \cup {Key(i) : i \in ItemsOf(w)})'
  <2>1. Opens(Key(w)) = Written(w) \cup {Key(i) : i \in ItemsOf(w)}
    BY DEF ChestsInv
  <2>2. {Key(i) : i \in ItemsOf(w)}' = {Key(i) : i \in ItemsOf(w)}
    BY DEF ItemsOf, Key
  <2> QED
    BY <1>1, <2>1, <2>2
<1> QED
  BY <1>1, <1>2 DEF ChestsInv, PapersInv

LEMMA HandingSteps ==
  ASSUME KeysInvariant, NEW l \in Fragments, NEW x \in Chests \cup Papers, HandOut(l, x)
  PROVE  KeysInvariant'
<1> USE DEF KeysInvariant
<1>1. /\ handed[l] = Nobody /\ handed' = [handed EXCEPT ![l] = x]
      /\ Gives({Seal(Key(l), Key(x))})
      /\ UNCHANGED <<secrets, members, place, version>>
  BY DEF HandOut
<1>2. \A q : Opens(q)' = Opens(q) \cup IF q = Key(l) THEN {Key(x)} ELSE {}
  BY <1>1, OpensOne
<1>3. handed'[l] = x /\ \A m \in Fragments \ {l} : handed'[m] = handed[m]
  BY <1>1 DEF SealTypes
<1>4. SealTypes' /\ Unborn'
  BY <1>1, <1>3 DEF SealTypes, Unborn
<1>5. \A y : Opens(Key(y))' = Opens(Key(y)) \cup IF y = l THEN {Key(x)} ELSE {}
  <2> SUFFICES ASSUME NEW y
               PROVE  Opens(Key(y))' = Opens(Key(y)) \cup IF y = l THEN {Key(x)} ELSE {}
    OBVIOUS
  <2>1. PICK q : q = Key(y)
    OBVIOUS
  <2>2. Opens(q)' = Opens(Key(y))'
    BY <2>1 DEF Opens, Key
  <2>3. q = Key(l) <=> y = l
    BY <2>1, KeysDiffer
  <2> QED
    BY <1>2, <2>1, <2>2, <2>3
<1>6. ChestsInv' /\ PapersInv'
  <2>1. \A y \in Chests \cup Papers : Opens(Key(y))' = Opens(Key(y))
    BY <1>5, KeysAssumption
  <2> QED
    BY <1>1, <2>1, KeysKeep
<1>7. FragmentsInv'
  <2> SUFFICES ASSUME NEW m \in Fragments
               PROVE  Opens(Key(m))' = IF handed'[m] = Nobody THEN {} ELSE {Key(handed'[m])}
    BY DEF FragmentsInv, Key
  <2>1. Opens(Key(m)) = IF handed[m] = Nobody THEN {} ELSE {Key(handed[m])}
    BY DEF FragmentsInv
  <2>2. Opens(Key(m))' = Opens(Key(m)) \cup IF m = l THEN {Key(x)} ELSE {}
    BY <1>5
  <2>3. CASE m = l
    BY <1>1, <1>3, <2>1, <2>2, <2>3, KeysAssumption
  <2>4. CASE m # l
    BY <1>3, <2>1, <2>2, <2>4
  <2> QED
    BY <2>3, <2>4
<1>8. ASSUME NEW u, NEW p, NEW f, NEW s PROVE Opens(Enc(u, p, f, s))' = Opens(Enc(u, p, f, s))
  <2>1. PICK q : q = Enc(u, p, f, s)
    OBVIOUS
  <2>2. Opens(q)' = Opens(Enc(u, p, f, s))'
    BY <2>1 DEF Opens, Enc, DeriveKeys
  <2>3. q # Key(l)
    BY <2>1, KeysDiffer
  <2>4. Opens(q)' = Opens(q)
    BY <1>2, <2>3
  <2> QED
    BY <2>1, <2>2, <2>4
<1>9. OwnersInv'
  <2> SUFFICES ASSUME NEW w \in Owners, NEW p \in Passwords, NEW f \in SecretPhrases,
                      secrets[w] # Nobody
               PROVE  Opens(Enc(w, p, f, secrets[w].salt))' =
                        IF p = secrets[w].password /\ f = secrets[w].phrase
                        THEN {Key(y) : y \in VaultsOf(w)} ELSE {}
    BY <1>1 DEF OwnersInv, Key, VaultsOf
  <2>1. PICK s : s = secrets[w].salt
    OBVIOUS
  <2>2. Opens(Enc(w, p, f, secrets[w].salt))' = Opens(Enc(w, p, f, s))'
    BY <1>1, <2>1 DEF Opens, Enc, DeriveKeys
  <2>3. Opens(Enc(w, p, f, secrets[w].salt)) =
          IF p = secrets[w].password /\ f = secrets[w].phrase
          THEN {Key(y) : y \in VaultsOf(w)} ELSE {}
    BY DEF OwnersInv
  <2> QED
    BY <1>8, <2>1, <2>2, <2>3
<1>10. SaltsInv'
  BY <1>1, <1>8 DEF SaltsInv
<1> QED
  BY <1>4, <1>6, <1>7, <1>9, <1>10

\* An account wraps the keys of some vaults, W, under the encryption key of what
\* are its secrets now, a: of a vault it joins, or of all it has, under a new salt.
LEMMA Wrapping ==
  ASSUME KeysInvariant, NEW u \in Owners, NEW a \in Secret, NEW W \in SUBSET Chests,
         Gives({Seal(Enc(u, a.password, a.phrase, a.salt), Key(v)) : v \in W}),
         secrets[u] # Nobody, secrets' = [secrets EXCEPT ![u] = a],
         \/ a = secrets[u] /\ VaultsOf(u)' = VaultsOf(u) \cup W
         \/ secrets[u].salt < a.salt /\ VaultsOf(u)' = W,
         \A w \in Owners \ {u} : VaultsOf(w)' = VaultsOf(w),
         members' \in [Chests -> SUBSET Owners],
         \A v \in Chests : members[v] \subseteq members'[v]
                           /\ members'[v] \subseteq members[v] \cup {u}
                           /\ (members'[v] = {} => members[v] = {}),
         UNCHANGED <<place, version, handed>>
  PROVE  KeysInvariant'
<1> USE DEF KeysInvariant
<1>0. a # Nobody /\ a.salt \in Nat
  BY KeysAssumption DEF Secret
<1>1. PICK k : k = Enc(u, a.password, a.phrase, a.salt)
  OBVIOUS
<1>2. \A q : Opens(q)' = Opens(q) \cup IF q = k THEN {Key(v) : v \in W} ELSE {}
  BY <1>1, OpensMany
<1>3. secrets'[u] = a /\ \A w \in Owners \ {u} : secrets'[w] = secrets[w]
  BY DEF SealTypes
<1>4. SealTypes'
  BY DEF SealTypes
<1>5. Unborn'
  BY <1>0, <1>3 DEF Unborn, SealTypes
<1>6. \A x : Opens(Key(x))' = Opens(Key(x))
  <2> SUFFICES ASSUME NEW x PROVE Opens(Key(x))' = Opens(Key(x))
    OBVIOUS
  <2>1. PICK q : q = Key(x)
    OBVIOUS
  <2>2. Opens(q)' = Opens(Key(x))'
    BY <2>1 DEF Opens, Key
  <2>3. q # k
    BY <1>1, <2>1, KeysDiffer
  <2>4. Opens(q)' = Opens(q)
    BY <1>2, <2>3
  <2> QED
    BY <2>1, <2>2, <2>4
<1>7. ChestsInv' /\ PapersInv'
  BY <1>6, KeysKeep
<1>8. FragmentsInv'
  <2> SUFFICES ASSUME NEW l \in Fragments
               PROVE  Opens(Key(l))' = IF handed[l] = Nobody THEN {} ELSE {Key(handed[l])}
    BY DEF FragmentsInv, Key
  <2> QED
    BY <1>6 DEF FragmentsInv
<1>9. OwnersInv'
  <2> SUFFICES ASSUME NEW w \in Owners, NEW p \in Passwords, NEW f \in SecretPhrases,
                      secrets'[w] # Nobody
               PROVE  Opens(Enc(w, p, f, secrets[w].salt))' =
                        IF p = secrets'[w].password /\ f = secrets'[w].phrase
                        THEN {Key(x) : x \in VaultsOf(w)'} ELSE {}
    BY DEF OwnersInv, Key
  <2>1. PICK q : q = Enc(w, p, f, secrets'[w].salt)
    OBVIOUS
  <2>2. Opens(q)' = Opens(Enc(w, p, f, secrets[w].salt))'
    BY <2>1 DEF Opens, Enc, DeriveKeys
  <2>3. CASE w # u
    <3>1. q # k
      BY <1>1, <2>1, <2>3, KeysDiffer
    <3>2. Opens(q) = IF p = secrets[w].password /\ f = secrets[w].phrase
                     THEN {Key(x) : x \in VaultsOf(w)} ELSE {}
      <4>1. secrets'[w] = secrets[w] /\ q = Enc(w, p, f, secrets[w].salt)
        BY <1>3, <2>1, <2>3
      <4>2. Opens(Enc(w, p, f, secrets[w].salt)) =
              IF p = secrets[w].password /\ f = secrets[w].phrase
              THEN {Key(x) : x \in VaultsOf(w)} ELSE {}
        BY <4>1 DEF OwnersInv
      <4> QED
        BY <4>1, <4>2
    <3>3. Opens(q)' = Opens(q)
      BY <1>2, <3>1
    <3> QED
      BY <1>3, <2>2, <2>3, <3>2, <3>3
  <2>4. CASE w = u
    <3>1. q = k <=> p = a.password /\ f = a.phrase
      BY <1>1, <1>3, <2>1, <2>4, KeysDiffer
    <3>2. Opens(q)' = Opens(q) \cup IF p = a.password /\ f = a.phrase
                                    THEN {Key(v) : v \in W} ELSE {}
      BY <1>2, <3>1
    <3>3. CASE a = secrets[u] /\ VaultsOf(u)' = VaultsOf(u) \cup W
      <4>1. q = Enc(u, p, f, secrets[u].salt)
        BY <1>3, <2>1, <2>4, <3>3
      <4>2. Opens(Enc(u, p, f, secrets[u].salt)) =
              IF p = secrets[u].password /\ f = secrets[u].phrase
              THEN {Key(x) : x \in VaultsOf(u)} ELSE {}
        BY DEF OwnersInv
      <4>3. {Key(x) : x \in VaultsOf(u) \cup W} = {Key(x) : x \in VaultsOf(u)} \cup {Key(x) : x \in W}
        OBVIOUS
      <4>4. Opens(q)' = IF p = a.password /\ f = a.phrase
                        THEN {Key(x) : x \in VaultsOf(u) \cup W} ELSE {}
        BY <3>2, <3>3, <4>1, <4>2, <4>3
      <4> QED
        BY <1>3, <2>2, <2>4, <3>3, <4>4
    <3>4. CASE secrets[u].salt < a.salt /\ VaultsOf(u)' = W
      <4>1. q = Enc(u, p, f, a.salt)
        BY <1>3, <2>1, <2>4
      <4>2. Opens(Enc(u, p, f, a.salt)) = {}
        BY <1>0, <3>4 DEF SaltsInv
      <4>3. Opens(q)' = IF p = a.password /\ f = a.phrase THEN {Key(x) : x \in W} ELSE {}
        BY <3>2, <4>1, <4>2
      <4> QED
        BY <1>3, <2>2, <2>4, <3>4, <4>3
    <3> QED
      BY <3>3, <3>4
  <2> QED
    BY <2>3, <2>4
<1>10. SaltsInv'
  <2> SUFFICES ASSUME NEW w \in Owners, NEW p, NEW f, NEW s \in Nat,
                      secrets'[w] = Nobody \/ secrets'[w].salt < s
               PROVE  Opens(Enc(w, p, f, s))' = {}
    BY DEF SaltsInv
  <2>1. PICK q : q = Enc(w, p, f, s)
    OBVIOUS
  <2>2. Opens(q)' = Opens(Enc(w, p, f, s))'
    BY <2>1 DEF Opens, Enc, DeriveKeys
  <2>3. secrets[w] = Nobody \/ secrets[w].salt < s
    <3>1. secrets[u].salt \in Nat
      BY DEF SealTypes, Secret
    <3> QED
      BY <1>0, <1>3, <3>1
  <2>4. Opens(q) = {}
    BY <2>1, <2>3 DEF SaltsInv
  <2>5. q # k
    <3>1. w = u => s # a.salt
      BY <1>0, <1>3
    <3> QED
      BY <1>1, <2>1, <3>1, KeysDiffer
  <2> QED
    BY <1>2, <2>2, <2>4, <2>5
<1> QED
  BY <1>4, <1>5, <1>7, <1>8, <1>9, <1>10

LEMMA FoundingSteps ==
  ASSUME KeysInvariant, NEW u \in Owners, NEW v \in Chests,
         \/ CreateVaultBundle(u, v)
         \/ \E p \in Passwords, f \in SecretPhrases : CreateCryptoBundle(u, p, f, v)
  PROVE  KeysInvariant'
<1>1. CASE CreateVaultBundle(u, v)
  <2>1. /\ secrets[u] \in Secret
        /\ MintVault(v, u, Enc(u, secrets[u].password, secrets[u].phrase, secrets[u].salt))
        /\ UNCHANGED <<secrets, place, handed, told>>
    BY <1>1 DEF CreateVaultBundle, KeysOf, Enc, KeysInvariant, SealTypes
  <2>2. secrets' = [secrets EXCEPT ![u] = secrets[u]]
    BY <2>1 DEF KeysInvariant, SealTypes
  <2>3. PICK a : a = secrets[u]
    OBVIOUS
  <2> QED
    BY <2>1, <2>2, <2>3, Minting
<1>2. ASSUME NEW p \in Passwords, NEW f \in SecretPhrases, CreateCryptoBundle(u, p, f, v)
      PROVE  KeysInvariant'
  <2>1. /\ secrets[u] = Nobody /\ MintVault(v, u, Enc(u, p, f, 1))
        /\ secrets' = [secrets EXCEPT ![u] = [password |-> p, phrase |-> f, salt |-> 1]]
        /\ UNCHANGED <<place, handed>>
    BY <1>2 DEF CreateCryptoBundle, Prove, Enc
  <2>2. PICK a : a = [password |-> p, phrase |-> f, salt |-> 1]
    OBVIOUS
  <2>3. a \in Secret /\ a.password = p /\ a.phrase = f /\ a.salt = 1
    BY <2>2, KeysAssumption DEF Secret
  <2> QED
    BY <2>1, <2>2, <2>3, Minting
<1> QED
  BY <1>1, <1>2

LEMMA JoiningSteps ==
  ASSUME KeysInvariant, NEW u \in Owners, NEW l \in Fragments, AcceptInvite(u, l)
  PROVE  KeysInvariant'
<1>1. PICK v : v = handed[l]
  OBVIOUS
<1>2. /\ secrets[u] # Nobody /\ v \in Chests
      /\ members' = [members EXCEPT ![v] = members[v] \cup {u}]
      /\ Gives({Seal(Enc(u, secrets[u].password, secrets[u].phrase, secrets[u].salt), Key(v))})
      /\ UNCHANGED <<secrets, place, version, handed>>
  BY <1>1 DEF AcceptInvite, KeysOf, Enc
<1>3. PICK a : a = secrets[u]
  OBVIOUS
<1>4. a \in Secret /\ secrets' = [secrets EXCEPT ![u] = a]
  BY <1>2, <1>3 DEF KeysInvariant, SealTypes
<1>5. PICK W : W = {v}
  OBVIOUS
<1>6. Gives({Seal(Enc(u, a.password, a.phrase, a.salt), Key(w)) : w \in W})
  <2>1. {Seal(Enc(u, a.password, a.phrase, a.salt), Key(w)) : w \in {v}}
          = {Seal(Enc(u, a.password, a.phrase, a.salt), Key(v))}
    OBVIOUS
  <2> QED
    BY <1>2, <1>3, <1>5, <2>1
<1>7. /\ members \in [Chests -> SUBSET Owners]
      /\ members'[v] = members[v] \cup {u} /\ \A w \in Chests \ {v} : members'[w] = members[w]
  BY <1>2 DEF KeysInvariant, SealTypes
<1>8. VaultsOf(u)' = VaultsOf(u) \cup W /\ \A w \in Owners \ {u} : VaultsOf(w)' = VaultsOf(w)
  BY <1>2, <1>5, <1>7 DEF VaultsOf
<1>9. members' \in [Chests -> SUBSET Owners] /\ W \in SUBSET Chests
  BY <1>2, <1>5, <1>7
<1>10. \A w \in Chests : members[w] \subseteq members'[w] /\ members'[w] \subseteq members[w] \cup {u}
                         /\ (members'[w] = {} => members[w] = {})
  BY <1>7
<1>11. UNCHANGED <<place, version, handed>>
  BY <1>2
<1>12. secrets[u] # Nobody /\ a = secrets[u] /\ VaultsOf(u)' = VaultsOf(u) \cup W
  BY <1>2, <1>3, <1>8
<1> QED
  BY <1>4, <1>6, <1>8, <1>9, <1>10, <1>11, <1>12, Wrapping

LEMMA ChangingSteps ==
  ASSUME KeysInvariant, NEW u \in Owners, NEW p \in Passwords, ChangePassword(u, p)
  PROVE  KeysInvariant'
<1>1. PICK a : a = [password |-> p, phrase |-> secrets[u].phrase, salt |-> secrets[u].salt + 1]
  OBVIOUS
<1>2. PICK W : W = VaultsOf(u)
  OBVIOUS
<1>3. /\ secrets[u] \in Secret /\ secrets[u] # Nobody /\ secrets[u].salt < MaxVersions
      /\ UNCHANGED <<members, place, version, handed>>
  BY DEF ChangePassword, KeysInvariant, SealTypes
<1>4. a \in Secret /\ secrets[u].salt < a.salt
      /\ a.password = p /\ a.phrase = secrets[u].phrase /\ a.salt = secrets[u].salt + 1
  BY <1>1, <1>3, KeysAssumption DEF Secret
<1>5. secrets' = [secrets EXCEPT ![u] = a]
  BY <1>1 DEF ChangePassword, Prove
<1>6. Gives({Seal(Enc(u, a.password, a.phrase, a.salt), Key(v)) : v \in W})
  BY <1>2, <1>4 DEF ChangePassword, VaultsOf, Enc
<1>7. VaultsOf(u)' = W /\ \A w \in Owners \ {u} : VaultsOf(w)' = VaultsOf(w)
  BY <1>2, <1>3 DEF VaultsOf
<1>8. /\ members' \in [Chests -> SUBSET Owners] /\ W \in SUBSET Chests
      /\ \A v \in Chests : members[v] \subseteq members'[v] /\ members'[v] \subseteq members[v] \cup {u}
                           /\ (members'[v] = {} => members[v] = {})
  BY <1>2, <1>3 DEF KeysInvariant, SealTypes, VaultsOf
<1> QED
  BY <1>3, <1>4, <1>5, <1>6, <1>7, <1>8, Wrapping

LEMMA KeysInductive ==
  KeysInvariant /\ [SealNext]_sealVars => KeysInvariant'
<1> SUFFICES ASSUME KeysInvariant, [SealNext]_sealVars PROVE KeysInvariant'
  OBVIOUS
<1>1. ASSUME NEW u \in Owners, NEW v \in Chests, CreateVaultBundle(u, v) PROVE KeysInvariant'
  BY <1>1, FoundingSteps
<1>2. ASSUME NEW u \in Owners, NEW v \in Chests, NEW p \in Passwords, NEW f \in SecretPhrases,
             CreateCryptoBundle(u, p, f, v)
      PROVE  KeysInvariant'
  BY <1>2, FoundingSteps
<1>3. ASSUME NEW v \in Chests, SealVaultName(v) PROVE KeysInvariant'
  BY <1>3, NamingSteps
<1>4. ASSUME NEW i \in Papers, NEW v \in Chests, SealItem(i, v) PROVE KeysInvariant'
  BY <1>4, FilingSteps
<1>5. ASSUME NEW i \in Papers, UpdateItem(i) PROVE KeysInvariant'
  BY <1>5, EditingSteps
<1>6. ASSUME NEW l \in Fragments, NEW i \in Papers, CreateLink(l, i) PROVE KeysInvariant'
  BY <1>6, HandingSteps DEF CreateLink
<1>7. ASSUME NEW l \in Fragments, NEW v \in Chests, CreateInvite(l, v) PROVE KeysInvariant'
  BY <1>7, HandingSteps DEF CreateInvite
<1>8. ASSUME NEW u \in Owners, NEW l \in Fragments, AcceptInvite(u, l) PROVE KeysInvariant'
  BY <1>8, JoiningSteps
<1>9. ASSUME NEW u \in Owners, NEW p \in Passwords, ChangePassword(u, p) PROVE KeysInvariant'
  BY <1>9, ChangingSteps
<1>10. CASE UNCHANGED sealVars
  <2>1. UNCHANGED <<secrets, members, place, version, handed, sent>>
    BY <1>10 DEF sealVars
  <2>2. \A q : Opens(q)' = Opens(q)
    BY <2>1 DEF Opens
  <2>3. \A x : Opens(Key(x))' = Opens(Key(x))
    BY <2>1 DEF Opens, Key
  <2>4. FragmentsInv' /\ OwnersInv' /\ SaltsInv'
    BY <2>1, <2>2, OthersKeep
  <2>5. ChestsInv' /\ PapersInv'
    BY <2>1, <2>3, KeysKeep
  <2>6. SealTypes' /\ Unborn'
    BY <2>1 DEF KeysInvariant, SealTypes, Unborn
  <2> QED
    BY <2>4, <2>5, <2>6 DEF KeysInvariant
<1> QED
  BY <1>1, <1>2, <1>3, <1>4, <1>5, <1>6, <1>7, <1>8, <1>9, <1>10 DEF SealNext

LEMMA KeysStart == SealInit => KeysInvariant
<1> SUFFICES ASSUME SealInit PROVE KeysInvariant
  OBVIOUS
<1>1. \A q : Opens(q) = {}
  BY DEF SealInit, Opens
<1>2. SealTypes /\ Unborn
  BY DEF SealInit, SealTypes, Unborn
<1>3. \A x \in Chests \cup Papers : Written(x) = {}
  <2>1. \A x \in Chests \cup Papers : 1..version[x] = {}
    BY DEF SealInit
  <2> QED
    BY <2>1 DEF Written
<1>4. \A v \in Chests : ItemsOf(v) = {}
  BY KeysAssumption DEF SealInit, ItemsOf
<1> QED
  BY <1>1, <1>2, <1>3, <1>4 DEF KeysInvariant, ChestsInv, PapersInv, FragmentsInv, OwnersInv,
                                SaltsInv, SealInit

------------------------------------------------------------------------
(* What the server is told, and under what things are sealed.              *)

\* The server is told only keys that prove an account, and no envelope is ever
\* sealed under one of those, or under a text.
ProvesOnly == \A t \in told : t[1] = "auth"
SealedUnderKeys == \A e \in sent : e.under[1] \in {"key", "enc"}
ToldInv == ProvesOnly /\ SealedUnderKeys

LEMMA KeysAreNoProofs ==
  ASSUME NEW x, NEW y, NEW z, NEW w
  PROVE  /\ Key(x)[1] = "key"
         /\ DeriveKeys(x, y, z, w).encKey[1] = "enc"
         /\ DeriveKeys(x, y, z, w).authKey[1] = "auth"
BY DEF Key, DeriveKeys

LEMMA EnvelopesKeep ==
  ASSUME SealedUnderKeys, NEW E, Gives(E), \A e \in E : e.under[1] \in {"key", "enc"}
  PROVE  SealedUnderKeys'
BY DEF SealedUnderKeys, Gives

LEMMA ProofsKeep ==
  ASSUME ProvesOnly, NEW u, NEW p, NEW f, NEW s, Prove(u, p, f, s)
  PROVE  ProvesOnly'
BY KeysAreNoProofs DEF ProvesOnly, Prove

LEMMA MintsUnderKeys ==
  ASSUME SealedUnderKeys, NEW v, NEW u, NEW k, k[1] = "enc", MintVault(v, u, k)
  PROVE  SealedUnderKeys'
<1>1. Gives({Seal(k, Key(v)), Seal(Key(v), Text(v, 1))})
  BY DEF MintVault
<1>2. \A e \in {Seal(k, Key(v)), Seal(Key(v), Text(v, 1))} : e.under[1] \in {"key", "enc"}
  BY SealedUnder, KeysAreNoProofs
<1> QED
  BY <1>1, <1>2, EnvelopesKeep

\* Every envelope the pages make is under a minted key or an encryption key.
LEMMA ToldInductive == ToldInv /\ [SealNext]_sealVars => ToldInv'
<1> SUFFICES ASSUME ToldInv, [SealNext]_sealVars PROVE ToldInv'
  OBVIOUS
<1> USE DEF ToldInv
<1>1. ASSUME NEW u \in Owners, NEW v \in Chests, CreateVaultBundle(u, v)
      PROVE  ToldInv'
  <2>1. KeysOf(u).encKey[1] = "enc"
    BY KeysAreNoProofs DEF KeysOf
  <2>2. SealedUnderKeys'
    BY <1>1, <2>1, MintsUnderKeys DEF CreateVaultBundle
  <2> QED
    BY <1>1, <2>2 DEF CreateVaultBundle, ProvesOnly
<1>2. ASSUME NEW u \in Owners, NEW v \in Chests, NEW p \in Passwords,
             NEW f \in SecretPhrases, CreateCryptoBundle(u, p, f, v)
      PROVE  ToldInv'
  <2>1. SealedUnderKeys'
    BY <1>2, KeysAreNoProofs, MintsUnderKeys DEF CreateCryptoBundle
  <2>2. ProvesOnly'
    BY <1>2, ProofsKeep DEF CreateCryptoBundle
  <2> QED
    BY <2>1, <2>2
<1>3. ASSUME NEW v \in Chests, SealVaultName(v)
      PROVE  ToldInv'
  <2>1. Gives({Seal(Key(v), Text(v, version[v] + 1))}) /\ UNCHANGED told
    BY <1>3 DEF SealVaultName, Write
  <2>2. \A e \in {Seal(Key(v), Text(v, version[v] + 1))} : e.under[1] \in {"key", "enc"}
    BY SealedUnder, KeysAreNoProofs
  <2> QED
    BY <2>1, <2>2, EnvelopesKeep DEF ProvesOnly
<1>4. ASSUME NEW i \in Papers, NEW v \in Chests, SealItem(i, v)
      PROVE  ToldInv'
  <2>1. Gives({Seal(Key(v), Key(i)), Seal(Key(i), Text(i, 1))}) /\ UNCHANGED told
    BY <1>4 DEF SealItem, Write
  <2>2. \A e \in {Seal(Key(v), Key(i)), Seal(Key(i), Text(i, 1))} :
          e.under[1] \in {"key", "enc"}
    BY SealedUnder, KeysAreNoProofs
  <2> QED
    BY <2>1, <2>2, EnvelopesKeep DEF ProvesOnly
<1>5. ASSUME NEW i \in Papers, UpdateItem(i)
      PROVE  ToldInv'
  <2>1. Gives({Seal(Key(i), Text(i, version[i] + 1))}) /\ UNCHANGED told
    BY <1>5 DEF UpdateItem, Write
  <2>2. \A e \in {Seal(Key(i), Text(i, version[i] + 1))} : e.under[1] \in {"key", "enc"}
    BY SealedUnder, KeysAreNoProofs
  <2> QED
    BY <2>1, <2>2, EnvelopesKeep DEF ProvesOnly
<1>6. ASSUME NEW l \in Fragments, NEW x, HandOut(l, x)
      PROVE  ToldInv'
  <2>1. Gives({Seal(Key(l), Key(x))}) /\ UNCHANGED told
    BY <1>6 DEF HandOut
  <2>2. \A e \in {Seal(Key(l), Key(x))} : e.under[1] \in {"key", "enc"}
    BY SealedUnder, KeysAreNoProofs
  <2> QED
    BY <2>1, <2>2, EnvelopesKeep DEF ProvesOnly
<1>7. ASSUME NEW u \in Owners, NEW l \in Fragments, AcceptInvite(u, l)
      PROVE  ToldInv'
  <2>1. Gives({Seal(KeysOf(u).encKey, Key(handed[l]))}) /\ UNCHANGED told
    BY <1>7 DEF AcceptInvite
  <2>2. \A e \in {Seal(KeysOf(u).encKey, Key(handed[l]))} : e.under[1] \in {"key", "enc"}
    BY SealedUnder, KeysAreNoProofs DEF KeysOf
  <2> QED
    BY <2>1, <2>2, EnvelopesKeep DEF ProvesOnly
<1>8. ASSUME NEW u \in Owners, NEW p \in Passwords, ChangePassword(u, p)
      PROVE  ToldInv'
  <2> DEFINE salt == secrets[u].salt + 1
             enc == DeriveKeys(u, p, secrets[u].phrase, salt).encKey
             E == {Seal(enc, Key(v)) : v \in {w \in Chests : u \in members[w]}}
  <2>1. Prove(u, p, secrets[u].phrase, salt) /\ Gives(E)
    BY <1>8 DEF ChangePassword
  <2>2. enc[1] = "enc"
    BY KeysAreNoProofs
  <2> HIDE DEF enc
  <2>3. \A e \in E : e.under[1] \in {"key", "enc"}
    BY <2>2, SealedUnder
  <2> HIDE DEF E, salt
  <2> QED
    BY <2>1, <2>3, EnvelopesKeep, ProofsKeep
<1>9. CASE UNCHANGED sealVars
  BY <1>9 DEF sealVars, ProvesOnly, SealedUnderKeys
<1> QED
  BY <1>1, <1>2, <1>3, <1>4, <1>5, <1>6, <1>7, <1>8, <1>9
  DEF SealNext, CreateLink, CreateInvite

------------------------------------------------------------------------
(* Reading.                                                                *)

LEMMA UnsealsTo ==
  ASSUME NEW A, NEW t
  PROVE  t \in Unseal(A) <=> t \in A \/ \E k \in A : t \in Opens(k)
BY DEF Unseal, Opens

LEMMA UnsealJoins ==
  ASSUME NEW A, NEW B
  PROVE  Unseal(A \cup B) = Unseal(A) \cup Unseal(B) /\ A \subseteq Unseal(A)
BY DEF Unseal

\* Nothing opens under a proof or a text.
LEMMA NothingUnder ==
  ASSUME ToldInv, NEW k, k[1] \notin {"key", "enc"}
  PROVE  Opens(k) = {}
BY DEF ToldInv, SealedUnderKeys, Opens

LEMMA TextsOpenNothing ==
  ASSUME ToldInv, NEW T, \A t \in T : t[1] = "text"
  PROVE  Unseal(T) = T
<1>1. ASSUME NEW t \in T PROVE Opens(t) = {}
  <2>1. t[1] \notin {"key", "enc"}
    OBVIOUS
  <2> QED
    BY <2>1, NothingUnder
<1>2. \A t : t \in Unseal(T) <=> t \in T
  BY <1>1, UnsealsTo
<1> QED
  BY <1>2 DEF Unseal

\* What the server was told adds nothing to what a key reads.
LEMMA ReadsAre ==
  ASSUME ToldInv, NEW A
  PROVE  Reads(A) = {t \in Unsealed(A) : t[1] = "text"}
<1>1. \A k \in told : k[1] = "auth" /\ Opens(k) = {}
  BY NothingUnder DEF ToldInv, ProvesOnly
<1>2. Unseal(told) = told
  BY <1>1, UnsealsTo
<1>3. Unsealed(A \cup told) = Unsealed(A) \cup told
  BY <1>2, UnsealJoins DEF Unsealed
<1> QED
  BY <1>1, <1>3 DEF Reads

\* What one key opens is read one envelope later.
LEMMA FirstEnvelope ==
  ASSUME NEW k, NEW B, Opens(k) = B
  PROVE  Unsealed({k}) = {k} \cup Unseal(Unseal(B))
<1>1. Unseal({k}) = {k} \cup B
  BY UnsealsTo
<1>2. Unseal(Unseal({k})) = {k} \cup Unseal(B)
  BY <1>1, UnsealJoins
<1>3. Unseal({k} \cup Unseal(B)) = {k} \cup B \cup Unseal(Unseal(B))
  BY <1>1, UnsealJoins
<1>4. B \subseteq Unseal(Unseal(B))
  BY UnsealJoins
<1> QED
  BY <1>2, <1>3, <1>4 DEF Unsealed

\* Vault keys open the names of the vaults and the keys of their items, which
\* open the items.
LEMMA VaultsOpen ==
  ASSUME KeysInvariant, ToldInv, NEW M \in SUBSET Chests
  PROVE  {t \in Unseal(Unseal({Key(v) : v \in M})) : t[1] = "text"} = UNION {Contents(v) : v \in M}
<1>1. PICK K : K = {Key(v) : v \in M}
  OBVIOUS
<1>2. PICK I : I = {Key(i) : i \in {j \in Papers : place[j] \in M}}
  OBVIOUS
<1>3. PICK N : N = UNION {Written(v) : v \in M}
  OBVIOUS
<1>4. PICK C : C = UNION {Written(i) : i \in {j \in Papers : place[j] \in M}}
  OBVIOUS
<1>5. Unseal(K) = K \cup N \cup I
  <2> SUFFICES ASSUME NEW t PROVE t \in Unseal(K) <=> t \in K \cup N \cup I
    OBVIOUS
  <2>1. (\E k \in K : t \in Opens(k)) <=> \E v \in M : t \in Opens(Key(v))
    BY <1>1
  <2>2. \A v \in M : t \in Opens(Key(v)) <=>
                       t \in Written(v) \/ \E i \in Papers : place[i] = v /\ t = Key(i)
    BY DEF KeysInvariant, ChestsInv, ItemsOf
  <2>3. t \in N <=> \E v \in M : t \in Written(v)
    BY <1>3
  <2>4. t \in I <=> \E i \in Papers : place[i] \in M /\ t = Key(i)
    BY <1>2
  <2> QED
    BY <2>1, <2>2, <2>3, <2>4, UnsealsTo
<1>6. Unseal(I) = I \cup C
  <2> SUFFICES ASSUME NEW t PROVE t \in Unseal(I) <=> t \in I \cup C
    OBVIOUS
  <2>1. (\E k \in I : t \in Opens(k)) <=> \E i \in Papers : place[i] \in M /\ t \in Opens(Key(i))
    BY <1>2
  <2>2. \A i \in Papers : Opens(Key(i)) = Written(i)
    BY DEF KeysInvariant, PapersInv
  <2>3. t \in C <=> \E i \in Papers : place[i] \in M /\ t \in Written(i)
    BY <1>4
  <2> QED
    BY <2>1, <2>2, <2>3, UnsealsTo
<1>7. \A x : \A t \in Written(x) : t[1] = "text"
  BY KeysDiffer DEF Written
<1>8. (\A t \in N \cup C : t[1] = "text") /\ \A t \in K \cup I : t[1] # "text"
  BY <1>1, <1>2, <1>3, <1>4, <1>7, KeysDiffer
<1>9. Unseal(N) = N
  BY <1>8, TextsOpenNothing
<1>10. Unseal(Unseal(K)) = K \cup I \cup N \cup C
  <2>1. Unseal((K \cup N) \cup I) = Unseal(K \cup N) \cup Unseal(I)
    BY UnsealJoins
  <2>2. Unseal(K \cup N) = Unseal(K) \cup Unseal(N)
    BY UnsealJoins
  <2> QED
    BY <1>5, <1>6, <1>9, <2>1, <2>2
<1>11. UNION {Contents(v) : v \in M} = N \cup C
  <2> SUFFICES ASSUME NEW t PROVE t \in UNION {Contents(v) : v \in M} <=> t \in N \cup C
    OBVIOUS
  <2>1. \A v \in M : t \in Contents(v) <=>
                       t \in Written(v) \/ \E i \in Papers : place[i] = v /\ t \in Written(i)
    BY DEF Contents
  <2> QED
    BY <1>3, <1>4, <2>1
<1> QED
  BY <1>1, <1>8, <1>10, <1>11

\* A key that opens some vault keys reads those vaults.
LEMMA ReadsVaults ==
  ASSUME KeysInvariant, ToldInv, NEW k, k[1] # "text", NEW M \in SUBSET Chests,
         Opens(k) = {Key(v) : v \in M}
  PROVE  Reads({k}) = UNION {Contents(v) : v \in M}
<1>1. Unsealed({k}) = {k} \cup Unseal(Unseal({Key(v) : v \in M}))
  BY FirstEnvelope
<1> QED
  BY <1>1, VaultsOpen, ReadsAre

\* An item's key opens the item, and nothing else.
LEMMA ReadsItem ==
  ASSUME KeysInvariant, ToldInv, NEW k, k[1] # "text", NEW i \in Papers, Opens(k) = {Key(i)}
  PROVE  Reads({k}) = Written(i)
<1>1. Unseal({Key(i)}) = {Key(i)} \cup Written(i)
  BY UnsealsTo DEF KeysInvariant, PapersInv
<1>2. \A t \in Written(i) : t[1] = "text"
  BY KeysDiffer DEF Written
<1>3. Unseal(Unseal({Key(i)})) = {Key(i)} \cup Written(i)
  <2>1. Unseal({Key(i)} \cup Written(i)) = Unseal({Key(i)}) \cup Unseal(Written(i))
    BY UnsealJoins
  <2>2. Unseal(Written(i)) = Written(i)
    BY <1>2, TextsOpenNothing
  <2> QED
    BY <1>1, <2>1, <2>2
<1>4. Unsealed({k}) = {k} \cup {Key(i)} \cup Written(i)
  BY <1>3, FirstEnvelope
<1>5. PICK c : c = Key(i) /\ c[1] # "text"
  BY KeysDiffer
<1>6. {t \in Unsealed({k}) : t[1] = "text"} = Written(i)
  BY <1>2, <1>4, <1>5
<1> QED
  BY <1>6, ReadsAre

LEMMA ServerReadsNone == ToldInv => ServerReadsNothing
<1> SUFFICES ASSUME ToldInv PROVE Reads({}) = {}
  BY DEF ServerReadsNothing
<1>1. Unseal({}) = {}
  BY UnsealsTo
<1> QED
  BY <1>1, ReadsAre DEF Unsealed

LEMMA SecretsRead == KeysInvariant /\ ToldInv => SecretsOpenTheVaults
<1> SUFFICES ASSUME KeysInvariant, ToldInv PROVE SecretsOpenTheVaults
  OBVIOUS
<1>1. ASSUME NEW u \in Owners, secrets[u] # Nobody, NEW p \in Passwords, NEW f \in SecretPhrases
      PROVE  Reads({DeriveKeys(u, p, f, secrets[u].salt).encKey}) =
               IF p = secrets[u].password /\ f = secrets[u].phrase
               THEN UNION {Contents(v) : v \in {w \in Chests : u \in members[w]}}
               ELSE {}
  <2>1. PICK k : k = Enc(u, p, f, secrets[u].salt)
    OBVIOUS
  <2>2. k[1] # "text" /\ k = DeriveKeys(u, p, f, secrets[u].salt).encKey
    BY <2>1, KeysDiffer DEF Enc
  <2>3. Opens(k) = IF p = secrets[u].password /\ f = secrets[u].phrase
                   THEN {Key(v) : v \in VaultsOf(u)} ELSE {}
    BY <1>1, <2>1 DEF KeysInvariant, OwnersInv
  <2>4. CASE p = secrets[u].password /\ f = secrets[u].phrase
    <3>1. VaultsOf(u) \in SUBSET Chests /\ Opens(k) = {Key(v) : v \in VaultsOf(u)}
      BY <2>3, <2>4 DEF VaultsOf
    <3>2. Reads({k}) = UNION {Contents(v) : v \in VaultsOf(u)}
      BY <2>2, <3>1, ReadsVaults
    <3> QED
      BY <2>2, <2>4, <3>2 DEF VaultsOf
  <2>5. CASE ~ (p = secrets[u].password /\ f = secrets[u].phrase)
    <3>1. Opens(k) = {Key(v) : v \in {}}
      BY <2>3, <2>5
    <3>2. Reads({k}) = UNION {Contents(v) : v \in {}}
      BY <2>2, <3>1, ReadsVaults
    <3>3. UNION {Contents(v) : v \in {}} = {}
      OBVIOUS
    <3> QED
      BY <2>2, <2>5, <3>2, <3>3
  <2> QED
    BY <2>4, <2>5
<1> QED
  BY <1>1, ServerReadsNone DEF SecretsOpenTheVaults

LEMMA LinksRead == KeysInvariant /\ ToldInv => LinksOpenOneThing
<1> SUFFICES ASSUME KeysInvariant, ToldInv, NEW l \in Fragments, handed[l] # Nobody
             PROVE  Reads({Key(l)}) = IF handed[l] \in Papers THEN Written(handed[l])
                                      ELSE Contents(handed[l])
  BY DEF LinksOpenOneThing
<1>1. PICK k, x : k = Key(l) /\ x = handed[l]
  OBVIOUS
<1>2. k[1] # "text" /\ Opens(k) = {Key(x)}
  BY <1>1, KeysDiffer DEF KeysInvariant, FragmentsInv
<1>3. CASE x \in Papers
  BY <1>1, <1>2, <1>3, ReadsItem
<1>4. CASE x \notin Papers
  <2>1. x \in Chests
    BY <1>1, <1>4 DEF KeysInvariant, SealTypes
  <2>2. {Key(v) : v \in {x}} = {Key(x)} /\ UNION {Contents(v) : v \in {x}} = Contents(x)
    OBVIOUS
  <2>3. Reads({k}) = UNION {Contents(v) : v \in {x}}
    BY <1>2, <2>1, <2>2, ReadsVaults
  <2> QED
    BY <1>1, <1>4, <2>2, <2>3
<1> QED
  BY <1>3, <1>4

LEMMA SealingInvariant == SealSpec => [](KeysInvariant /\ ToldInv)
<1>1. SealInit => ToldInv
  BY DEF SealInit, ToldInv, ProvesOnly, SealedUnderKeys
<1> QED
  BY <1>1, KeysStart, KeysInductive, ToldInductive, PTL DEF SealSpec

\* "The server, holding everything else, cannot" decrypt.
THEOREM ServerIsBlind == SealSpec => []ServerReadsNothing
BY SealingInvariant, ServerReadsNone, PTL

\* Whoever types an account's password and Secret Phrase reads exactly the vaults
\* it is a member of, with either of them wrong nothing, and the server reads
\* nothing, whatever was invited, edited and changed before.
THEOREM SecretsOpenExactly == SealSpec => []SecretsOpenTheVaults
BY SealingInvariant, SecretsRead, PTL

\* A share link opens its item, in every version, and an invite its vault, and
\* neither opens anything else.
THEOREM LinksOpenExactly == SealSpec => []LinksOpenOneThing
BY SealingInvariant, LinksRead, PTL
=============================================================================
