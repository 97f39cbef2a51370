------------------------------ MODULE MCSignIn ------------------------------
(***************************************************************************)
(* Finite instances, for TLC, of signing in (SignIn) and of what the       *)
(* secrets typed there open (Sealing).                                     *)
(*                                                                         *)
(* The two state machines share no variable, so a behaviour of both is one *)
(* of each; a run follows one of them and leaves the other at its start.   *)
(***************************************************************************)
EXTENDS SignIn, Sealing, TLC

VARIABLE turn  \* what a behaviour is about

JointInit == Init /\ SealInit /\ turn \in {"sign-in", "sealing"}

SignInTurn == turn = "sign-in" /\ Next /\ UNCHANGED <<sealVars, turn>>
SealTurn == turn = "sealing" /\ SealNext /\ UNCHANGED <<vars, turn>>

\* Every vault, link and version of the instance is used up.
Terminating ==
  /\ turn = "sealing" /\ ~ENABLED SealNext
  /\ UNCHANGED <<vars, sealVars, turn>>

JointSpec ==
  JointInit /\ [][SignInTurn \/ SealTurn \/ Terminating]_<<vars, sealVars, turn>>

\* The two machines' ids are the same model values.
SignInSymmetry ==
  Permutations(Tokens) \cup Permutations(Secrets) \cup
  Permutations(Phrases) \cup Permutations(Links)

WordValues == <<"ape", "bee">>
PhraseValues == {<<"ape", "bee">>, <<"bee", "bee">>}

------------------------------------------------------------------------
(* The pure functions against what they should compute.                    *)

\* Every word is drawn equally often, and a phrase that was generated is
\* accepted however its words are capitalised and spaced; one that misses a
\* word, or has another word in it, is not.
ASSUME WordsAreUniform ==
  \A i, j \in DOMAIN WORDLIST :
    LET Draws(k) == {d \in 0..(2^DrawWidth - 1) :
                       GenerateSecretPhrase([n \in 1..PhraseWords |-> d])[1] = WORDLIST[k]}
    IN  Draws(i) # {} /\ Cardinality(Draws(i)) = Cardinality(Draws(j))

ASSUME PhrasesReadAsGenerated ==
  \A typed \in BoundedSeq({Gap} \cup {Typed(w, c) : w \in {"ape", "bee", "cow"}, c \in BOOLEAN}, 4) :
    ValidateSecretPhrase(typed) <=>
      NormalizeSecretPhrase(typed) \in
        {GenerateSecretPhrase(draws) : draws \in [1..PhraseWords -> 0..(2^DrawWidth - 1)]}

\* A fragment reads as it was composed; one that lost its end, its token or a
\* part of its key, or gained a full stop, is refused.
ASSUME FragmentsReadAsComposed ==
  LET LinkKeys == [1..KeyLength -> {"k", "x"}]
      Read(f) == ParseLinkFragment(f)
      Fragment(t, k) == ComposeLinkFragment(t, k)
  IN  \A t \in {<<"t">>, <<"t", "k">>}, k \in LinkKeys :
        /\ Read(<<"#">> \o Fragment(t, k)) = [token |-> t, key |-> k]
        /\ \A n \in 0..(Len(Fragment(t, k)) - 1) : Read(SubSeq(Fragment(t, k), 1, n)) = Nobody
        /\ \A n \in (Len(t) + 1)..Len(Fragment(t, k)) :
             Read(SubSeq(Fragment(t, k), n, Len(Fragment(t, k)))) = Nobody
        /\ Read(Append(Fragment(t, k), ".")) = Nobody
=============================================================================
