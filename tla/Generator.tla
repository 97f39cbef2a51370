------------------------------ MODULE Generator ------------------------------
(***************************************************************************)
(* The password generator of generator.ts: the classes a password may draw *)
(* from, rejection sampling, and the characters every class is guaranteed. *)
(***************************************************************************)
EXTENDS FiniteSets, Integers, SequencesExt

CONSTANTS LOWER, UPPER, DIGITS, SYMBOLS,   \* the alphabets
          Latin,                           \* every letter there is
          MinLength,                       \* 8 in the code
          DrawBits                         \* the width of a random draw: 32

ASSUME GeneratorAssumption ==
  /\ MinLength > 3 /\ DrawBits \in Nat
  /\ \A a, b \in {LOWER, UPPER, DIGITS, SYMBOLS} : a # {} /\ (a = b \/ a \cap b = {})
  /\ LOWER \cup UPPER \subseteq Latin /\ Latin \cap (DIGITS \cup SYMBOLS) = {}

ClassOrder == <<"letters", "digits", "symbols">>
CLASS_ALPHABETS == [letters |-> LOWER \cup UPPER, digits |-> DIGITS, symbols |-> SYMBOLS]
Options == [letters: BOOLEAN, digits: BOOLEAN, symbols: BOOLEAN, length: 0..(MinLength + 1)]

EnabledClasses(options) ==
  LET chosen == SelectSeq(ClassOrder, LAMBDA name : options[name])
  IN  IF chosen = <<>> THEN <<"letters">> ELSE chosen

\* Characters outside every alphabet count as symbols, a zero too.
Classify(ch) ==
  CASE ch \in DIGITS -> "digits" [] ch \in Latin -> "letters" [] OTHER -> "symbols"

\* The draws uniformInt accepts for each result.
DrawsFor(result, max) ==
  LET limit == (2^DrawBits \div max) * max
  IN  {draw \in 0..(2^DrawBits - 1) : draw < limit /\ draw % max = result}

\* One guaranteed character per class, letters in both cases.
Required(options) ==
  FlattenSeq([i \in DOMAIN EnabledClasses(options) |->
    IF EnabledClasses(options)[i] = "letters" THEN <<LOWER, UPPER>>
    ELSE <<CLASS_ALPHABETS[EnabledClasses(options)[i]]>>])

Length(options) == IF options.length < MinLength THEN MinLength ELSE options.length
Alphabet(options) == UNION {CLASS_ALPHABETS[name] : name \in ToSet(EnabledClasses(options))}

\* Every password the draws can make: free characters, and the guaranteed ones
\* woven in anywhere.
GeneratePassword(options) ==
  LET free == [1..(Length(options) - Len(Required(options))) -> Alphabet(options)]
      Weave(passwords, alphabet) ==
        UNION {{InsertAt(p, i, ch) : i \in 1..(Len(p) + 1), ch \in alphabet} : p \in passwords}
  IN  FoldLeft(Weave, free, Required(options))

\* What the generator's options promise.
Meets(options, p) ==
  /\ Len(p) = Length(options) /\ ToSet(p) \subseteq Alphabet(options)
  /\ \A name \in ToSet(EnabledClasses(options)) :
       \E i \in DOMAIN p : Classify(p[i]) = name
  /\ "letters" \in ToSet(EnabledClasses(options)) =>
       ToSet(p) \cap LOWER # {} /\ ToSet(p) \cap UPPER # {}

\* The panel never lets the last class go.
Toggle(options, name) ==
  IF EnabledClasses(options) = <<name>> THEN options
  ELSE [options EXCEPT ![name] = ~@]
==============================================================================
