------------------------------ MODULE MCPanels ------------------------------
(***************************************************************************)
(* Finite instances, for TLC, of the panels of the vault page: the dialogs *)
(* that hand out links (LinkDialogs), and the item form (ItemForm) with    *)
(* the seed reader (Totp) and the generator (Generator) beside it.         *)
(*                                                                         *)
(* The two state machines share no variable, so a behaviour of both is one *)
(* of each; a run follows one of them and leaves the other at its start.   *)
(***************************************************************************)
EXTENDS LinkDialogs, ItemForm, Generator, TLC

VARIABLE turn  \* the panel a behaviour is about

PanelsInit == LinksInit /\ FormInit /\ turn \in {"links", "form"}

LinksTurn == turn = "links" /\ LinksNext /\ UNCHANGED <<formVars, turn>>
FormTurn == turn = "form" /\ FormNext /\ UNCHANGED <<linkVars, turn>>

PanelsSpec == PanelsInit /\ [][LinksTurn \/ FormTurn]_<<linkVars, formVars, turn>>

PanelsSymmetry ==
  Permutations(Items) \cup Permutations(Vaults) \cup Permutations(Links)
    \cup Permutations(Safes)

\* One that is stored in a form of its own, and one that is refused.
SeedValues == {Bare(<<1, Separator, 2>>), Bare(<<9>>)}
Alphabet4(c) == CASE c = "lower" -> {"a"} [] c = "upper" -> {"A"}
                  [] c = "digit" -> {"2"} [] OTHER -> {"!"}
LowerValue == Alphabet4("lower")
UpperValue == Alphabet4("upper")
DigitValue == Alphabet4("digit")
SymbolValue == Alphabet4("symbol")
LatinValue == {"a", "l", "A", "I"}

------------------------------------------------------------------------
(* The pure functions against what they should compute.                    *)

\* Every password the generator can make meets its options, and every password
\* that meets them can be made.
ASSUME PasswordsMeetTheOptions ==
  \A o \in Options :
    GeneratePassword(o) =
      {p \in [1..Length(o) -> Alphabet(o)] : Meets(o, p)}

\* Rejection sampling gives each result the same number of draws.
ASSUME DrawsAreUniform ==
  \A max \in 1..(2^DrawBits) : \A n, k \in 0..(max - 1) :
    Cardinality(DrawsFor(n, max)) = Cardinality(DrawsFor(k, max))
      /\ DrawsFor(n, max) # {}

\* No click leaves the panel without a class.
ASSUME ToggleKeepsAClass ==
  \A o \in Options : \A c \in ToSet(ClassOrder) :
    (\E d \in ToSet(ClassOrder) : o[d]) => \E d \in ToSet(ClassOrder) : Toggle(o, c)[d]

\* Seeds of up to three characters: corners of the alphabet, a separator, the
\* padding.
SampleSeeds == BoundedSeq({0, 19, 31, Separator, Padding}, 5)

\* The shifting accumulator finds the bytes base32 means.
ASSUME DecodingIsBase32 ==
  \A s \in SampleSeeds :
    LET clean == Clean(s)
        bytes == IF clean = <<>> \/ ~(ToSet(clean) \subseteq Base32Alphabet) THEN Unreadable
                 ELSE BytesOf(clean)
    IN  Base32Decode(s) =
          IF bytes = Unreadable THEN Unreadable
          ELSE IF Len(bytes) < MinBytes THEN Unreadable ELSE bytes

\* A normalised seed is its own normal form, and reads as what was pasted.
ASSUME NormalFormIsStable ==
  \A s \in {Bare(c) : c \in SampleSeeds} \cup SeedValues
            \cup {Uri("totp", <<1, 2>>, 8, 60, "SHA256")} :
    NormalizeTotpInput(s) # Unreadable =>
      /\ NormalizeTotpInput(NormalizeTotpInput(s)) = NormalizeTotpInput(s)
      /\ ParseTotp(NormalizeTotpInput(s)) = ParseTotp(s)

\* The countdown ends exactly where the next code begins, and the counter's
\* bytes, most significant first, are the counter.
ASSUME CountdownMeetsTheCounter ==
  \A period \in {1, 7, 30, 300} : \A at \in 0..700 :
    LET config == [period |-> period]
        left == TotpRemaining(config, at)
    IN  /\ left \in 1..period
        /\ TotpCounter(config, at + left) = TotpCounter(config, at) + 1
        /\ TotpCounter(config, at + left - 1) = TotpCounter(config, at)

ASSUME CounterBytesAreTheCounter ==
  \A n \in {0, 1, 255, 256, 65535, 65536, 16777216, 2147483647} :
    LET bytes == CounterBytes(n)
    IN  /\ \A i \in 1..8 : bytes[i] \in 0..255
        /\ n = ((bytes[5] * 256 + bytes[6]) * 256 + bytes[7]) * 256 + bytes[8]
=============================================================================
