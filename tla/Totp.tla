-------------------------------- MODULE Totp --------------------------------
(***************************************************************************)
(* One-time-code seeds as totp.ts reads, stores and counts them.  A bare   *)
(* seed is a sequence of characters: the indices 0..31 of the base32       *)
(* alphabet, the separators and padding authenticator sites print, and     *)
(* anything else.  Of an otpauth URI there is what its parser finds.       *)
(* The HMAC itself is WebCrypto's.                                         *)
(***************************************************************************)
EXTENDS Integers, SequencesExt

CONSTANTS
  Unreadable, \* null
  Width,      \* the width of a bitwise operation's result: 32 in JavaScript
  MinBytes    \* MIN_SECRET_BYTES

ASSUME TotpAssumption == Width \in Nat /\ Width > 12 /\ MinBytes \in Nat \ {0}

\* Characters besides the alphabet's 0..31.
Separator == 32
Padding == 33
Base32Alphabet == 0..31

\* A text is a bare seed, or what the URI parser finds in one.
Uri(host, chars, digits, period, algorithm) ==
  [host |-> host, chars |-> chars, digits |-> digits, period |-> period,
   algorithm |-> algorithm]
Bare(chars) == Uri("bare", chars, 6, 30, "absent")
IsUri(text) == text.host # "bare"

\* White space and hyphens go, then the padding at the end.
Clean(chars) ==
  LET kept == SelectSeq(chars, LAMBDA c : c # Separator)
      ends == {n \in 0..Len(kept) : \A i \in (n + 1)..Len(kept) : kept[i] = Padding}
  IN  SubSeq(kept, 1, CHOOSE n \in ends : \A m \in ends : n <= m)

\* value = (value << 5) | index, in Width bits; a byte leaves at eight.
TakeChar(state, index) ==
  LET value == (state.value * 32 + index) % 2^Width
      bits == state.bits + 5
  IN  IF bits < 8 THEN [value |-> value, bits |-> bits, out |-> state.out]
      ELSE [value |-> value, bits |-> bits - 8,
            out |-> Append(state.out, (value \div 2^(bits - 8)) % 256)]

Base32Decode(chars) ==
  LET clean == Clean(chars)
      end == FoldLeft(TakeChar, [value |-> 0, bits |-> 0, out |-> <<>>], clean)
  IN  IF clean = <<>> \/ \E i \in DOMAIN clean : clean[i] \notin Base32Alphabet
        THEN Unreadable
      ELSE IF Len(end.out) < MinBytes THEN Unreadable ELSE end.out

\* What base32 means: the characters' bits in a row, cut into whole bytes.
Bits(clean) ==
  [i \in 1..(5 * Len(clean)) |->
     (clean[((i - 1) \div 5) + 1] \div 2^(4 - ((i - 1) % 5))) % 2]
BytesOf(clean) ==
  LET bits == Bits(clean)
      byte[n \in 0..8, k \in Nat] ==
        IF n = 0 THEN 0 ELSE 2 * byte[n - 1, k] + bits[8 * (k - 1) + n]
  IN  [k \in 1..((5 * Len(clean)) \div 8) |-> byte[8, k]]

NormalizeAlgorithm(raw) ==
  CASE raw \in {"absent", "SHA1"} -> "SHA-1"
    [] raw = "SHA256" -> "SHA-256"
    [] raw = "SHA512" -> "SHA-512"
    [] OTHER -> Unreadable

Config(secret, digits, period, algorithm) ==
  IF secret = Unreadable \/ algorithm = Unreadable
     \/ digits \notin 6..10 \/ period \notin 1..300
  THEN Unreadable
  ELSE [secret |-> secret, digits |-> digits, period |-> period, algorithm |-> algorithm]

\* HOTP has no current code to show.
ParseOtpauthUri(text) ==
  IF text.host # "totp" THEN Unreadable
  ELSE Config(Base32Decode(text.chars), text.digits, text.period,
              NormalizeAlgorithm(text.algorithm))

ParseTotp(text) ==
  IF IsUri(text) THEN ParseOtpauthUri(text)
  ELSE Config(Base32Decode(text.chars), 6, 30, "SHA-1")

NormalizeTotpInput(text) ==
  IF ParseTotp(text) = Unreadable THEN Unreadable
  ELSE IF IsUri(text) THEN text ELSE Bare(Clean(text.chars))

\* The counter of the window a second falls into, its eight bytes, and the
\* countdown next to the code.
TotpCounter(config, at) == at \div config.period
CounterBytes(n) == [i \in 1..8 |-> IF i < 5 THEN 0 ELSE (n \div 256^(8 - i)) % 256]
TotpRemaining(config, at) == config.period - (at % config.period)
=============================================================================
