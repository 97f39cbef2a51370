------------------------------ MODULE Sealing ------------------------------
(***************************************************************************)
(* What opens what: crypto.ts, and the pages that seal with it.  Keys,     *)
(* contents and envelopes are terms.  An envelope opens under exactly the  *)
(* key that sealed it, a random key is named for what it was minted for,   *)
(* and the key derivation has no collisions: the ciphers and KDFs are      *)
(* ideal, the arrangement of keys is the code's.                           *)
(*                                                                         *)
(* The server keeps all it was ever given.  Who may call which operation   *)
(* is VaultMembership; calls that overlap are AccountKeys.                 *)
(***************************************************************************)
EXTENDS FiniteSets, Integers, SequencesExt

CONSTANTS
  Owners,               \* accounts, by email
  Chests,               \* vaults
  Papers,               \* items
  Fragments,            \* share links and invites, by the key they carry
  Passwords,
  SecretPhrases,        \* Secret Phrases as they were generated
  WORDLIST,             \* 2048 words in the code
  PhraseWords,          \* 12 words in the code
  DrawWidth,            \* bits of a draw: 16
  KeyLength,            \* characters of a key in a link: 43
  Nobody,
  MaxVersions           \* bound: versions of a content, salts of an account

ASSUME WordsAssumption ==
  /\ IsInjective(WORDLIST) /\ PhraseWords > 0 /\ KeyLength > 0
  /\ 2^DrawWidth % Len(WORDLIST) = 0
  /\ SecretPhrases \subseteq [1..PhraseWords -> ToSet(WORDLIST)]

\* Random ids never meet, and neither do the keys named for them.
ASSUME KeysAssumption ==
  /\ Chests \cap Papers = {} /\ (Chests \cup Papers) \cap Fragments = {}
  /\ Nobody \notin Chests \cup Papers /\ MaxVersions \in Nat \ {0}
  /\ \A p \in Passwords, f \in SecretPhrases, s \in 1..MaxVersions :
       [password |-> p, phrase |-> f, salt |-> s] # Nobody

VARIABLES
  secrets,  \* the password, phrase and salt of each owner
  members,  \* who was ever given the key of each vault
  place,    \* the vault of each item
  version,  \* how often each name or item was sealed
  handed,   \* what each fragment was made for
  told,     \* what the server was told in clear
  sent      \* the envelopes the server was given

sealVars == <<secrets, members, place, version, handed, told, sent>>

------------------------------------------------------------------------
(* The Secret Phrase.                                                      *)

GenerateSecretPhrase(draws) ==
  [i \in 1..PhraseWords |-> WORDLIST[(draws[i] % Len(WORDLIST)) + 1]]

\* A typed phrase is a sequence of words and of the blanks, line breaks and
\* hyphens between them; a word may be typed in capitals.
Gap == [word |-> "gap", capitals |-> FALSE]
Typed(word, capitals) == [word |-> word, capitals |-> capitals]

NormalizeSecretPhrase(phrase) ==
  LET words == SelectSeq(phrase, LAMBDA piece : piece # Gap)
  IN  [i \in DOMAIN words |-> words[i].word]

ValidateSecretPhrase(phrase) ==
  LET words == NormalizeSecretPhrase(phrase)
  IN  Len(words) = PhraseWords /\ ToSet(words) \subseteq ToSet(WORDLIST)

------------------------------------------------------------------------
(* The fragment of a link: "<token>.<key>".                                *)

ComposeLinkFragment(token, key) == token \o <<".">> \o key

\* Nothing but letters, digits, - and _ decodes, and only a whole key has 32
\* bytes.
ParseLinkFragment(hash) ==
  LET raw == IF hash # <<>> /\ Head(hash) = "#" THEN Tail(hash) ELSE hash
      dots == {i \in DOMAIN raw : raw[i] = "."}
  IN  IF dots = {} THEN Nobody
      ELSE LET dot == CHOOSE i \in dots : \A j \in dots : i <= j
               key == SubSeq(raw, dot + 1, Len(raw))
           IN  IF dot = 1 \/ ToSet(key) \cap {".", "#"} # {} \/ Len(key) # KeyLength
               THEN Nobody
               ELSE [token |-> SubSeq(raw, 1, dot - 1), key |-> key]

------------------------------------------------------------------------
(* Keys and envelopes.                                                     *)

Key(thing) == <<"key", thing>>
Text(thing, n) == <<"text", <<thing, n>>>>

\* Two independent expansions of what password, phrase, email and salt make.
DeriveKeys(email, password, phrase, salt) ==
  LET muk == <<email, password, phrase, salt>>
  IN  [authKey |-> <<"auth", muk>>, encKey |-> <<"enc", muk>>]

KeysOf(u) ==
  DeriveKeys(u, secrets[u].password, secrets[u].phrase, secrets[u].salt)

Seal(key, holds) == [under |-> key, holds |-> holds]

\* What opens to whoever knows some terms, one envelope after the other: an
\* item lies at the end of the longest chain, three envelopes deep.
Unseal(known) == known \cup {e.holds : e \in {s \in sent : s.under \in known}}
Unsealed(known) == Unseal(Unseal(Unseal(known)))

Reads(keys) ==
  {t \in Unsealed(keys \cup told) : t[1] = "text"}

------------------------------------------------------------------------
SealInit ==
  /\ secrets = [u \in Owners |-> Nobody]
  /\ members = [v \in Chests |-> {}] /\ place = [i \in Papers |-> Nobody]
  /\ version = [x \in Chests \cup Papers |-> 0]
  /\ handed = [l \in Fragments |-> Nobody]
  /\ told = {} /\ sent = {}

Gives(envelopes) == sent' = sent \cup envelopes

\* createVaultBundle, and the personal vault of createCryptoBundle.
MintVault(v, u, encKey) ==
  /\ members[v] = {}
  /\ members' = [members EXCEPT ![v] = {u}]
  /\ version' = [version EXCEPT ![v] = 1]
  /\ Gives({Seal(encKey, Key(v)), Seal(Key(v), Text(v, 1))})

\* The server sees the key that proves the account; the salt is no secret.
Prove(u, password, phrase, salt) ==
  /\ secrets' = [secrets EXCEPT ![u] =
                   [password |-> password, phrase |-> phrase, salt |-> salt]]
  /\ told' = told \cup {DeriveKeys(u, password, phrase, salt).authKey}

CreateCryptoBundle(u, password, phrase, v) ==
  /\ secrets[u] = Nobody
  /\ Prove(u, password, phrase, 1)
  /\ MintVault(v, u, DeriveKeys(u, password, phrase, 1).encKey)
  /\ UNCHANGED <<place, handed>>

CreateVaultBundle(u, v) ==
  /\ secrets[u] # Nobody
  /\ MintVault(v, u, KeysOf(u).encKey)
  /\ UNCHANGED <<secrets, place, handed, told>>

\* The next version of a name or an item.
Write(x, envelopes) ==
  /\ version[x] < MaxVersions
  /\ version' = [version EXCEPT ![x] = @ + 1]
  /\ Gives(envelopes)
  /\ UNCHANGED <<secrets, members, handed, told>>

SealVaultName(v) ==
  /\ members[v] # {}
  /\ Write(v, {Seal(Key(v), Text(v, version[v] + 1))})
  /\ UNCHANGED place

\* A new item gets a key of its own, wrapped by its vault's.
SealItem(i, v) ==
  /\ members[v] # {} /\ place[i] = Nobody
  /\ place' = [place EXCEPT ![i] = v]
  /\ Write(i, {Seal(Key(v), Key(i)), Seal(Key(i), Text(i, 1))})

\* (variant) An edit seals under the vault's key.
UpdateUnderVaultKey(i) ==
  /\ place[i] # Nobody
  /\ Write(i, {Seal(Key(place[i]), Text(i, version[i] + 1))})
  /\ UNCHANGED place

\* An edit seals under the key the item has, which links carry as well.
UpdateItem(i) ==
  /\ place[i] # Nobody
  /\ Write(i, {Seal(Key(i), Text(i, version[i] + 1))})
  /\ UNCHANGED place

\* A link or an invite: a key minted for it wraps what it opens.
HandOut(l, x) ==
  /\ handed[l] = Nobody
  /\ handed' = [handed EXCEPT ![l] = x]
  /\ Gives({Seal(Key(l), Key(x))})
  /\ UNCHANGED <<secrets, members, place, version, told>>

CreateLink(l, i) == place[i] # Nobody /\ HandOut(l, i)
CreateInvite(l, v) == members[v] # {} /\ HandOut(l, v)

\* (variant) The page posts the whole fragment, not its token.
AcceptSendingFragment(u, l) ==
  /\ secrets[u] # Nobody /\ handed[l] \in Chests /\ u \notin members[handed[l]]
  /\ members' = [members EXCEPT ![handed[l]] = @ \cup {u}]
  /\ Gives({Seal(KeysOf(u).encKey, Key(handed[l]))})
  /\ told' = told \cup {Key(l)}
  /\ UNCHANGED <<secrets, place, version, handed>>

\* Accepting opens the vault key and wraps it under the member's own.
AcceptInvite(u, l) ==
  /\ secrets[u] # Nobody /\ handed[l] \in Chests /\ u \notin members[handed[l]]
  /\ members' = [members EXCEPT ![handed[l]] = @ \cup {u}]
  /\ Gives({Seal(KeysOf(u).encKey, Key(handed[l]))})
  /\ UNCHANGED <<secrets, place, version, handed, told>>

\* A fresh salt, the same phrase, and every vault key wrapped again.
ChangePassword(u, password) ==
  /\ secrets[u] # Nobody /\ secrets[u].salt < MaxVersions
  /\ LET salt == secrets[u].salt + 1
     IN  /\ Prove(u, password, secrets[u].phrase, salt)
         /\ Gives({Seal(DeriveKeys(u, password, secrets[u].phrase, salt).encKey, Key(v)) :
                    v \in {w \in Chests : u \in members[w]}})
  /\ UNCHANGED <<members, place, version, handed>>

SealNext ==
  \/ \E u \in Owners, v \in Chests : CreateVaultBundle(u, v)
  \/ \E u \in Owners, v \in Chests, p \in Passwords, f \in SecretPhrases :
       CreateCryptoBundle(u, p, f, v)
  \/ \E v \in Chests : SealVaultName(v)
  \/ \E i \in Papers, v \in Chests : SealItem(i, v)
  \/ \E i \in Papers : UpdateItem(i)
  \/ \E l \in Fragments : (\E i \in Papers : CreateLink(l, i))
                            \/ (\E v \in Chests : CreateInvite(l, v))
  \/ \E u \in Owners, l \in Fragments : AcceptInvite(u, l)
  \/ \E u \in Owners, p \in Passwords : ChangePassword(u, p)

SealSpec == SealInit /\ [][SealNext]_sealVars

------------------------------------------------------------------------
Written(x) == {Text(x, n) : n \in 1..version[x]}
Contents(v) == Written(v) \cup UNION {Written(i) : i \in {j \in Papers : place[j] = v}}

\* "The server, holding everything else, cannot" decrypt.
ServerReadsNothing == Reads({}) = {}

\* The server reads nothing at all, and whoever types the account's password and phrase reads
\* exactly the vaults it is a member of, with either secret wrong nothing, after
\* any sequence of invites, edits and password changes.
SecretsOpenTheVaults ==
  /\ ServerReadsNothing
  /\ \A u \in Owners : secrets[u] # Nobody =>
       \A password \in Passwords, phrase \in SecretPhrases :
         Reads({DeriveKeys(u, password, phrase, secrets[u].salt).encKey}) =
           IF password = secrets[u].password /\ phrase = secrets[u].phrase
           THEN UNION {Contents(v) : v \in {w \in Chests : u \in members[w]}}
           ELSE {}

\* "Per-item keys are what let a share link expose one item without the vault
\* key": a share link opens its item, later edits included, and nothing else of
\* the vault; an invite opens its whole vault, and no other.
LinksOpenOneThing ==
  \A l \in Fragments : handed[l] # Nobody =>
    Reads({Key(l)}) = IF handed[l] \in Papers THEN Written(handed[l])
                      ELSE Contents(handed[l])
============================================================================
