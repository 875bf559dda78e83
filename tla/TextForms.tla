------------------------------ MODULE TextForms ------------------------------
(***************************************************************************)
(* The text forms in which keys, signatures and ciphertexts travel, and    *)
(* the hint that travels with a signature.  One object at a time is        *)
(* printed by toString, perhaps typed in another way by a program that is  *)
(* not the library, read by the constructor from strings, printed again,   *)
(* and so on.                                                              *)
(*                                                                         *)
(* What matters of the text of a number is its value and how many digits   *)
(* it has, leading zeros included.  The field is small, and so is the base *)
(* of the digits: as in decimal for the real field, the larger of two      *)
(* square roots has MaxComponentLen digits, an odd number of them.         *)
(***************************************************************************)
EXTENDS Naturals, Sequences

CONSTANTS
  Q, R,               \* moduli of Fq and Fr
  CoeffB,             \* alt_bn128_coeff_b
  Base,               \* the base of printed numbers
  MaxComponentLen,    \* BLS_MAX_COMPONENT_LEN
  MinSigLen, MaxSigLen,   \* bounds on the text of a signature: 10 and BLS_MAX_SIG_LEN
  MaxHexBytes,        \* bytes that hex2carray reads: half of 2 * 1024 digits
  HexDigits,          \* digits of a coordinate in a ciphertext: 64
  Hashes,             \* 32-byte hashes, as the numbers HashToFq makes of them
  Twist,              \* coordinates of the public keys: points of G2
  Coordinates,        \* coordinates of U and W of the ciphertexts
  AesData,            \* their AES parts, as sequences of bytes
  MaxDigits,          \* bound on the digits somebody types for a number
  None

Fq == 0..(Q - 1)
Numbers == 0..(2 * Q - 1)             \* texts may hold numbers that are not reduced

NumDigits[v \in Nat] == IF v < Base THEN 1 ELSE 1 + NumDigits[v \div Base]

Typed(v, digits) == [value |-> v, digits |-> digits]
Plain(v) == Typed(v, NumDigits[v])

\* fieldElementToString pads to an even number of digits.
fieldElementToString(v) ==
    LET d == NumDigits[v] IN Typed(v, IF d % 2 = 0 THEN d ELSE d + 1)

isStringNumber(typed) == typed.digits = NumDigits[typed.value]

\* Numbers that are not less than half of Q have the most digits, as in decimal.
ASSUME TextConstants ==
    /\ Q \in Nat /\ R \in 1..Q /\ Base \in Nat /\ Base > 1 /\ CoeffB \in Fq
    /\ \A y \in Fq : NumDigits[y] \in 1..MaxComponentLen
    /\ \A y \in Numbers : /\ NumDigits[y] \in Nat
                           /\ (2 * y >= Q => NumDigits[y] >= MaxComponentLen)
    /\ MaxComponentLen \in Nat /\ MaxComponentLen % 2 = 1
    /\ MinSigLen \in 0..(MaxComponentLen + 8)          \* 10 and 77 + 8
    /\ MaxSigLen \in Nat
    /\ MaxSigLen >= 3 * (MaxComponentLen + 1) + 5      \* 240 and 3 * 78 + 5
    /\ HexDigits \in Nat \ {0} /\ MaxHexBytes \in Nat
    /\ MaxDigits \in Nat /\ MaxDigits > MaxComponentLen
    /\ Hashes \subseteq Nat
    /\ Twist \subseteq [1..4 -> Fq] /\ Coordinates \subseteq [1..6 -> Fq]
    /\ AesData \subseteq Seq(Nat) \ {<<>>}

-----------------------------------------------------------------------------
(* Hashing to the curve.                                                   *)

HashToFq(h) == h % Q
Rhs(x) == (x * x * x + CoeffB) % Q
Roots(x) == {y \in Fq : (y * y) % Q = Rhs(x)}
CurvePoints == {p \in Fq \X Fq : p[2] \in Roots(p[1])}
LargerRoot(x) == CHOOSE y \in Roots(x) : \A z \in Roots(x) : z <= y

\* The order of the curve is a prime: it has points, and none of order two.
ASSUME PrimeOrder == CurvePoints # {} /\ \A x \in Fq : Rhs(x) # 0

\* ThresholdUtils::HashtoG1 tries x, x + 1, ... and takes the larger root.
PointFrom[x \in Fq] ==
    IF Roots(x) # {} THEN <<x, LargerRoot(x)>> ELSE PointFrom[(x + 1) % Q]

HashtoG1(h) == PointFrom[HashToFq(h)]

\* Bls::HashtoG1withHint repeats the loop, and counts.
CountedFrom[at \in Fq \X Nat] ==
    LET x == at[1]
        counter == at[2]
    IN  IF Roots(x) # {} THEN [point |-> <<x, LargerRoot(x)>>, counter |-> counter]
        ELSE CountedFrom[<<(x + 1) % Q, counter + 1>>]

\* Slip: the counter starts with the first step.
HashtoG1withHintFromOne(h) == CountedFrom[<<HashToFq(h), 1>>]
HashtoG1withHint(h) == CountedFrom[<<HashToFq(h), 0>>]

\* The hint of sign and signWithHelper: both parts are printed.
HintOf(h) ==
    LET found == HashtoG1withHint(h)
    IN  <<fieldElementToString(found.point[2]), fieldElementToString(found.counter)>>

HintLength(hint) == hint[1].digits + 1 + hint[2].digits

\* ParseHint throws on a part that is too long.
ParseHint(hint) == \A i \in 1..2 : hint[i].digits <= MaxComponentLen

\* The point that VerifySigWithHelper pairs with: it must be on the curve.
Leads(h, hint, point) ==
    LET x == (HashToFq(h) + hint[2].value) % Q
        y == hint[1].value % Q
    IN  ParseHint(hint) /\ y \in Roots(x) /\ point = <<x, y>>

-----------------------------------------------------------------------------
(* Objects and their texts.                                                *)

PublicKeys == {"BLSPublicKey", "BLSPublicKeyShare", "TEPublicKey", "TEPublicKeyShare"}
PrivateKeys == {"BLSPrivateKey", "BLSPrivateKeyShare", "TEPrivateKey", "TEPrivateKeyShare"}
Signatures == {"BLSSigShare", "BLSSignature"}
StrictClasses == {"TEPublicKey", "TEPublicKeyShare"}

\* A text does not tell which of the classes of a kind wrote it.
Kinds == {PublicKeys, PrivateKeys, Signatures, {"Ciphertext"}}
Classes == UNION Kinds

Object(class, coords, hint, data) ==
    [class |-> class, coords |-> coords, hint |-> hint, data |-> data]

KindOf(class) == CHOOSE kind \in Kinds : class \in kind

Text(class, tokens, data) == [readers |-> KindOf(class), tokens |-> tokens, data |-> data]

Strings(coords) == [i \in DOMAIN coords |-> fieldElementToString(coords[i])]

\* Slip: numbers that are not reduced are kept.
ValuesAsTyped(tokens, modulus) == [i \in DOMAIN tokens |-> tokens[i].value]
Values(tokens, modulus) == [i \in DOMAIN tokens |-> tokens[i].value % modulus]

SigLength(tokens) ==
    tokens[1].digits + tokens[2].digits + HintLength(<<tokens[3], tokens[4]>>) + 2

\* Slip: coordinates in a ciphertext are padded to an even number of digits only.
HexStringsEven(coords) == Strings(coords)

\* Coordinates in a ciphertext are padded to HexDigits; V has a fixed length
\* too, and is left out.
HexStrings(coords) == [i \in DOMAIN coords |-> Typed(coords[i], HexDigits)]

toString(o) ==
    CASE o.class \in PublicKeys \cup PrivateKeys -> Text(o.class, Strings(o.coords), <<>>)
      [] o.class \in Signatures   -> Text(o.class, Strings(o.coords) \o o.hint, <<>>)
      [] o.class = "Ciphertext"   -> Text(o.class, HexStrings(o.coords), o.data)

\* What hex2carray leaves of the AES part in a vector of its full length.
ReadBytes(data) == [i \in DOMAIN data |-> IF i <= MaxHexBytes THEN data[i] ELSE 0]

\* Slip: the hint is put together from the wrong tokens.
KeptHintSwapped(tokens) == <<tokens[4], tokens[3]>>
KeptHint(tokens) == <<tokens[3], tokens[4]>>

(* What the constructors from strings accept, one operator for each.       *)

IsWellFormed(tokens) == Values(tokens, Q) \in Twist

BLSPublicKey(tokens) == IsWellFormed(tokens)
BLSPublicKeyShare(tokens) == IsWellFormed(tokens)

\* Those of threshold encryption take no number with a leading zero.
AreNumbers(tokens) == \A i \in DOMAIN tokens : isStringNumber(tokens[i])

TEPublicKey(tokens) == AreNumbers(tokens) /\ IsWellFormed(tokens)
TEPublicKeyShare(tokens) == AreNumbers(tokens) /\ IsWellFormed(tokens)

IsNonZero(tokens) == tokens[1].value % R # 0

BLSPrivateKey(tokens) == IsNonZero(tokens)
BLSPrivateKeyShare(tokens) == IsNonZero(tokens)
TEPrivateKey(tokens) == IsNonZero(tokens)
TEPrivateKeyShare(tokens) == IsNonZero(tokens)

\* The hint is kept as it is, unparsed.
HasSignature(tokens) ==
    /\ SigLength(tokens) \in MinSigLen..MaxSigLen
    /\ Values(SubSeq(tokens, 1, 2), Q) \in CurvePoints

BLSSigShare(tokens) == HasSignature(tokens)
BLSSignature(tokens) == HasSignature(tokens)

\* aesCiphertextFromString cuts the text into parts of a fixed length.
aesCiphertextFromString(t) ==
    /\ \A i \in DOMAIN t.tokens : t.tokens[i].digits = HexDigits
    /\ t.data # <<>>

\* Whether the constructor of the class accepts the text, and what it makes.
Reads(class, t) ==
    CASE class = "BLSPublicKey"       -> BLSPublicKey(t.tokens)
      [] class = "BLSPublicKeyShare"  -> BLSPublicKeyShare(t.tokens)
      [] class = "TEPublicKey"        -> TEPublicKey(t.tokens)
      [] class = "TEPublicKeyShare"   -> TEPublicKeyShare(t.tokens)
      [] class = "BLSPrivateKey"      -> BLSPrivateKey(t.tokens)
      [] class = "BLSPrivateKeyShare" -> BLSPrivateKeyShare(t.tokens)
      [] class = "TEPrivateKey"       -> TEPrivateKey(t.tokens)
      [] class = "TEPrivateKeyShare"  -> TEPrivateKeyShare(t.tokens)
      [] class = "BLSSigShare"        -> BLSSigShare(t.tokens)
      [] class = "BLSSignature"       -> BLSSignature(t.tokens)
      [] class = "Ciphertext"         -> aesCiphertextFromString(t)

FromString(class, t) ==
    CASE class \in PublicKeys  -> Object(class, Values(t.tokens, Q), <<>>, <<>>)
      [] class \in PrivateKeys -> Object(class, Values(t.tokens, R), <<>>, <<>>)
      [] class \in Signatures  -> Object(class, Values(SubSeq(t.tokens, 1, 2), Q),
                                         KeptHint(t.tokens), <<>>)
      [] class = "Ciphertext"  -> Object(class, Values(t.tokens, Q), <<>>, ReadBytes(t.data))

-----------------------------------------------------------------------------
VARIABLES
  object,     \* the object that somebody has, or None
  text,       \* the text that is on its way, or None
  origin,     \* the object that travels, as it was first (history)
  hash,       \* what it is a signature of, if it is one (history)
  threw       \* sign or signWithHelper threw

vars == <<object, text, origin, hash, threw>>

Init ==
    /\ object = None /\ text = None /\ origin = None /\ hash = None
    /\ threw = FALSE

Begin(o, h) ==
    /\ object = None /\ text = None
    /\ origin' = o
    /\ hash' = h

\* A key or a ciphertext that the library computed.
Compute(o) ==
    /\ Begin(o, None)
    /\ object' = o
    /\ threw' = FALSE
    /\ UNCHANGED text

\* BLSPrivateKeyShare::sign and signWithHelper; the point depends on the key.
\* The constructor of BLSSigShare parses the hint, and may throw.
Sign(h, point) ==
    LET o == Object("BLSSigShare", point, HintOf(h), <<>>)
    IN  /\ Begin(o, h)
        /\ object' = IF ParseHint(o.hint) THEN o ELSE None
        /\ threw' = ~ParseHint(o.hint)
        /\ UNCHANGED text

\* A caller that uses Bls::Signing and HashtoG1withHint instead, and writes the
\* text of the share itself, the y of the hint printed with or without padding.
WriteShare(h, point) ==
    LET o == Object("BLSSigShare", point, HintOf(h), <<>>)
    IN  /\ Begin(o, h)
        /\ \E y \in {o.hint[1], Plain(o.hint[1].value)} :
               text' = Text("BLSSigShare", Strings(point) \o <<y, o.hint[2]>>, <<>>)
        /\ threw' = FALSE
        /\ UNCHANGED object

PassOn ==
    /\ object # None
    /\ text' = toString(object)
    /\ object' = None
    /\ UNCHANGED <<origin, hash, threw>>

\* Private keys are numbers modulo R, coordinates modulo Q.
Modulus(kind) == IF kind = PrivateKeys THEN R ELSE Q

\* Another program writes a number with other leading zeros, or not reduced.
Retype(i) ==
    /\ text # None /\ "Ciphertext" \notin text.readers /\ i \in DOMAIN text.tokens
    /\ LET modulus == Modulus(text.readers)
       IN  \E v \in {n \in Numbers : n % modulus = text.tokens[i].value % modulus},
              d \in 1..MaxDigits :
               /\ NumDigits[v] <= d
               /\ text' = [text EXCEPT !.tokens[i] = Typed(v, d)]
    /\ UNCHANGED <<object, origin, hash, threw>>

\* A constructor from strings, which makes an object or throws.
Read(class) ==
    /\ text # None /\ class \in text.readers
    /\ object' = IF Reads(class, text) THEN FromString(class, text) ELSE None
    /\ text' = None
    /\ UNCHANGED <<origin, hash, threw>>

Computed ==
    [class : PublicKeys, coords : Twist, hint : {<<>>}, data : {<<>>}]
    \cup [class : PrivateKeys, coords : {<<k>> : k \in 1..(R - 1)}, hint : {<<>>}, data : {<<>>}]
    \cup [class : {"Ciphertext"}, coords : Coordinates, hint : {<<>>}, data : AesData]

Next ==
    \/ \E o \in Computed : Compute(o)
    \/ \E h \in Hashes, point \in CurvePoints : Sign(h, point) \/ WriteShare(h, point)
    \/ PassOn
    \/ \E i \in 1..4 : Retype(i)
    \/ \E class \in Classes : Read(class)

Spec == Init /\ [][Next]_vars

-----------------------------------------------------------------------------
(* Properties.                                                             *)

IsText(t) ==
    /\ t.readers \in Kinds
    /\ \A i \in DOMAIN t.tokens :
           t.tokens[i].value \in Numbers /\ t.tokens[i].digits \in 1..(MaxDigits + HexDigits)

TypeOK ==
    /\ threw \in BOOLEAN
    /\ hash \in Hashes \cup {None}
    /\ text # None => IsText(text)
    /\ \A o \in {object, origin} \ {None} :
           /\ o.class \in Classes
           /\ o.class \in PublicKeys => o.coords \in Twist
           /\ o.class \in PrivateKeys => o.coords[1] \in 1..(R - 1)
           /\ o.class \in Signatures => o.coords \in CurvePoints

\* Whoever typed its texts in between, and however often it was printed and
\* read: an object that a constructor accepts is the one that started.  Only of
\* an AES part longer than what hex2carray reads the rest is lost, and zero.
TextsKeepTheObject ==
    object # None =>
        /\ object.coords = origin.coords
        /\ \A i \in DOMAIN origin.hint :
               object.hint[i].value % Q = origin.hint[i].value % Q
        /\ DOMAIN object.data = DOMAIN origin.data
        /\ \A i \in DOMAIN origin.data :
               object.data[i] = origin.data[i] \/ (i > MaxHexBytes /\ object.data[i] = 0)

OddComponent(o) == \E i \in DOMAIN o.coords : NumDigits[o.coords[i]] % 2 = 1

\* The constructors accept what toString printed, but for a public key of
\* threshold encryption with a component that had to be padded, and for a
\* signature whose hint is longer than those the library prints: it was
\* accepted with shorter coordinates.
WhatIsReadCanBePassedOn ==
    object # None => LET t == toString(object) IN
        \/ Reads(object.class, t)
        \/ object.class \in StrictClasses /\ OddComponent(object)
        \/ object.class \in Signatures /\ HintLength(object.hint) > MaxComponentLen + 4

\* The hint was made with one copy of the loop over the curve's points, HashtoG1
\* is the other.  Whichever way the hint went, the point that
\* VerifySigWithHelper finds with it is the one that was signed.
HintLeadsToHash ==
    object # None /\ hash # None /\ ParseHint(object.hint) =>
        Leads(hash, object.hint, HashtoG1(hash))

\* docs/using-threshold-signatures.md signs with sign and signWithHelper, and so
\* do the tests.
SignReturnsAShare == ~threw

\* docs/using-threshold-encryption.md: all its classes but one can be
\* created from the strings they are converted to.
EncryptionKeysReadBack ==
    object # None /\ object.class \in StrictClasses =>
        Reads(object.class, toString(object))

-----------------------------------------------------------------------------
(* The inductive invariant of the proofs in TextFormsProofs.               *)

\* What the library makes: o, of which h is the hash if it is a signature.
Made(o, h) ==
    \/ o \in Computed /\ h = None
    \/ /\ h \in Hashes
       /\ \E point \in CurvePoints : o = Object("BLSSigShare", point, HintOf(h), <<>>)

\* The numbers that the text of o stands for.
Meant(o) ==
    IF o.class \in Signatures
    THEN <<o.coords[1], o.coords[2], o.hint[1].value, o.hint[2].value>>
    ELSE o.coords

Tokens == [value : Numbers, digits : 1..(MaxDigits + HexDigits)]
HasItsDigits(token) == NumDigits[token.value] <= token.digits

\* Whether x is an object, and t a text, that o has become on its way.
KeepsData(data, o) ==
    /\ data \in Seq(Nat) /\ Len(data) = Len(o.data)
    /\ \A i \in DOMAIN data : data[i] = o.data[i] \/ (i > MaxHexBytes /\ data[i] = 0)

KeepsHint(hint, o) ==
    \E y, n \in Tokens :
        /\ hint = <<y, n>> /\ HasItsDigits(y) /\ HasItsDigits(n)
        /\ y.value % Q = o.hint[1].value /\ n.value % Q = o.hint[2].value

ObjectOf(x, o) ==
    /\ x.class \in KindOf(o.class)
    /\ x.coords = o.coords
    /\ o.class \in Signatures => KeepsHint(x.hint, o)
    /\ KeepsData(x.data, o)

TextOf(t, o) ==
    /\ t = Text(o.class, t.tokens, t.data)
    /\ t.tokens \in [DOMAIN Meant(o) -> Tokens]
    /\ \A i \in DOMAIN t.tokens :
           /\ t.tokens[i].value % Modulus(t.readers) = Meant(o)[i]
           /\ "Ciphertext" \in t.readers \/ HasItsDigits(t.tokens[i])
    /\ KeepsData(t.data, o)

IInv ==
    /\ threw \in BOOLEAN
    /\ hash \in Hashes \cup {None}
    /\ object # None \/ text # None \/ origin # None => Made(origin, hash)
    /\ object # None => ObjectOf(object, origin)
    /\ text # None => TextOf(text, origin)
=============================================================================
