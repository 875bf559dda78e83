------------------------- MODULE AggregatedSignatures -------------------------
(***************************************************************************)
(* Aggregated signatures as class Bls and BLSPublicKey do them: many keys  *)
(* on one message (Aggregate, FastAggregateVerify), where keys are         *)
(* registered with a proof of possession, and many messages under one key  *)
(* (AggregatedVerifySig).  The list of signatures is put together from     *)
(* what arrives: from honest owners, and from a joiner that chooses its    *)
(* key after it has seen theirs and combines signatures at will.           *)
(*                                                                         *)
(* Secret keys are independent and so are the points that different 32     *)
(* bytes are hashed to.  A public key is the vector of its coefficients    *)
(* over the secrets of the owners; a signature is such a vector on one     *)
(* message.  A proof of possession is one too: its message is the digest   *)
(* of the key, which HashtoG1 takes like that of anything else.            *)
(***************************************************************************)
EXTENDS PrimeField

CONSTANTS
  Honest, Joiner,    \* the owners of secrets
  Msgs,              \* the 32 bytes that are signed (those of one point as one)
  Digest,            \* those that the text of a public key is hashed to
  MadeUp,            \* keys, and sums behind points, that the joiner makes up
  OffCurve,          \* a point that is not well formed
  MaxKeys,           \* bound on the number of registered keys
  MaxEntries,        \* bound on the length of the list
  MaxWrong           \* bound on the wrong entries in it

Owners == Honest \cup {Joiner}
Vectors == [Owners -> Fr]
SignaturePoints == [msg : Msgs, of : Vectors]
Digests == {Digest[key] : key \in Vectors}
Proofs == [msg : Digests, of : Vectors]

ASSUME AggregationConstants ==
    /\ Joiner \notin Honest
    /\ MadeUp \subseteq Vectors
    /\ DOMAIN Digest = Vectors
    /\ \A k, l \in Vectors : Digest[k] = Digest[l] => k = l  \* no collision is known
    /\ OffCurve \notin SignaturePoints \cup Proofs
    /\ MaxKeys \in Nat /\ MaxWrong \in Nat
    /\ MaxEntries \in Nat /\ MaxEntries < P        \* no list has r entries

VARIABLES
  registered,    \* the keys with a verified proof of possession
  proofs,        \* the proofs that were published
  signed,        \* which honest owner signed what
  entries        \* the list to be aggregated: keys, messages and signatures

vars == <<registered, proofs, signed, entries>>

Zero == [o \in Owners |-> 0]
KeyOf(u) == [o \in Owners |-> IF o = u THEN 1 ELSE 0]

-----------------------------------------------------------------------------
(* Operations of class Bls.                                                *)

\* HashPublicKeyToG1 is HashtoG1 of the digest: nothing tells a key's digest
\* from a message.
HashPublicKeyToG1(key) == Digest[key]

PopProveOfNothing(u) == [msg |-> HashPublicKeyToG1(Zero), of |-> KeyOf(u)]   \* slip: not of the key

PopProve(u) == [msg |-> HashPublicKeyToG1(KeyOf(u)), of |-> KeyOf(u)]

PopVerifyAny(key, proof) == TRUE                 \* slip: the proof is not looked at

\* The proof is the hash of this key, multiplied by the secret behind it.
PopVerify(key, proof) == proof.msg = HashPublicKeyToG1(key) /\ proof.of = key

CoreSignAggregated(u, m) == [msg |-> m, of |-> KeyOf(u)]

\* The sum of vectors, as that of points of G1 or G2 is.
VectorSum(vectors) == [o \in Owners |-> Sum([i \in DOMAIN vectors |-> vectors[i][o]])]

\* Slip: the first signature is left out.
AggregateRest(points) ==
    [m \in Msgs |-> VectorSum([i \in DOMAIN points \ {1} |->
                       IF points[i].msg = m THEN points[i].of ELSE Zero])]

\* Slip: a signature that is listed twice is added once.
AggregateOnce(points) ==
    LET First == {i \in DOMAIN points : \A k \in DOMAIN points : points[k] = points[i] => i <= k}
    IN  [m \in Msgs |-> VectorSum([i \in First |->
                            IF points[i].msg = m THEN points[i].of ELSE Zero])]

Aggregate(points) ==
    [m \in Msgs |-> VectorSum([i \in DOMAIN points |->
                       IF points[i].msg = m THEN points[i].of ELSE Zero])]

\* Aggregate and AggregatedVerification throw if one point is not well formed.
AllWellFormed(points) == \A i \in DOMAIN points : points[i] # OffCurve

\* The pairing of the hash and the key is that of the signature and G2::one.
CoreVerify(key, m, signature) ==
    signature = [x \in Msgs |-> IF x = m THEN key ELSE Zero]

FastAggregateVerify(keys, m, signature) == CoreVerify(VectorSum(keys), m, signature)

\* The sum of the hashes, paired with the one key.
AggregatedVerification(msgs, points, key) ==
    /\ AllWellFormed(points)
    /\ Aggregate(points) =
           Aggregate([i \in DOMAIN msgs |-> [msg |-> msgs[i], of |-> key]])

\* BLSPublicKey::AggregatedVerifySig throws on a zero signature.
AggregatedVerifySig(msgs, points, key) ==
    /\ \A i \in DOMAIN points : points[i] # OffCurve => points[i].of # Zero
    /\ AggregatedVerification(msgs, points, key)

-----------------------------------------------------------------------------
Init ==
    /\ registered = {} /\ proofs = {} /\ signed = {}
    /\ entries = <<>>

\* An owner that follows the protocol generates a key and registers it.
KeyGeneration(u) ==
    /\ Cardinality(registered) < MaxKeys
    /\ proofs' = proofs \cup {PopProve(u)}
    /\ registered' = registered \cup
           (IF PopVerify(KeyOf(u), PopProve(u)) THEN {KeyOf(u)} ELSE {})
    /\ UNCHANGED <<signed, entries>>

\* What an honest owner multiplied by its secret and gave away: the hash of a
\* message it signed, or that of its key.
Published(u, bytes) == <<u, bytes>> \in signed \/ [msg |-> bytes, of |-> KeyOf(u)] \in proofs

\* Points that can be had: published signatures and proofs, and multiples and
\* sums of them and of the joiner's.
Known(point) ==
    point # OffCurve => \A u \in Honest : point.of[u] # 0 => Published(u, point.msg)

\* The joiner registers a key for which it can come by a proof.
Join(key) ==
    /\ Cardinality(registered) < MaxKeys
    /\ \E proof \in [msg : {HashPublicKeyToG1(key)}, of : MadeUp] :
           Known(proof) /\ PopVerify(key, proof)
    /\ registered' = registered \cup {key}
    /\ UNCHANGED <<proofs, signed, entries>>

\* An owner signs what it is given, which may be the digest of a key.
Sign(u, m) ==
    /\ signed' = signed \cup {<<u, m>>}
    /\ UNCHANGED <<registered, proofs, entries>>

\* The zero point is the same for every message.
Right(e) ==
    /\ e.point # OffCurve
    /\ e.point.of = e.key
    /\ e.point.msg = e.msg \/ e.key = Zero
Wrong == {i \in DOMAIN entries : ~Right(entries[i])}

\* A signature arrives that is said to be of this key and this message.  The
\* list is one of many keys and a message, or of many messages and a key.
Collect(key, m, point) ==
    LET e == [key |-> key, msg |-> m, point |-> point]
    IN  /\ Len(entries) < MaxEntries
        /\ \/ \A i \in DOMAIN entries : entries[i].msg = m
           \/ \A i \in DOMAIN entries : entries[i].key = key
        /\ Known(point)
        /\ Right(e) \/ Cardinality(Wrong) < MaxWrong
        /\ entries' = Append(entries, e)
        /\ UNCHANGED <<registered, proofs, signed>>

\* Another list is begun.
Discard ==
    /\ entries # <<>>
    /\ entries' = <<>>
    /\ UNCHANGED <<registered, proofs, signed>>

Next ==
    \/ \E u \in Honest : KeyGeneration(u)
    \/ \E key \in MadeUp : Join(key)
    \/ \E u \in Honest, m \in Msgs : Sign(u, m)
    \/ \E key \in registered, m \in Msgs :
           \E point \in [msg : Msgs, of : MadeUp] \cup {OffCurve} : Collect(key, m, point)
    \/ Discard

Spec == Init /\ [][Next]_vars

-----------------------------------------------------------------------------
(* Properties.                                                             *)

TypeOK ==
    /\ registered \subseteq Vectors /\ Cardinality(registered) <= MaxKeys
    /\ proofs \subseteq Proofs
    /\ \A p \in proofs : p.msg = Digest[p.of]
    /\ signed \subseteq Honest \X Msgs
    /\ entries \in Seq([key : registered, msg : Msgs,
                        point : SignaturePoints \cup {OffCurve}])

Keys == [i \in DOMAIN entries |-> entries[i].key]
Messages == [i \in DOMAIN entries |-> entries[i].msg]
Points == [i \in DOMAIN entries |-> entries[i].point]

\* What a verifier makes of the list: as one of signatures of one message, or
\* as one of signatures under one key.
AcceptedForMessage(m) ==
    AllWellFormed(Points) /\ FastAggregateVerify(Keys, m, Aggregate(Points))
AcceptedUnderKey(key) == AggregatedVerifySig(Messages, Points, key)

OfMessage(m) == entries # <<>> /\ \A i \in DOMAIN entries : entries[i].msg = m
UnderKey(key) == entries # <<>> /\ \A i \in DOMAIN entries : entries[i].key = key

\* Right signatures are accepted, in whichever order and however often one of
\* them is listed; but not under a zero key, as one by one neither.
RightSignaturesAreAccepted ==
    Wrong = {} =>
        /\ \A m \in Msgs : OfMessage(m) => AcceptedForMessage(m)
        /\ \A key \in registered \ {Zero} : UnderKey(key) => AcceptedUnderKey(key)

\* One wrong signature among right ones is not made up for by the others: that
\* of another message or another key, one combined from several, or one off the
\* curve.  (Two wrong ones may: only the sum is looked at.)
OneWrongSignatureIsNoticed ==
    Cardinality(Wrong) = 1 =>
        /\ \A m \in Msgs : OfMessage(m) => ~AcceptedForMessage(m)
        /\ \A key \in registered : UnderKey(key) => ~AcceptedUnderKey(key)

\* A proof of possession is worth what the owners sign: who has a part in a
\* registered key other than its own has signed the digest of that key.
SignsNoOtherKey(u) ==
    \A key \in registered \ {KeyOf(u)} : <<u, HashPublicKeyToG1(key)>> \notin signed

\* Whatever is in the list: if it is accepted, every honest owner whose key is
\* in it has signed, or the message is the digest of its key and the signature
\* its proof of possession.  For a list of many keys it must not have signed the
\* digest of somebody else's; then the proofs keep out the keys that would
\* cancel its own.
AcceptedMeansSigned ==
    \A u \in Honest :
        /\ \A m \in Msgs, i \in DOMAIN entries :
               SignsNoOtherKey(u) /\ OfMessage(m) /\ entries[i].key = KeyOf(u) /\ AcceptedForMessage(m)
                   => Published(u, m)
        /\ UnderKey(KeyOf(u)) /\ AcceptedUnderKey(KeyOf(u)) =>
               \A i \in DOMAIN entries : Published(u, entries[i].msg)
-----------------------------------------------------------------------------
(* The inductive invariant of the proofs in AggregatedSignaturesProofs.    *)

\* Owners prove that they possess their own key.  In a registered key there are
\* the secrets of those that multiplied its digest.
KeysAreProved ==
    /\ IsFiniteSet(registered)
    /\ proofs \subseteq {PopProve(u) : u \in Honest}
    /\ \A key \in registered, u \in Honest :
           key[u] # 0 => Published(u, HashPublicKeyToG1(key))

\* Nothing in the list was made without the signatures it is made of.
EntriesAreKnown ==
    /\ Len(entries) <= MaxEntries
    /\ \A i \in DOMAIN entries : Known(entries[i].point)

IInv == TypeOK /\ KeysAreProved /\ EntriesAreKnown
=============================================================================
