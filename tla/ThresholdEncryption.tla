------------------------- MODULE ThresholdEncryption -------------------------
(***************************************************************************)
(* Threshold encryption as the classes of threshold_encryption/ do it.     *)
(* Anybody encrypts with the common TEPublicKey; each key holder gives out *)
(* its piece of a ciphertext that passes the pairing check; collectors put *)
(* the pieces they receive into a TEDecryptSet, and merge it into the      *)
(* message or, with mergeIntoAESKey, into the key that hides it.           *)
(*                                                                         *)
(* Ciphertexts may be damaged on their way and pieces may be lost, delayed *)
(* and delivered twice; anybody may send a piece of its own making.  Some  *)
(* collectors run TEPublicKeyShare::Verify against the ciphertext they are *)
(* to decrypt; others add what arrives, merge the set with any ciphertext, *)
(* and call mergeIntoAESKey when they like.                                *)
(*                                                                         *)
(* The hash functions are ideal: TE::Hash has no collisions, so that V is  *)
(* the pair of the point it was hidden with and the message, and nothing   *)
(* is known of HashToGroup but that equal bodies have equal hashes, so     *)
(* that W is a multiple of the hash of a body.                             *)
(***************************************************************************)
EXTENDS PrimeField

CONSTANTS
  N, T,             \* totalSigners and requiredSigners
  MaxIndex,         \* largest signer index a received piece may carry
  Msgs,             \* messages that are encrypted
  Garbled,          \* a plaintext nobody encrypted
  KeyPolynomials,   \* polynomials key generation may draw
  Randoms,          \* scalars an encryptor may draw
  Collectors,       \* the owners of one TEDecryptSet each
  BadPoints,        \* points of pieces no key holder computed
  MaxCiphertexts,   \* bound on the number of ciphertexts
  MaxBad,           \* bound on the number of such pieces
  None              \* not there yet

Signers == 1..N
Index == 0..MaxIndex          \* TEDecryptSet takes index 0 as well
Hidden == [pad : Fr, msg : Msgs]
Bodies == [u : NonZero, v : Hidden]
Ciphertexts == [u : NonZero, v : Hidden, w : [k : NonZero, of : Bodies]]
Pieces == [index : Index, point : NonZero]
Plaintexts == [of : Ciphertexts, text : Msgs \cup {Garbled}]

ASSUME EncryptionConstants ==
    /\ N \in Nat /\ T \in 1..N                       \* ThresholdUtils::checkSigners
    /\ MaxIndex \in Nat /\ N <= MaxIndex /\ MaxIndex < P
    /\ Garbled \notin Msgs
    /\ KeyPolynomials \subseteq [1..T -> Fr]
    /\ Randoms \subseteq NonZero
    /\ BadPoints \subseteq NonZero
    /\ MaxCiphertexts \in Nat /\ MaxBad \in Nat
    /\ None \notin Ciphertexts \cup NonZero

VARIABLES
  secretKeys,    \* the TEPrivateKeyShare of each holder
  commonKey,     \* the secret key behind the common TEPublicKey
  encrypted,     \* the ciphertexts TEPublicKey::encrypt returned (history)
  ciphertexts,   \* the ciphertexts on the network
  pieces,        \* the decryption shares on the network
  verifying,     \* whether each collector verifies the pieces
  held,          \* the ciphertext it verifies them against
  decrypts,      \* TEDecryptSet::decrypts of each collector
  wasMerged,     \* TEDecryptSet::was_merged of each collector
  plaintexts,    \* what the calls of merge() returned so far, for which ciphertext
  aesKeys        \* what the calls of mergeIntoAESKey() returned so far

keyVars == <<secretKeys, commonKey, verifying>>
netVars == <<encrypted, ciphertexts, pieces>>
setVars == <<decrypts, wasMerged, plaintexts, aesKeys>>
vars == <<secretKeys, commonKey, verifying, encrypted, ciphertexts, pieces, held,
          decrypts, wasMerged, plaintexts, aesKeys>>

-----------------------------------------------------------------------------
(* Operations of class TE.                                                 *)

KeysOfAnyShares(pol) ==                 \* slip: a zero key is not refused
    /\ HasFullDegree(pol)
    /\ secretKeys = [i \in Signers |-> PolynomialValue(pol, i)]
    /\ commonKey = pol[1]

\* generateSampleKeys; the constructors refuse a zero key.
KeysOf(pol) ==
    /\ HasFullDegree(pol)
    /\ secretKeys = [i \in Signers |-> PolynomialValue(pol, i)]
    /\ commonKey = pol[1]
    /\ commonKey # 0
    /\ \A i \in Signers : secretKeys[i] # 0

BodyOf(ct) == [u |-> ct.u, v |-> ct.v]

\* getCiphertext: U = r G, V = Hash(r publicKey) xor message, W = r H(U, V).
CiphertextOf(m, r, publicKey) ==
    LET body == [u |-> r, v |-> [pad |-> Times(r, publicKey), msg |-> m]]
    IN  [u |-> body.u, v |-> body.v, w |-> [k |-> r, of |-> body]]

\* Slip: the pairing check is left out.
AnyCiphertext(ct) == TRUE

\* The pairing of W and G2::one is that of H(U, V) and U.
IsConsistent(ct) == ct.w.of = BodyOf(ct) /\ ct.w.k = ct.u

\* TE::Verify: the ciphertext is consistent, and the pairing of W and the
\* public key share is that of H(U, V) and the piece.
Verify(ct, point, publicKey) ==
    IsConsistent(ct) /\ point = Times(ct.w.k, publicKey)

PieceOf(i, ct) == [index |-> i, point |-> Times(secretKeys[i], ct.u)]

\* TEPublicKeyShare::Verify, with the public key share of the claimed holder.
Accepts(c, d) ==
    verifying[c] =>
        /\ held[c] # None
        /\ d.index \in Signers /\ Verify(held[c], d.point, secretKeys[d.index])

Indices(c) == {i \in Index : decrypts[c][i] # None}

\* Slip: one piece too few.
IsEnoughOneLess(c) == Cardinality(Indices(c)) >= T - 1

IsEnough(c) == Cardinality(Indices(c)) >= T

Participants(c) == Lowest(T, Indices(c))

\* The sum that CombineSharesIntoAESKey hashes.
Combined(c) == Recover([i \in Participants(c) |-> decrypts[c][i]])

\* CombineShares: V xor Hash(sum).
Unhide(v, sum) == IF sum = v.pad THEN v.msg ELSE Garbled

-----------------------------------------------------------------------------
Init ==
    /\ \E pol \in KeyPolynomials : KeysOf(pol)
    /\ encrypted = {} /\ ciphertexts = {} /\ pieces = {}
    /\ verifying \in [Collectors -> BOOLEAN]
    /\ held = [c \in Collectors |-> None]
    /\ decrypts = [c \in Collectors |-> [i \in Index |-> None]]
    /\ wasMerged = [c \in Collectors |-> FALSE]
    /\ plaintexts = [c \in Collectors |-> {}]
    /\ aesKeys = [c \in Collectors |-> {}]

Encrypt(m, r) ==
    LET ct == CiphertextOf(m, r, commonKey)
    IN  /\ Cardinality(ciphertexts) < MaxCiphertexts
        /\ encrypted' = encrypted \cup {ct}
        /\ ciphertexts' = ciphertexts \cup {ct}
        /\ UNCHANGED <<keyVars, pieces, held, setVars>>

\* One component of a ciphertext arrives changed.
Altered(ct) ==
    ({[ct EXCEPT !.u = r] : r \in Randoms}
        \cup {[ct EXCEPT !.v.msg = m] : m \in Msgs}
        \cup {[ct EXCEPT !.w.k = r] : r \in Randoms}) \ {ct}

Damage(ct) ==
    /\ Cardinality(ciphertexts) < MaxCiphertexts
    /\ \E other \in Altered(ct) : ciphertexts' = ciphertexts \cup {other}
    /\ UNCHANGED <<keyVars, encrypted, pieces, held, setVars>>

\* A collector that verifies picks the ciphertext it is to decrypt.
Take(c, ct) ==
    /\ verifying[c] /\ held[c] = None
    /\ held' = [held EXCEPT ![c] = ct]
    /\ UNCHANGED <<keyVars, netVars, setVars>>

\* TEPrivateKeyShare::getDecryptionShare throws on an inconsistent ciphertext.
GetDecryptionShare(i, ct) ==
    /\ IsConsistent(ct)
    /\ secretKeys[i] # 0
    /\ pieces' = pieces \cup {PieceOf(i, ct)}
    /\ UNCHANGED <<keyVars, encrypted, ciphertexts, held, setVars>>

Genuine == {PieceOf(i, ct) : i \in Signers, ct \in encrypted}

SendBadPiece(d) ==
    /\ Cardinality(pieces \ Genuine) < MaxBad
    /\ pieces' = pieces \cup {d}
    /\ UNCHANGED <<keyVars, encrypted, ciphertexts, held, setVars>>

\* Slip: was_merged is not looked at.
AddDecryptAfterMerge(c, d) ==
    /\ Accepts(c, d)
    /\ decrypts[c][d.index] = None
    /\ decrypts' = [decrypts EXCEPT ![c][d.index] = d.point]
    /\ UNCHANGED <<keyVars, netVars, held, wasMerged, plaintexts, aesKeys>>

\* addDecrypt throws for an index it has and once the set was merged.
AddDecrypt(c, d) ==
    /\ Accepts(c, d)
    /\ decrypts[c][d.index] = None
    /\ ~wasMerged[c]
    /\ decrypts' = [decrypts EXCEPT ![c][d.index] = d.point]
    /\ UNCHANGED <<keyVars, netVars, held, wasMerged, plaintexts, aesKeys>>

Answer(c, ct) == [of |-> ct, text |-> Unhide(ct.v, Combined(c))]

\* Slip: was_merged is set first, as it is in BLSSigShareSet::merge.
MergeSealsFirst(c, ct) ==
    /\ verifying[c] => ct = held[c]
    /\ plaintexts' = IF IsEnough(c) /\ IsConsistent(ct)
                     THEN [plaintexts EXCEPT ![c] = @ \cup {Answer(c, ct)}]
                     ELSE plaintexts
    /\ wasMerged' = [wasMerged EXCEPT ![c] = TRUE]
    /\ UNCHANGED <<keyVars, netVars, held, decrypts, aesKeys>>

\* merge() may be called at any time.  It throws on too few pieces, and on an
\* inconsistent ciphertext; was_merged is set last, so that a call that throws
\* leaves the set open.  The set is not bound to a ciphertext.
Merge(c, ct) ==
    /\ verifying[c] => ct = held[c]
    /\ IF IsEnough(c) /\ IsConsistent(ct)
       THEN /\ plaintexts' = [plaintexts EXCEPT ![c] = @ \cup {Answer(c, ct)}]
            /\ wasMerged' = [wasMerged EXCEPT ![c] = TRUE]
       ELSE UNCHANGED <<plaintexts, wasMerged>>
    /\ UNCHANGED <<keyVars, netVars, held, decrypts, aesKeys>>

\* mergeIntoAESKey() looks at neither the number of pieces nor a ciphertext.
\* With too few it reads past the end of the list of pieces, which is
\* undefined: any key may come out, and the set is sealed.
MergeIntoAESKey(c) ==
    /\ IsEnough(c) \/ ~verifying[c]
    /\ \E key \in Fr :
           /\ IsEnough(c) => key = Combined(c)
           /\ aesKeys' = [aesKeys EXCEPT ![c] = @ \cup {key}]
    /\ wasMerged' = [wasMerged EXCEPT ![c] = TRUE]
    /\ UNCHANGED <<keyVars, netVars, held, decrypts, plaintexts>>

Next ==
    \/ \E m \in Msgs, r \in Randoms : Encrypt(m, r)
    \/ \E ct \in encrypted : Damage(ct)
    \/ \E c \in Collectors, ct \in ciphertexts : Take(c, ct)
    \/ \E i \in Signers, ct \in ciphertexts : GetDecryptionShare(i, ct)
    \/ \E d \in [index : Index, point : BadPoints] : SendBadPiece(d)
    \/ \E c \in Collectors, d \in pieces : AddDecrypt(c, d)
    \/ \E c \in Collectors, ct \in ciphertexts : Merge(c, ct)
    \/ \E c \in Collectors : MergeIntoAESKey(c)

Spec == Init /\ [][Next]_vars

\* The environment a caller counts on: the holders in Honest give out a piece
\* of every sound ciphertext a collector decrypts, the network delivers it in
\* the end, and a collector that has enough pieces merges them.
Fairness(Honest) ==
    /\ \A c \in Collectors, i \in Honest :
           /\ WF_vars(held[c] # None /\ GetDecryptionShare(i, held[c]))
           /\ WF_vars(/\ held[c] # None
                      /\ PieceOf(i, held[c]) \in pieces
                      /\ AddDecrypt(c, PieceOf(i, held[c])))
    /\ \A c \in Collectors : WF_vars(held[c] # None /\ Merge(c, held[c]))

-----------------------------------------------------------------------------
(* Properties.                                                             *)

TypeOK ==
    /\ secretKeys \in [Signers -> NonZero]
    /\ commonKey \in NonZero
    /\ encrypted \subseteq Ciphertexts
    /\ ciphertexts \subseteq Ciphertexts
    /\ pieces \subseteq Pieces
    /\ verifying \in [Collectors -> BOOLEAN]
    /\ held \in [Collectors -> Ciphertexts \cup {None}]
    /\ decrypts \in [Collectors -> [Index -> NonZero \cup {None}]]
    /\ wasMerged \in [Collectors -> BOOLEAN]
    /\ plaintexts \in [Collectors -> SUBSET Plaintexts]
    /\ aesKeys \in [Collectors -> SUBSET Fr]

-----------------------------------------------------------------------------
(* The inductive invariant of the proofs in ThresholdEncryptionProofs.     *)

KeysOnOnePolynomial == \E pol \in KeyPolynomials : KeysOf(pol)

\* The pairing check lets through what encrypt() returned, and nothing else:
\* V hides the message with the common key's multiple of U.
SoundIsEncrypted ==
    /\ encrypted \subseteq ciphertexts
    /\ \A ct \in ciphertexts : IsConsistent(ct) => ct \in encrypted
    /\ \A ct \in encrypted : IsConsistent(ct) /\ ct.v.pad = Times(ct.u, commonKey)

\* A set holds, at its index, what was on the network and passed the checks.
StoredPiecesAccepted ==
    \A c \in Collectors :
        /\ held[c] # None => held[c] \in ciphertexts
        /\ \A i \in Indices(c) :
               LET d == [index |-> i, point |-> decrypts[c][i]]
               IN  d \in pieces /\ Accepts(c, d)

\* Whatever the calls returned to a collector so far came from the pieces that
\* are in its set.
Frozen(c) ==
    /\ plaintexts[c] # {} \/ aesKeys[c] # {} => wasMerged[c]
    /\ plaintexts[c] # {} \/ (verifying[c] /\ aesKeys[c] # {}) => IsEnough(c)
    /\ \A p \in plaintexts[c] :
           /\ p.of \in ciphertexts /\ IsConsistent(p.of)
           /\ p.text = Unhide(p.of.v, Combined(c))
           /\ verifying[c] => p.of = held[c]
    /\ verifying[c] => \A key \in aesKeys[c] : key = Combined(c)

MergedSetsAreFrozen == \A c \in Collectors : Frozen(c)

IInv ==
    /\ TypeOK /\ KeysOnOnePolynomial /\ SoundIsEncrypted
    /\ StoredPiecesAccepted /\ MergedSetsAreFrozen

-----------------------------------------------------------------------------
(* What the decryption promises.                                           *)

\* What merge() returns to a collector that verifies its pieces is the message
\* that was encrypted, and mergeIntoAESKey() the key it is hidden with, whichever
\* pieces arrived first and whatever else was on the network; and never anything
\* for a ciphertext that nobody encrypted.
VerifiedPiecesGiveTheMessage ==
    \A c \in Collectors : verifying[c] =>
        /\ plaintexts[c] # {} \/ aesKeys[c] # {} => held[c] \in encrypted
        /\ \A p \in plaintexts[c] : p = [of |-> held[c], text |-> held[c].v.msg]
        /\ \A key \in aesKeys[c] : key = held[c].v.pad

\* No call of merge() returns anything for a damaged ciphertext, even if its
\* pieces were not verified: the pieces of the sound one would fit its U.
DamagedIsNotMerged ==
    \A c \in Collectors : \A p \in plaintexts[c] : p.of \in encrypted

Contributors(ct) == {i \in Signers : PieceOf(i, ct) \in pieces}

\* A verifying collector decrypts only what requiredSigners different holders
\* gave out a piece of.
ThresholdOfHolders ==
    \A c \in Collectors : verifying[c] /\ (plaintexts[c] # {} \/ aesKeys[c] # {}) =>
        Cardinality(Contributors(held[c])) >= T

\* was_merged freezes the pieces: however often merge() is called, and whether
\* mergeIntoAESKey() sealed the set before, there is one plaintext of a
\* ciphertext; and there is one key if the caller waited for enough pieces.
OneAnswerPerSet ==
    \A c \in Collectors :
        /\ \A p, r \in plaintexts[c] : p.of = r.of => p.text = r.text
        /\ verifying[c] => Cardinality(aesKeys[c]) <= 1

\* The point a holder's polynomial gives at the index of a piece, for a
\* ciphertext with this U.
OnPolynomial(u, i, point) ==
    \A pol \in KeyPolynomials :
        KeysOf(pol) => point = Times(u, PolynomialValue(pol, i))

\* Unlike a signature, a plaintext cannot be verified.  One wrong piece among
\* those that take part, a piece of another ciphertext or one with index 0
\* included, garbles the plaintext, and so does a set of pieces that all belong
\* to a ciphertext with another U; they never make another message of it.
WrongPiecesGarble ==
    \A c \in Collectors : \A p \in plaintexts[c] :
        LET Fits(u) == {i \in Participants(c) : OnPolynomial(u, i, decrypts[c][i])}
        IN  \/ Cardinality(Participants(c) \ Fits(p.of.u)) = 1
            \/ \E u \in NonZero \ {p.of.u} : Fits(u) = Participants(c)
            => p.text = Garbled

\* A verifying collector that holds a sound ciphertext ends up with its
\* message if requiredSigners holders are honest, even if it calls merge() too
\* early: pieces are still taken after a call that threw.
SoundCiphertextIsDecrypted ==
    \A c \in Collectors : held[c] \in encrypted ~> plaintexts[c] # {}
=============================================================================
