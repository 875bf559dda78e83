---------------------- MODULE ThresholdEncryptionProofs ----------------------
(***************************************************************************)
(* Proofs about ThresholdEncryption: the invariant IInv is inductive, and  *)
(* the safety properties of the run follow from it.                        *)
(***************************************************************************)
EXTENDS ThresholdEncryption, PrimeFieldProofs

-----------------------------------------------------------------------------
(* Indices, values and ciphertexts.                                        *)

LEMMA IndexFacts ==
  /\ Index \subseteq Fr /\ Signers \subseteq Index /\ Signers \subseteq NonZero
  /\ Index \subseteq Nat /\ IsFiniteSet(Index)
  /\ Index \ {0} \subseteq NonZero
  /\ T \in Nat /\ T > 0
PROOF
<1>1. IsFiniteSet(Index)
  BY EncryptionConstants, FS_Interval DEF Index
<1> QED
  BY <1>1, EncryptionConstants, PIsPrime DEF Index, Signers, NonZero, Fr

\* The polynomial of key generation has values in Fr.
LEMMA KeysInFr ==
  ASSUME NEW pol \in KeyPolynomials
  PROVE  /\ pol[1] \in Fr
         /\ \A i \in Index : PolynomialValue(pol, i) \in Fr
PROOF
<1>1. pol \in [1..T -> Fr] /\ T \in Nat /\ 1 \in 1..T
  BY EncryptionConstants
<1> QED
  BY <1>1, IndexFacts, PolynomialValueInFr

LEMMA CiphertextFacts ==
  ASSUME NEW m \in Msgs, NEW r \in Randoms, NEW key \in NonZero
  PROVE  LET ct == CiphertextOf(m, r, key)
         IN  /\ ct \in Ciphertexts /\ IsConsistent(ct)
             /\ ct.v.pad = Times(ct.u, key)
PROOF
<1> DEFINE body == [u |-> r, v |-> [pad |-> Times(r, key), msg |-> m]]
<1>1. r \in NonZero
  BY EncryptionConstants
<1>2. Times(r, key) \in Fr
  BY <1>1, NoZeroDivisors, NonZeroFacts
<1>3. body \in Bodies
  BY <1>1, <1>2 DEF Bodies, Hidden
<1>4. CiphertextOf(m, r, key) = [u |-> r, v |-> body.v, w |-> [k |-> r, of |-> body]]
  BY DEF CiphertextOf
<1>5. body.v \in Hidden
  BY <1>2 DEF Hidden
<1> QED
  BY <1>1, <1>3, <1>4, <1>5 DEF Ciphertexts, IsConsistent, BodyOf

\* A ciphertext of which one component changed is still one, but no longer
\* consistent.
LEMMA AlteredFacts ==
  ASSUME NEW ct \in Ciphertexts, IsConsistent(ct), NEW other \in Altered(ct)
  PROVE  other \in Ciphertexts /\ ~IsConsistent(other)
PROOF
<1>1. /\ ct.u \in NonZero /\ ct.v \in Hidden /\ ct.w \in [k : NonZero, of : Bodies]
      /\ ct = [u |-> ct.u, v |-> ct.v, w |-> ct.w]
      /\ ct.v = [pad |-> ct.v.pad, msg |-> ct.v.msg] /\ ct.v.pad \in Fr
      /\ ct.w = [k |-> ct.w.k, of |-> ct.w.of] /\ ct.w.of \in Bodies
  BY DEF Ciphertexts, Hidden
<1>2. ct.w.of = [u |-> ct.u, v |-> ct.v] /\ ct.w.k = ct.u
  BY DEF IsConsistent, BodyOf
<1>3. other # ct
  BY DEF Altered
<1>4. Randoms \subseteq NonZero
  BY EncryptionConstants
<1>5. ASSUME NEW r \in Randoms, other = [ct EXCEPT !.u = r]
      PROVE  other \in Ciphertexts /\ ~IsConsistent(other)
  <2>1. other = [u |-> r, v |-> ct.v, w |-> ct.w] /\ r # ct.u
    BY <1>1, <1>3, <1>5
  <2> QED
    BY <1>1, <1>2, <1>4, <2>1 DEF Ciphertexts, IsConsistent, BodyOf
<1>6. ASSUME NEW m \in Msgs, other = [ct EXCEPT !.v.msg = m]
      PROVE  other \in Ciphertexts /\ ~IsConsistent(other)
  <2>1. other = [u |-> ct.u, v |-> [pad |-> ct.v.pad, msg |-> m], w |-> ct.w]
    BY <1>1, <1>6
  <2>2. m # ct.v.msg
    BY <1>1, <1>3, <2>1
  <2>3. [pad |-> ct.v.pad, msg |-> m] \in Hidden
    BY <1>1 DEF Hidden
  <2>4. other.w.of = [u |-> ct.u, v |-> ct.v] /\ BodyOf(other) = [u |-> ct.u, v |-> other.v]
    BY <1>2, <2>1 DEF BodyOf
  <2>5. other.v # ct.v
    BY <2>1, <2>2
  <2>6. ~IsConsistent(other)
    BY <2>4, <2>5 DEF IsConsistent
  <2> QED
    BY <1>1, <2>1, <2>3, <2>6 DEF Ciphertexts
<1>7. ASSUME NEW r \in Randoms, other = [ct EXCEPT !.w.k = r]
      PROVE  other \in Ciphertexts /\ ~IsConsistent(other)
  <2>1. other = [u |-> ct.u, v |-> ct.v, w |-> [k |-> r, of |-> ct.w.of]]
    BY <1>1, <1>7
  <2>2. r # ct.w.k
    BY <1>1, <1>3, <2>1
  <2> QED
    BY <1>1, <1>2, <1>4, <2>1, <2>2 DEF Ciphertexts, IsConsistent
<1> QED
  BY <1>5, <1>6, <1>7 DEF Altered

\* The constant None is neither a ciphertext nor a piece.
LEMMA NoneFacts == None \notin Ciphertexts /\ None \notin NonZero
BY EncryptionConstants

-----------------------------------------------------------------------------
(* What a merge computes.                                                  *)

LEMMA IndicesFacts ==
  ASSUME NEW c \in Collectors
  PROVE  /\ Indices(c) \in SUBSET Index /\ IsFiniteSet(Indices(c))
         /\ Participants(c) \in SUBSET Indices(c) /\ IsFiniteSet(Participants(c))
         /\ IsEnough(c) => Cardinality(Participants(c)) = T /\ Indices(c) # {}
PROOF
<1>1. Indices(c) \in SUBSET Index /\ Participants(c) \in SUBSET Indices(c)
  BY DEF Indices, Participants, Lowest
<1>2. IsFiniteSet(Indices(c)) /\ IsFiniteSet(Participants(c))
  BY <1>1, IndexFacts, FS_Subset
<1>3. ASSUME IsEnough(c) PROVE Indices(c) # {}
  BY <1>3, IndexFacts, FS_EmptySet DEF IsEnough
<1>4. ASSUME IsEnough(c) PROVE Cardinality(Participants(c)) = T
  <2>1. Indices(c) \in SUBSET Nat
    BY <1>1, IndexFacts
  <2> QED
    BY <1>2, <1>4, <2>1, IndexFacts, LowestHasT DEF IsEnough, Participants
<1> QED
  BY <1>1, <1>2, <1>3, <1>4

\* The pieces that take part.
Points(c) == [i \in Participants(c) |-> decrypts[c][i]]

LEMMA PointsFacts ==
  ASSUME TypeOK, NEW c \in Collectors
  PROVE  Points(c) \in [Participants(c) -> Fr] /\ Combined(c) = Recover(Points(c)) /\ Combined(c) \in Fr
PROOF
<1>1. decrypts[c] \in [Index -> NonZero \cup {None}]
  BY DEF TypeOK
<1>2. \A i \in Indices(c) : decrypts[c][i] \in NonZero
  BY <1>1 DEF Indices
<1>3. \A i \in Participants(c) : decrypts[c][i] \in Fr
  BY <1>2, IndicesFacts, NonZeroFacts
<1>4. Points(c) \in [Participants(c) -> Fr] /\ Combined(c) = Recover(Points(c))
  BY <1>3 DEF Points, Combined
<1>5. Participants(c) \in SUBSET Fr /\ IsFiniteSet(Participants(c))
  BY IndicesFacts, IndexFacts
<1> HIDE DEF Points
<1>6. Recover(Points(c)) \in Fr
  BY <1>4, <1>5, RecoverInFr
<1> QED
  BY <1>4, <1>6

\* With the index 0 among them the interpolation yields 0 whatever the pieces
\* are: the product of the indices is a factor of every coefficient.
LEMMA IndexZeroRecoversZero ==
  ASSUME NEW K \in SUBSET Fr, IsFiniteSet(K), 0 \in K, NEW f \in [K -> Fr]
  PROVE  Recover(f) = 0
PROOF
<1> DEFINE id == [j \in K |-> j]
           terms == [i \in K |-> Times(LagrangeCoeff(K, i), f[i])]
<1>1. \A x \in Nat : Times(0, x) = 0
  BY PIsPrime DEF Times
<1>2. Product(id) = 0
  <2>1. id \in [K -> Fr] /\ id[0] = 0
    OBVIOUS
  <2> HIDE DEF id
  <2>2. /\ Product([x \in K \ {0} |-> id[x]]) \in Fr
        /\ Product(id) = Times(id[0], Product([x \in K \ {0} |-> id[x]]))
    BY <2>1, ProductRemove
  <2> QED
    BY <1>1, <2>1, <2>2, FrFacts
<1>3. \A a : Invert(a) \in Nat
  <2> TAKE a
  <2>1. CASE \E b \in Fr : Times(a, b) = 1
    <3>1. Invert(a) = CHOOSE b \in Fr : Times(a, b) = 1
      BY <2>1 DEF Invert
    <3>2. (CHOOSE b \in Fr : Times(a, b) = 1) \in Fr
      BY <2>1
    <3> QED
      BY <3>1, <3>2, FrFacts
  <2>2. CASE ~(\E b \in Fr : Times(a, b) = 1)
    BY <2>2 DEF Invert
  <2> QED
    BY <2>1, <2>2
<1>4. ASSUME NEW i \in K PROVE LagrangeCoeff(K, i) = 0
  BY <1>1, <1>2, <1>3 DEF LagrangeCoeff
<1>5. terms \in [K -> Fr] /\ \A i \in K : terms[i] = 0
  BY <1>1, <1>4, FrFacts
<1>6. DOMAIN f = K
  OBVIOUS
<1>7. Recover(f) = Sum(terms)
  BY <1>6 DEF Recover
<1> HIDE DEF terms
<1> QED
  BY <1>5, <1>7, SumZeros

-----------------------------------------------------------------------------
(* Type correctness.                                                       *)

LEMMA TypeInit == Init => TypeOK
PROOF
<1> SUFFICES ASSUME Init PROVE TypeOK
  OBVIOUS
<1> PICK pol \in KeyPolynomials : KeysOf(pol)
  BY DEF Init
<1>1. secretKeys \in [Signers -> NonZero]
  BY KeysInFr, IndexFacts, NonZeroFacts DEF KeysOf
<1>2. commonKey \in NonZero
  BY KeysInFr, NonZeroFacts DEF KeysOf
<1> QED
  BY <1>1, <1>2 DEF Init, TypeOK

LEMMA TypeStep == TypeOK /\ SoundIsEncrypted /\ [Next]_vars => TypeOK'
PROOF
<1> SUFFICES ASSUME TypeOK, SoundIsEncrypted, [Next]_vars PROVE TypeOK'
  OBVIOUS
<1>1. CASE UNCHANGED vars
  BY <1>1 DEF TypeOK, vars
<1>2. ASSUME NEW m \in Msgs, NEW r \in Randoms, Encrypt(m, r)
      PROVE  TypeOK'
  <2>1. CiphertextOf(m, r, commonKey) \in Ciphertexts
    BY CiphertextFacts DEF TypeOK
  <2> QED
    BY <1>2, <2>1 DEF TypeOK, Encrypt, keyVars, setVars
<1>3. ASSUME NEW ct \in encrypted, Damage(ct)
      PROVE  TypeOK'
  <2>1. ct \in Ciphertexts /\ IsConsistent(ct)
    BY DEF TypeOK, SoundIsEncrypted
  <2>2. ciphertexts' \subseteq Ciphertexts
    BY <1>3, <2>1, AlteredFacts DEF Damage, TypeOK
  <2> QED
    BY <1>3, <2>2 DEF TypeOK, Damage, keyVars, setVars
<1>4. ASSUME NEW c \in Collectors, NEW ct \in ciphertexts, Take(c, ct)
      PROVE  TypeOK'
  BY <1>4 DEF TypeOK, Take, keyVars, netVars, setVars
<1>5. ASSUME NEW i \in Signers, NEW ct \in ciphertexts, GetDecryptionShare(i, ct)
      PROVE  TypeOK'
  <2>1. secretKeys[i] \in NonZero /\ ct.u \in NonZero /\ i \in Index
    BY IndexFacts DEF TypeOK, Ciphertexts
  <2>2. Times(secretKeys[i], ct.u) \in NonZero
    BY <2>1, NoZeroDivisors
  <2>3. PieceOf(i, ct) \in Pieces
    BY <2>1, <2>2 DEF PieceOf, Pieces
  <2> QED
    BY <1>5, <2>3 DEF TypeOK, GetDecryptionShare, keyVars, setVars
<1>6. ASSUME NEW d \in [index : Index, point : BadPoints], SendBadPiece(d)
      PROVE  TypeOK'
  <2>1. d \in Pieces
    BY EncryptionConstants DEF Pieces
  <2> QED
    BY <1>6, <2>1 DEF TypeOK, SendBadPiece, keyVars, setVars
<1>7. ASSUME NEW c \in Collectors, NEW d \in pieces, AddDecrypt(c, d)
      PROVE  TypeOK'
  <2>1. d.index \in Index /\ d.point \in NonZero
    BY DEF TypeOK, Pieces
  <2>2. decrypts' \in [Collectors -> [Index -> NonZero \cup {None}]]
    BY <1>7, <2>1 DEF TypeOK, AddDecrypt
  <2> QED
    BY <1>7, <2>2 DEF TypeOK, AddDecrypt, keyVars, netVars
<1>8. ASSUME NEW c \in Collectors, NEW ct \in ciphertexts, Merge(c, ct)
      PROVE  TypeOK'
  <2>1. ct \in Ciphertexts /\ ct.v.msg \in Msgs
    BY DEF TypeOK, Ciphertexts, Hidden
  <2>2. Answer(c, ct) \in Plaintexts
    BY <2>1 DEF Answer, Plaintexts, Unhide
  <2>3. \/ plaintexts' = plaintexts
        \/ plaintexts' = [plaintexts EXCEPT ![c] = plaintexts[c] \cup {Answer(c, ct)}]
    BY <1>8 DEF Merge
  <2>4. plaintexts' \in [Collectors -> SUBSET Plaintexts]
    BY <2>2, <2>3 DEF TypeOK
  <2>5. wasMerged' \in [Collectors -> BOOLEAN]
    BY <1>8 DEF TypeOK, Merge
  <2> QED
    BY <1>8, <2>4, <2>5 DEF TypeOK, Merge, keyVars, netVars
<1>9. ASSUME NEW c \in Collectors, MergeIntoAESKey(c)
      PROVE  TypeOK'
  <2>1. PICK key \in Fr : aesKeys' = [aesKeys EXCEPT ![c] = aesKeys[c] \cup {key}]
    BY <1>9 DEF MergeIntoAESKey
  <2>2. aesKeys' \in [Collectors -> SUBSET Fr]
    BY <2>1 DEF TypeOK
  <2>3. wasMerged' \in [Collectors -> BOOLEAN]
    BY <1>9 DEF TypeOK, MergeIntoAESKey
  <2> QED
    BY <1>9, <2>2, <2>3 DEF TypeOK, MergeIntoAESKey, keyVars, netVars
<1> QED
  BY <1>1, <1>2, <1>3, <1>4, <1>5, <1>6, <1>7, <1>8, <1>9 DEF Next

-----------------------------------------------------------------------------
(* The other parts of the inductive invariant.                             *)

LEMMA KeysStep == KeysOnOnePolynomial /\ [Next]_vars => KeysOnOnePolynomial'
PROOF
<1>1. [Next]_vars => UNCHANGED <<secretKeys, commonKey>>
  BY DEF Next, Encrypt, Damage, Take, GetDecryptionShare, SendBadPiece, AddDecrypt,
         Merge, MergeIntoAESKey, vars, keyVars
<1> QED
  BY <1>1 DEF KeysOnOnePolynomial, KeysOf

LEMMA SoundStep ==
  TypeOK /\ SoundIsEncrypted /\ [Next]_vars => SoundIsEncrypted'
PROOF
<1> SUFFICES ASSUME TypeOK, SoundIsEncrypted, [Next]_vars PROVE SoundIsEncrypted'
  OBVIOUS
<1>1. commonKey' = commonKey
  BY DEF Next, Encrypt, Damage, Take, GetDecryptionShare, SendBadPiece, AddDecrypt,
         Merge, MergeIntoAESKey, vars, keyVars
<1>2. CASE UNCHANGED <<encrypted, ciphertexts>>
  BY <1>1, <1>2 DEF SoundIsEncrypted
<1>3. ASSUME NEW m \in Msgs, NEW r \in Randoms, Encrypt(m, r)
      PROVE  SoundIsEncrypted'
  <2> DEFINE ct == CiphertextOf(m, r, commonKey)
  <2>1. IsConsistent(ct) /\ ct.v.pad = Times(ct.u, commonKey)
    BY CiphertextFacts DEF TypeOK
  <2>2. encrypted' = encrypted \cup {ct} /\ ciphertexts' = ciphertexts \cup {ct}
    BY <1>3 DEF Encrypt
  <2> HIDE DEF ct
  <2> QED
    BY <1>1, <2>1, <2>2 DEF SoundIsEncrypted
<1>4. ASSUME NEW ct \in encrypted, Damage(ct)
      PROVE  SoundIsEncrypted'
  <2>1. ct \in Ciphertexts /\ IsConsistent(ct)
    BY DEF TypeOK, SoundIsEncrypted
  <2>2. PICK other \in Altered(ct) : ciphertexts' = ciphertexts \cup {other}
    BY <1>4 DEF Damage
  <2>3. ~IsConsistent(other) /\ encrypted' = encrypted
    BY <1>4, <2>1, AlteredFacts DEF Damage
  <2> QED
    BY <1>1, <2>2, <2>3 DEF SoundIsEncrypted
<1> QED
  BY <1>2, <1>3, <1>4 DEF Next, Take, GetDecryptionShare, SendBadPiece, AddDecrypt,
     Merge, MergeIntoAESKey, vars, netVars

\* The network loses nothing, the keys stay, and a collector keeps to the
\* ciphertext it took.
LEMMA Monotone ==
  ASSUME TypeOK, [Next]_vars
  PROVE  /\ pieces \subseteq pieces' /\ ciphertexts \subseteq ciphertexts'
         /\ secretKeys' = secretKeys /\ verifying' = verifying
         /\ \A c \in Collectors : held'[c] = held[c] \/ (held[c] = None /\ held'[c] \in ciphertexts')
PROOF
<1>1. /\ pieces \subseteq pieces' /\ ciphertexts \subseteq ciphertexts'
      /\ secretKeys' = secretKeys /\ verifying' = verifying
  BY DEF Next, Encrypt, Damage, Take, GetDecryptionShare, SendBadPiece, AddDecrypt,
         Merge, MergeIntoAESKey, vars, keyVars, netVars
<1>2. CASE UNCHANGED held
  BY <1>1, <1>2
<1>3. ASSUME NEW c \in Collectors, NEW ct \in ciphertexts, Take(c, ct)
      PROVE  \A d \in Collectors : held'[d] = held[d] \/ (held[d] = None /\ held'[d] \in ciphertexts')
  BY <1>1, <1>3 DEF Take, TypeOK
<1> QED
  BY <1>1, <1>2, <1>3 DEF Next, Encrypt, Damage, GetDecryptionShare, SendBadPiece,
     AddDecrypt, Merge, MergeIntoAESKey, vars

LEMMA AcceptsStays ==
  ASSUME TypeOK, [Next]_vars, NEW c \in Collectors, NEW d, Accepts(c, d)
  PROVE  Accepts(c, d)'
PROOF
<1>1. verifying' = verifying /\ secretKeys' = secretKeys
  BY Monotone
<1>2. verifying[c] => held[c] # None
  BY DEF Accepts
<1>3. verifying[c] => held'[c] = held[c]
  BY <1>2, Monotone
<1> QED
  BY <1>1, <1>3 DEF Accepts, Verify

LEMMA StoredStep ==
  TypeOK /\ StoredPiecesAccepted /\ [Next]_vars => StoredPiecesAccepted'
PROOF
<1> SUFFICES ASSUME TypeOK, StoredPiecesAccepted, [Next]_vars
             PROVE  StoredPiecesAccepted'
  OBVIOUS
<1>1. \A c \in Collectors : held'[c] # None => held'[c] \in ciphertexts'
  BY Monotone DEF StoredPiecesAccepted
<1>2. ASSUME NEW c \in Collectors, NEW i \in Index, decrypts'[c][i] # None
      PROVE  \E d \in pieces : /\ d = [index |-> i, point |-> decrypts'[c][i]]
                               /\ Accepts(c, d)
  <2>1. CASE decrypts'[c][i] = decrypts[c][i]
    <3>1. i \in Indices(c)
      BY <1>2, <2>1 DEF Indices
    <3> QED
      BY <2>1, <3>1 DEF StoredPiecesAccepted
  <2>2. CASE decrypts'[c][i] # decrypts[c][i]
    <3>1. PICK k \in Collectors, d \in pieces : AddDecrypt(k, d)
      BY <2>2 DEF Next, Encrypt, Damage, Take, GetDecryptionShare, SendBadPiece,
         Merge, MergeIntoAESKey, vars, setVars
    <3>2. d \in Pieces
      BY DEF TypeOK
    <3>3. k = c /\ d.index = i /\ decrypts'[c][i] = d.point
      BY <2>2, <3>1, <3>2 DEF AddDecrypt, TypeOK, Pieces
    <3> QED
      BY <3>1, <3>2, <3>3 DEF AddDecrypt, Pieces
  <2> QED
    BY <2>1, <2>2
<1>3. ASSUME NEW c \in Collectors, NEW i \in Index, decrypts'[c][i] # None
      PROVE  (LET d == [index |-> i, point |-> decrypts[c][i]]
              IN  d \in pieces /\ Accepts(c, d))'
  <2>1. PICK d \in pieces : /\ d = [index |-> i, point |-> decrypts'[c][i]]
                            /\ Accepts(c, d)
    BY <1>2, <1>3
  <2>2. Accepts(c, d)'
    BY <2>1, AcceptsStays
  <2> QED
    BY <2>1, <2>2, Monotone DEF Accepts, Verify
<1> QED
  BY <1>1, <1>3 DEF StoredPiecesAccepted, Indices

\* What a merge computes depends on the pieces in the set only.
LEMMA SameSet ==
  ASSUME NEW c \in Collectors, decrypts'[c] = decrypts[c]
  PROVE  /\ Indices(c)' = Indices(c)
         /\ IsEnough(c)' = IsEnough(c)
         /\ Combined(c)' = Combined(c)
BY DEF Indices, IsEnough, Combined, Participants

\* No step changes what a sealed set answers, and a set that is not sealed has
\* answered nothing.
LEMMA FrozenStep ==
  ASSUME TypeOK, StoredPiecesAccepted, [Next]_vars, NEW c \in Collectors, Frozen(c)
  PROVE  Frozen(c)'
PROOF
<1>1. /\ ciphertexts \subseteq ciphertexts' /\ verifying' = verifying
      /\ held'[c] = held[c] \/ held[c] = None
  BY Monotone
<1>2. \A p \in plaintexts[c] : verifying[c] => held'[c] = held[c]
  <2> SUFFICES ASSUME plaintexts[c] # {}, verifying[c] PROVE held[c] # None
    BY <1>1
  <2>1. PICK i \in Indices(c) : TRUE
    BY IndicesFacts DEF Frozen
  <2> QED
    BY <2>1 DEF StoredPiecesAccepted, Accepts
<1>3. CASE UNCHANGED <<decrypts[c], wasMerged[c], plaintexts[c], aesKeys[c]>>
  BY <1>1, <1>2, <1>3, SameSet DEF Frozen
<1>4. CASE decrypts'[c] # decrypts[c]
  <2>1. PICK k \in Collectors, d \in pieces : AddDecrypt(k, d)
    BY <1>4 DEF Next, Encrypt, Damage, Take, GetDecryptionShare, SendBadPiece,
       Merge, MergeIntoAESKey, vars, setVars
  <2>2. k = c
    BY <1>4, <2>1 DEF AddDecrypt, TypeOK
  <2>3. plaintexts[c] = {} /\ aesKeys[c] = {}
    BY <2>1, <2>2 DEF AddDecrypt, Frozen
  <2>4. plaintexts'[c] = {} /\ aesKeys'[c] = {}
    BY <2>1, <2>3 DEF AddDecrypt
  <2> QED
    BY <2>4 DEF Frozen
<1>5. ASSUME NEW ct \in ciphertexts, Merge(c, ct), IsEnough(c), IsConsistent(ct)
      PROVE  Frozen(c)'
  <2> DEFINE p == Answer(c, ct)
  <2>1. /\ p.of = ct /\ p.text = Unhide(ct.v, Combined(c))
    BY DEF Answer
  <2>2. plaintexts' = [plaintexts EXCEPT ![c] = plaintexts[c] \cup {p}]
    BY <1>5 DEF Merge
  <2> HIDE DEF p
  <2>3. \A x \in plaintexts'[c] : x \in plaintexts[c] \/ x = p
    BY <2>2 DEF TypeOK
  <2>4. /\ wasMerged'[c] /\ decrypts'[c] = decrypts[c] /\ aesKeys' = aesKeys
        /\ IsEnough(c) /\ IsConsistent(ct) /\ held' = held
        /\ verifying[c] => ct = held[c]
    BY <1>5 DEF Merge, TypeOK
  <2>5. IsEnough(c)' /\ Combined(c)' = Combined(c)
    BY <2>4, SameSet
  <2>6. \A x \in plaintexts'[c] :
           /\ x.of \in ciphertexts' /\ IsConsistent(x.of)
           /\ x.text = Unhide(x.of.v, Combined(c))
           /\ verifying[c] => x.of = held'[c]
    BY <1>1, <2>1, <2>3, <2>4 DEF Frozen
  <2>7. verifying[c] => \A key \in aesKeys'[c] : key = Combined(c)
    BY <2>4 DEF Frozen
  <2> QED
    BY <1>1, <2>4, <2>5, <2>6, <2>7 DEF Frozen
<1>6. ASSUME MergeIntoAESKey(c)
      PROVE  Frozen(c)'
  <2>1. PICK key \in Fr : /\ IsEnough(c) => key = Combined(c)
                          /\ aesKeys' = [aesKeys EXCEPT ![c] = aesKeys[c] \cup {key}]
    BY <1>6 DEF MergeIntoAESKey
  <2>2. aesKeys'[c] = aesKeys[c] \cup {key}
    BY <2>1 DEF TypeOK
  <2>3. /\ wasMerged'[c] /\ decrypts'[c] = decrypts[c] /\ held' = held
        /\ plaintexts' = plaintexts /\ (verifying[c] => IsEnough(c))
    BY <1>6 DEF MergeIntoAESKey, TypeOK
  <2>4. IsEnough(c)' = IsEnough(c) /\ Combined(c)' = Combined(c)
    BY <2>3, SameSet
  <2>5. verifying[c] => \A k \in aesKeys'[c] : k = Combined(c)
    BY <2>1, <2>2, <2>3 DEF Frozen
  <2> QED
    BY <1>1, <2>3, <2>4, <2>5 DEF Frozen
<1>7. ASSUME NEW k \in Collectors, NEW ct \in ciphertexts, Merge(k, ct),
             k # c \/ ~(IsEnough(k) /\ IsConsistent(ct))
      PROVE  Frozen(c)'
  BY <1>3, <1>7 DEF Merge, TypeOK
<1>8. ASSUME NEW k \in Collectors, k # c, MergeIntoAESKey(k)
      PROVE  Frozen(c)'
  BY <1>3, <1>8 DEF MergeIntoAESKey, TypeOK
<1>9. ASSUME NEW k \in Collectors, NEW d \in pieces, AddDecrypt(k, d)
      PROVE  Frozen(c)'
  BY <1>3, <1>4, <1>9 DEF AddDecrypt
<1> QED
  BY <1>3, <1>5, <1>6, <1>7, <1>8, <1>9 DEF Next, Encrypt, Damage, Take,
     GetDecryptionShare, SendBadPiece, vars, setVars

\* The invariant that all safety properties below follow from.
THEOREM Invariant == Spec => []IInv
PROOF
<1>1. Init => IInv
  <2> SUFFICES ASSUME Init PROVE IInv
    OBVIOUS
  <2>1. KeysOnOnePolynomial /\ SoundIsEncrypted
    BY DEF Init, KeysOnOnePolynomial, SoundIsEncrypted
  <2>2. StoredPiecesAccepted
    BY DEF Init, StoredPiecesAccepted, Indices
  <2>3. MergedSetsAreFrozen
    BY DEF Init, MergedSetsAreFrozen, Frozen
  <2> QED
    BY <2>1, <2>2, <2>3, TypeInit DEF IInv
<1>2. IInv /\ [Next]_vars => IInv'
  <2> SUFFICES ASSUME IInv, [Next]_vars PROVE IInv'
    OBVIOUS
  <2>1. TypeOK' /\ KeysOnOnePolynomial' /\ SoundIsEncrypted' /\ StoredPiecesAccepted'
    BY TypeStep, KeysStep, SoundStep, StoredStep DEF IInv
  <2>2. ASSUME NEW c \in Collectors PROVE Frozen(c)'
    BY FrozenStep DEF IInv, MergedSetsAreFrozen
  <2>3. MergedSetsAreFrozen'
    BY <2>2 DEF MergedSetsAreFrozen
  <2> QED
    BY <2>1, <2>3 DEF IInv
<1> QED
  BY <1>1, <1>2, PTL DEF Spec

\* Every value keeps its type: no piece on the network is the zero point and
\* no plaintext is anything but a message or garbage.
THEOREM TypeCorrect == Spec => []TypeOK
PROOF
<1>1. IInv => TypeOK
  BY DEF IInv
<1> QED
  BY <1>1, Invariant, PTL

-----------------------------------------------------------------------------
(* The safety properties.                                                  *)

\* Pieces that are the multiples of one U by the holders' keys recover the
\* point with which an encryption with that U hides its message; with the
\* index 0 among them they recover the zero point.
LEMMA RecoverAt ==
  ASSUME TypeOK, NEW c \in Collectors, IsEnough(c),
         NEW pol \in KeyPolynomials, KeysOf(pol), NEW u \in NonZero,
         \A i \in Participants(c) : decrypts[c][i] = Times(u, PolynomialValue(pol, i))
  PROVE  Combined(c) = IF 0 \in Participants(c) THEN 0 ELSE Times(u, commonKey)
PROOF
<1> DEFINE K == Participants(c)
           g == [i \in K |-> Times(u, PolynomialValue(pol, i))]
<1>1. K \in SUBSET Index /\ IsFiniteSet(K) /\ Cardinality(K) = T
  BY IndicesFacts
<1>2. T \in Nat /\ T >= 1 /\ pol \in [1..T -> Fr] /\ u \in Fr
  BY EncryptionConstants, IndexFacts, NonZeroFacts
<1>3. Points(c) = g /\ Points(c) \in [K -> Fr] /\ Combined(c) = Recover(Points(c))
  <2>1. Points(c) = g
    BY DEF Points
  <2> QED
    BY <2>1, PointsFacts
<1>4. commonKey = pol[1]
  BY DEF KeysOf
<1>5. K \in SUBSET Fr /\ (0 \notin K => K \in SUBSET NonZero)
  BY <1>1, IndexFacts
<1>6. 0 \notin K => Recover([i \in K |-> Times(u, PolynomialValue(pol, i))]) = Times(u, pol[1])
  <2> HIDE DEF K, g
  <2> QED
    BY <1>1, <1>2, <1>5, Interpolation
<1>7. 0 \in K => Recover(Points(c)) = 0
  <2> HIDE DEF K, g
  <2> QED
    BY <1>1, <1>3, <1>5, IndexZeroRecoversZero
<1> QED
  BY <1>3, <1>4, <1>6, <1>7

\* If exactly one of them is not, they recover something else.
LEMMA RecoverElsewhere ==
  ASSUME TypeOK, NEW c \in Collectors, IsEnough(c),
         NEW pol \in KeyPolynomials, KeysOf(pol), NEW u \in NonZero,
         NEW b \in Participants(c),
         \A i \in Participants(c) :
             decrypts[c][i] = Times(u, PolynomialValue(pol, i)) <=> i # b
  PROVE  Combined(c) # Times(u, commonKey)
PROOF
<1> DEFINE K == Participants(c)
           f == Points(c)
           g == [i \in K |-> Times(u, PolynomialValue(pol, i))]
<1>1. K \in SUBSET Index /\ K \in SUBSET Fr /\ IsFiniteSet(K) /\ Cardinality(K) = T /\ b \in K
  BY IndicesFacts, IndexFacts
<1>2. T \in Nat /\ T >= 1 /\ pol \in [1..T -> Fr] /\ u \in Fr
  BY EncryptionConstants, IndexFacts, NonZeroFacts
<1>3. f \in [K -> Fr] /\ Combined(c) = Recover(f)
  BY PointsFacts
<1>4. commonKey = pol[1] /\ commonKey \in NonZero
  BY DEF KeysOf, TypeOK
<1>5. Times(u, commonKey) \in NonZero
  BY <1>4, NoZeroDivisors
<1>6. \A i \in K : PolynomialValue(pol, i) \in Fr
  BY <1>1, KeysInFr
<1>7. g \in [K -> Fr]
  <2> HIDE DEF K
  <2> QED
    BY <1>2, <1>6, FrFacts
<1>8. f[b] # g[b] /\ \A i \in K \ {b} : f[i] = g[i]
  BY DEF Points
<1>9. CASE 0 \in K
  <2> HIDE DEF K, f, g
  <2>1. Recover(f) = 0
    BY <1>1, <1>3, <1>9, IndexZeroRecoversZero
  <2> QED
    BY <1>3, <1>5, <2>1, NonZeroFacts
<1>10. CASE 0 \notin K
  <2>1. K \in SUBSET NonZero
    BY <1>1, <1>10, IndexFacts
  <2>2. Recover(g) = Times(u, pol[1])
    <3> HIDE DEF K
    <3> QED
      BY <1>1, <1>2, <2>1, Interpolation
  <2> HIDE DEF K, f, g
  <2>3. Recover(f) # Recover(g)
    BY <1>1, <1>3, <1>7, <1>8, <2>1, OneShareChangesTheResult
  <2> QED
    BY <1>3, <1>4, <2>2, <2>3
<1> QED
  BY <1>9, <1>10

\* What a verifying collector knows of the pieces it stored.
LEMMA VerifiedFacts ==
  ASSUME IInv, NEW c \in Collectors, verifying[c], IsEnough(c)
  PROVE  /\ held[c] \in encrypted /\ held[c] \in Ciphertexts
         /\ held[c].v.pad = Times(held[c].u, commonKey)
         /\ Indices(c) \in SUBSET Contributors(held[c])
         /\ \A i \in Indices(c) :
                i \in Signers /\ decrypts[c][i] = Times(held[c].u, secretKeys[i])
PROOF
<1>1. ASSUME NEW i \in Indices(c)
      PROVE  /\ held[c] # None /\ i \in Signers /\ IsConsistent(held[c])
             /\ decrypts[c][i] = Times(held[c].w.k, secretKeys[i])
             /\ [index |-> i, point |-> decrypts[c][i]] \in pieces
  BY <1>1 DEF IInv, StoredPiecesAccepted, Accepts, Verify
<1>2. held[c] \in ciphertexts /\ IsConsistent(held[c])
  BY <1>1, IndicesFacts DEF IInv, StoredPiecesAccepted
<1>3. /\ held[c] \in encrypted /\ held[c] \in Ciphertexts /\ held[c].w.k = held[c].u
      /\ held[c].v.pad = Times(held[c].u, commonKey)
  BY <1>2 DEF IInv, SoundIsEncrypted, TypeOK, IsConsistent
<1>4. ASSUME NEW i \in Indices(c)
      PROVE  i \in Contributors(held[c])
  <2>1. secretKeys[i] \in Nat /\ held[c].u \in Nat
    BY <1>1, <1>3, NonZeroFacts, FrFacts DEF IInv, TypeOK, Ciphertexts
  <2>2. Times(held[c].u, secretKeys[i]) = Times(secretKeys[i], held[c].u)
    BY <2>1, Commutes
  <2>3. PieceOf(i, held[c]) = [index |-> i, point |-> decrypts[c][i]]
    BY <1>1, <1>3, <2>2 DEF PieceOf
  <2> QED
    BY <1>1, <2>3 DEF Contributors
<1> QED
  BY <1>1, <1>3, <1>4

\* So its merge gives the point that hides the message.
LEMMA VerifiedRecover ==
  ASSUME IInv, NEW c \in Collectors, verifying[c], IsEnough(c)
  PROVE  Combined(c) = held[c].v.pad
PROOF
<1> PICK pol \in KeyPolynomials : KeysOf(pol)
  BY DEF IInv, KeysOnOnePolynomial
<1>1. held[c].u \in NonZero /\ held[c].v.pad = Times(held[c].u, commonKey)
  BY VerifiedFacts DEF Ciphertexts
<1>2. ASSUME NEW i \in Participants(c)
      PROVE  i # 0 /\ decrypts[c][i] = Times(held[c].u, PolynomialValue(pol, i))
  BY VerifiedFacts, IndicesFacts, IndexFacts, NonZeroFacts DEF KeysOf
<1>3. TypeOK
  BY DEF IInv
<1>4. Combined(c) = IF 0 \in Participants(c) THEN 0 ELSE Times(held[c].u, commonKey)
  BY <1>1, <1>2, <1>3, RecoverAt
<1> QED
  BY <1>1, <1>2, <1>4

\* A collector that verifies pieces gets the message and the key that were
\* encrypted, whichever pieces arrived, and only for what was encrypted.
THEOREM VerifiedPieces == Spec => []VerifiedPiecesGiveTheMessage
PROOF
<1>1. IInv => VerifiedPiecesGiveTheMessage
  <2> SUFFICES ASSUME IInv, NEW c \in Collectors, verifying[c]
               PROVE  /\ plaintexts[c] # {} \/ aesKeys[c] # {} => held[c] \in encrypted
                      /\ \A p \in plaintexts[c] : p = [of |-> held[c], text |-> held[c].v.msg]
                      /\ \A key \in aesKeys[c] : key = held[c].v.pad
    BY DEF VerifiedPiecesGiveTheMessage
  <2>1. plaintexts[c] # {} \/ aesKeys[c] # {} => IsEnough(c)
    BY DEF IInv, MergedSetsAreFrozen, Frozen
  <2>2. ASSUME NEW p \in plaintexts[c]
        PROVE  p = [of |-> held[c], text |-> held[c].v.msg]
    <3>1. p.of = held[c] /\ p.text = Unhide(p.of.v, Combined(c))
      BY DEF IInv, MergedSetsAreFrozen, Frozen
    <3>2. p.text = held[c].v.msg
      BY <2>1, <3>1, VerifiedRecover DEF Unhide
    <3>3. p \in Plaintexts
      BY DEF IInv, TypeOK
    <3> QED
      BY <3>1, <3>2, <3>3 DEF Plaintexts
  <2>3. \A key \in aesKeys[c] : key = held[c].v.pad
    BY <2>1, VerifiedRecover DEF IInv, MergedSetsAreFrozen, Frozen
  <2> QED
    BY <2>1, <2>2, <2>3, VerifiedFacts
<1> QED
  BY <1>1, Invariant, PTL

\* requiredSigners different holders gave out a piece of what a verifying
\* collector decrypts.
THEOREM HoldersTookPart == Spec => []ThresholdOfHolders
PROOF
<1>1. IInv => ThresholdOfHolders
  <2> SUFFICES ASSUME IInv, NEW c \in Collectors, verifying[c],
                      plaintexts[c] # {} \/ aesKeys[c] # {}
               PROVE  Cardinality(Contributors(held[c])) >= T
    BY DEF ThresholdOfHolders
  <2>1. IsEnough(c)
    BY DEF IInv, MergedSetsAreFrozen, Frozen
  <2>2. Contributors(held[c]) \subseteq Index
    BY IndexFacts DEF Contributors
  <2>3. IsFiniteSet(Contributors(held[c])) /\ IsFiniteSet(Indices(c))
    BY <2>2, IndexFacts, IndicesFacts, FS_Subset
  <2>4. Indices(c) \in SUBSET Contributors(held[c])
    BY <2>1, VerifiedFacts
  <2>5. /\ Cardinality(Indices(c)) <= Cardinality(Contributors(held[c]))
        /\ Cardinality(Indices(c)) \in Nat /\ Cardinality(Contributors(held[c])) \in Nat
    BY <2>3, <2>4, FS_Subset, FS_CardinalityType
  <2> QED
    BY <2>1, <2>5, IndexFacts DEF IsEnough
<1> QED
  BY <1>1, Invariant, PTL

\* merge() returns nothing for a damaged ciphertext, verified pieces or not.
THEOREM NothingForDamaged == Spec => []DamagedIsNotMerged
PROOF
<1>1. IInv => DamagedIsNotMerged
  BY DEF IInv, MergedSetsAreFrozen, Frozen, SoundIsEncrypted, DamagedIsNotMerged
<1> QED
  BY <1>1, Invariant, PTL

\* A merged set gives the same answer every time it is asked.
THEOREM OneAnswer == Spec => []OneAnswerPerSet
PROOF
<1>1. IInv => OneAnswerPerSet
  <2> SUFFICES ASSUME IInv, NEW c \in Collectors
               PROVE  /\ \A p, r \in plaintexts[c] : p.of = r.of => p.text = r.text
                      /\ verifying[c] => Cardinality(aesKeys[c]) <= 1
    BY DEF OneAnswerPerSet
  <2>1. \A p, r \in plaintexts[c] : p.of = r.of => p.text = r.text
    BY DEF IInv, MergedSetsAreFrozen, Frozen
  <2>2. ASSUME verifying[c] PROVE Cardinality(aesKeys[c]) <= 1
    <3>1. aesKeys[c] = {} \/ aesKeys[c] = {Combined(c)}
      BY <2>2 DEF IInv, MergedSetsAreFrozen, Frozen
    <3> QED
      BY <3>1, FS_EmptySet, FS_Singleton
  <2> QED
    BY <2>1, <2>2
<1> QED
  BY <1>1, Invariant, PTL

\* One wrong piece garbles the plaintext, and so do pieces of another
\* ciphertext: whatever the collector did not check, it gets no other message.
THEOREM WrongPieces == Spec => []WrongPiecesGarble
PROOF
<1>1. IInv => WrongPiecesGarble
  <2> DEFINE Fits(c, u) == {i \in Participants(c) : OnPolynomial(u, i, decrypts[c][i])}
  <2> SUFFICES ASSUME IInv, NEW c \in Collectors, NEW p \in plaintexts[c],
                      \/ Cardinality(Participants(c) \ Fits(c, p.of.u)) = 1
                      \/ \E u \in NonZero \ {p.of.u} : Fits(c, u) = Participants(c)
               PROVE  p.text = Garbled
    BY DEF WrongPiecesGarble
  <2>1. /\ TypeOK /\ IsEnough(c) /\ p.of \in encrypted
        /\ p.text = Unhide(p.of.v, Combined(c))
    BY DEF IInv, MergedSetsAreFrozen, Frozen, SoundIsEncrypted
  <2>2. /\ p.of.u \in NonZero /\ commonKey \in NonZero
        /\ p.of.v.pad = Times(p.of.u, commonKey) /\ p.of.v.pad \in NonZero
    <3>1. p.of.u \in NonZero /\ commonKey \in NonZero /\ p.of.v.pad = Times(p.of.u, commonKey)
      BY <2>1 DEF IInv, TypeOK, SoundIsEncrypted, Ciphertexts
    <3> QED
      BY <3>1, NoZeroDivisors
  <2>3. SUFFICES Combined(c) # Times(p.of.u, commonKey)
    BY <2>1, <2>2 DEF Unhide
  <2>4. CASE Cardinality(Participants(c) \ Fits(c, p.of.u)) = 1
    <3> DEFINE Odd == Participants(c) \ Fits(c, p.of.u)
    <3>1. IsFiniteSet(Odd)
      BY IndicesFacts, FS_Subset
    <3>2. PICK b : Odd = {b}
      <4> HIDE DEF Odd
      <4> QED
        BY <2>4, <3>1, FS_Singleton DEF Odd
    <3>3. PICK pol \in KeyPolynomials :
              KeysOf(pol) /\ decrypts[c][b] # Times(p.of.u, PolynomialValue(pol, b))
      BY <3>2 DEF OnPolynomial
    <3>4. b \in Participants(c) /\ \A i \in Participants(c) :
              decrypts[c][i] = Times(p.of.u, PolynomialValue(pol, i)) <=> i # b
      BY <3>2, <3>3 DEF OnPolynomial
    <3> QED
      BY <2>1, <2>2, <3>3, <3>4, RecoverElsewhere
  <2>5. ASSUME NEW u \in NonZero \ {p.of.u}, Fits(c, u) = Participants(c)
        PROVE  Combined(c) # Times(p.of.u, commonKey)
    <3>1. PICK pol \in KeyPolynomials : KeysOf(pol)
      BY DEF IInv, KeysOnOnePolynomial
    <3>2. \A i \in Participants(c) : decrypts[c][i] = Times(u, PolynomialValue(pol, i))
      BY <2>5, <3>1 DEF OnPolynomial
    <3>3. Combined(c) = IF 0 \in Participants(c) THEN 0 ELSE Times(u, commonKey)
      BY <2>1, <3>1, <3>2, RecoverAt
    <3>4. Times(u, commonKey) # Times(p.of.u, commonKey)
      <4>1. u \in Fr /\ p.of.u \in Fr /\ u \in Nat /\ p.of.u \in Nat /\ commonKey \in Nat
        BY <2>2, NonZeroFacts, FrFacts
      <4>2. Times(u, commonKey) = Times(commonKey, u) /\ Times(p.of.u, commonKey) = Times(commonKey, p.of.u)
        BY <4>1, Commutes
      <4> QED
        BY <2>2, <4>1, <4>2, TimesCancel
    <3> QED
      BY <2>2, <3>3, <3>4, NonZeroFacts
  <2> QED
    BY <2>4, <2>5
<1> QED
  BY <1>1, Invariant, PTL

=============================================================================
