----------------------- MODULE ThresholdSigningProofs -----------------------
(***************************************************************************)
(* Proofs about ThresholdSigning: the invariant IInv is inductive, and the *)
(* safety properties of the runs follow from it.                           *)
(***************************************************************************)
EXTENDS ThresholdSigning, PrimeFieldProofs

-----------------------------------------------------------------------------
(* Indices and values.                                                     *)

LEMMA IndexFacts ==
  /\ Index \subseteq NonZero /\ Signers \subseteq Index
  /\ NonZero \subseteq Fr /\ IsFiniteSet(Index)
  /\ T \in Nat /\ T > 0
PROOF
<1>1. IsFiniteSet(Index)
  BY SigningConstants, FS_Interval DEF Index
<1> QED
  BY <1>1, SigningConstants, PIsPrime DEF Index, Signers, NonZero, Fr

\* Bls::Signing of a key other than zero is never the zero point.
LEMMA SigningNonZero ==
  ASSUME NEW m \in Msgs, NEW key \in NonZero
  PROVE  Signing(m, key) \in NonZero
BY NoZeroDivisors, SigningConstants DEF Signing

\* The lowest index of a set of indices, as the first entry of the map.
LEMMA MinIsLeast ==
  ASSUME NEW K \in SUBSET Index, K # {}
  PROVE  Min(K) \in K /\ \A k \in K : Min(K) <= k
PROOF
<1>1. K \in SUBSET Nat
  BY IndexFacts, FrFacts
<1> QED
  BY <1>1, LeastIndex DEF Min

\* The polynomial of key generation has values in Fr.
LEMMA KeysInFr ==
  ASSUME NEW pol \in KeyPolynomials
  PROVE  /\ pol[1] \in Fr
         /\ \A i \in Index : PolynomialValue(pol, i) \in Fr
PROOF
<1>1. pol \in [1..T -> Fr] /\ T \in Nat /\ 1 \in 1..T
  BY SigningConstants
<1> QED
  BY <1>1, IndexFacts, PolynomialValueInFr

-----------------------------------------------------------------------------
(* What merge() returns.                                                   *)

LEMMA IndicesFacts ==
  ASSUME NEW c \in Collectors
  PROVE  /\ Indices(c) \subseteq Index /\ IsFiniteSet(Indices(c))
         /\ Participants(c) \subseteq Indices(c) /\ IsFiniteSet(Participants(c))
         /\ IsEnough(c) => Indices(c) # {}
PROOF
<1>1. Indices(c) \subseteq Index /\ Participants(c) \subseteq Indices(c)
  BY DEF Indices, Participants, Lowest
<1>2. IsFiniteSet(Indices(c)) /\ IsFiniteSet(Participants(c))
  BY <1>1, IndexFacts, FS_Subset
<1>3. ASSUME IsEnough(c), Indices(c) = {} PROVE FALSE
  BY <1>3, IndexFacts, FS_EmptySet DEF IsEnough
<1> QED
  BY <1>1, <1>2, <1>3

\* LagrangeCoeffs gets exactly T indices.
LEMMA ParticipantsFacts ==
  ASSUME NEW c \in Collectors, IsEnough(c)
  PROVE  /\ Participants(c) \in SUBSET Index
         /\ Participants(c) \in SUBSET NonZero /\ IsFiniteSet(Participants(c))
         /\ Cardinality(Participants(c)) = T
PROOF
<1>1. Indices(c) \in SUBSET Nat
  BY IndicesFacts, IndexFacts, FrFacts
<1> QED
  BY <1>1, IndicesFacts, IndexFacts, LowestHasT DEF IsEnough, Participants

\* The points that merge() interpolates.
Points(c) == [i \in Participants(c) |-> sigShares[c][i].point]

LEMMA PointsFacts ==
  ASSUME TypeOK, NEW c \in Collectors
  PROVE  Points(c) \in [Participants(c) -> Fr] /\ SignatureRecover(c) = Recover(Points(c))
PROOF
<1>1. \A i \in Indices(c) : sigShares[c][i] \in SigShares
  BY DEF TypeOK, Indices
<1>2. \A i \in Participants(c) : sigShares[c][i].point \in Fr
  BY <1>1, IndicesFacts, IndexFacts DEF SigShares
<1> QED
  BY <1>2 DEF Points, SignatureRecover

\* The constructor of BLSSignature lets nothing but signatures through.
LEMMA MergeResultType ==
  ASSUME TypeOK, NEW c \in Collectors, IsEnough(c)
  PROVE  MergeResult(c) \subseteq Signatures
PROOF
<1>1. \A i \in Indices(c) : sigShares[c][i] \in SigShares
  BY DEF TypeOK, Indices
<1>2. MergedHint(c) \in Hints
  BY <1>1, IndicesFacts, MinIsLeast DEF MergedHint, SigShares
<1>3. SignatureRecover(c) \in Fr
  BY PointsFacts, ParticipantsFacts, IndexFacts, RecoverInFr
<1>4. SignatureRecover(c) # 0 => SignatureRecover(c) \in NonZero
  BY <1>3, PIsPrime DEF Fr, NonZero
<1>5. ~MergedHint(c).long => MergedHint(c) \in {h \in Hints : ~h.long}
  BY <1>2
<1> QED
  BY <1>4, <1>5 DEF MergeResult, Signatures

-----------------------------------------------------------------------------
(* Type correctness.                                                       *)

LEMMA TypeInit == Init => TypeOK
PROOF
<1> SUFFICES ASSUME Init PROVE TypeOK
  OBVIOUS
<1> PICK pol \in KeyPolynomials : KeysOf(pol)
  BY DEF Init
<1>1. secretKeys \in [Signers -> NonZero]
  BY KeysInFr, IndexFacts, PIsPrime DEF KeysOf, Fr, NonZero
<1>2. commonKey \in NonZero
  BY KeysInFr, PIsPrime DEF KeysOf, Fr, NonZero
<1> QED
  BY <1>1, <1>2 DEF Init, TypeOK

LEMMA TypeStep == TypeOK /\ [Next]_vars => TypeOK'
PROOF
<1> SUFFICES ASSUME TypeOK, [Next]_vars PROVE TypeOK'
  OBVIOUS
<1>1. CASE UNCHANGED vars
  BY <1>1 DEF TypeOK, vars
<1>2. ASSUME NEW i \in Signers, NEW m \in Msgs, Sign(i, m)
      PROVE  TypeOK'
  <2>1. [of |-> m, point |-> HashOf[m], long |-> FALSE] \in Hints
    BY SigningConstants DEF Hints
  <2>2. Signing(m, secretKeys[i]) \in NonZero /\ i \in Index
    BY SigningNonZero, IndexFacts DEF TypeOK
  <2>3. Share(i, m) \in SigShares
    BY <2>1, <2>2 DEF Share, SigShares
  <2> QED
    BY <1>2, <2>3 DEF TypeOK, Sign, keyVars, setVars
<1>3. ASSUME NEW s \in Forgeries, Forge(s)
      PROVE  TypeOK'
  <2>1. PICK i \in Index, f \in ForgedShares :
            s = [signer |-> i, point |-> f.point, hint |-> f.hint]
    BY DEF Forgeries
  <2>2. s \in SigShares
    BY <2>1, SigningConstants DEF SigShares
  <2> QED
    BY <1>3, <2>2 DEF TypeOK, Forge, keyVars, setVars
<1>4. ASSUME NEW c \in Collectors, NEW s \in sent, AddSigShare(c, s)
      PROVE  TypeOK'
  <2>1. s \in SigShares /\ s.signer \in Index
    BY DEF TypeOK, SigShares
  <2>2. sigShares' \in [Collectors -> [Index -> SigShares \cup {NoShare}]]
    BY <1>4, <2>1 DEF TypeOK, AddSigShare
  <2> QED
    BY <1>4, <2>2 DEF TypeOK, AddSigShare, keyVars
<1>5. ASSUME NEW c \in Collectors, Merge(c)
      PROVE  TypeOK'
  <2>1. MergeResult(c) \subseteq Signatures
    BY <1>5, MergeResultType DEF Merge
  <2> QED
    BY <1>5, <2>1 DEF TypeOK, Merge, keyVars
<1> QED
  BY <1>1, <1>2, <1>3, <1>4, <1>5 DEF Next

\* Every value keeps its type: in particular merge() hands out no zero
\* signature and no share on the network is the zero point.
THEOREM TypeCorrect == Spec => []TypeOK
PROOF
<1> QED
  BY TypeInit, TypeStep, PTL DEF Spec

-----------------------------------------------------------------------------
(* The inductive invariant.                                                *)

\* A step that leaves the map of a collector alone leaves alone all that
\* merge() computes from it.
LEMMA SameMap ==
  ASSUME NEW c \in Collectors, sigShares'[c] = sigShares[c]
  PROVE  /\ Indices(c)' = Indices(c)
         /\ IsEnough(c)' = IsEnough(c)
         /\ MergeResult(c)' = MergeResult(c)
BY DEF Indices, IsEnough, MergeResult, SignatureRecover, Participants, MergedHint

LEMMA KeysStep == KeysOnOnePolynomial /\ [Next]_vars => KeysOnOnePolynomial'
PROOF
<1>1. [Next]_vars => UNCHANGED keyVars
  BY DEF Next, Sign, Forge, AddSigShare, Merge, vars, keyVars
<1> QED
  BY <1>1 DEF KeysOnOnePolynomial, KeysOf, keyVars

LEMMA LongStep == LongHintsAreForged /\ [Next]_vars => LongHintsAreForged'
PROOF
<1> SUFFICES ASSUME LongHintsAreForged, [Next]_vars,
                    NEW s \in sent', s \notin sent, s.hint.long
             PROVE  \E f \in ForgedShares : s.point = f.point /\ s.hint = f.hint
  BY DEF LongHintsAreForged
<1>1. CASE \E i \in Signers, m \in Msgs : Sign(i, m)
  <2>1. PICK i \in Signers, m \in Msgs : Sign(i, m)
    BY <1>1
  <2>2. s = Share(i, m)
    BY <2>1 DEF Sign
  <2> QED
    BY <2>2 DEF Share
<1>2. CASE \E r \in Forgeries : Forge(r)
  <2>1. s \in Forgeries
    BY <1>2 DEF Forge
  <2> QED
    BY <2>1 DEF Forgeries
<1> QED
  BY <1>1, <1>2 DEF Next, AddSigShare, Merge, vars

LEMMA StoredStep ==
  TypeOK /\ StoredSharesAccepted /\ [Next]_vars => StoredSharesAccepted'
PROOF
<1> SUFFICES ASSUME TypeOK, StoredSharesAccepted, [Next]_vars
             PROVE  StoredSharesAccepted'
  OBVIOUS
<1>1. UNCHANGED keyVars /\ sent \subseteq sent'
  BY DEF Next, Sign, Forge, AddSigShare, Merge, vars, keyVars
<1>2. secretKeys' = secretKeys
  BY <1>1 DEF keyVars
<1>3. ASSUME NEW d \in Collectors, NEW i \in Index,
             sigShares'[d][i] = sigShares[d][i], sigShares[d][i] # NoShare
      PROVE  /\ sigShares'[d][i].signer = i
             /\ sigShares'[d][i] \in sent'
             /\ Accepts(d, sigShares[d][i])'
  BY <1>1, <1>2, <1>3 DEF StoredSharesAccepted, Accepts, VerifySig, VerifySigWithHelper
<1>4. CASE UNCHANGED sigShares
  BY <1>3, <1>4 DEF StoredSharesAccepted
<1>5. ASSUME NEW c \in Collectors, NEW s \in sent, AddSigShare(c, s)
      PROVE  StoredSharesAccepted'
  <2>1. s \in SigShares /\ s.signer \in Index
    BY DEF TypeOK, SigShares
  <2> SUFFICES ASSUME NEW d \in Collectors, NEW i \in Index,
                      sigShares'[d][i] # NoShare
               PROVE  /\ sigShares'[d][i].signer = i
                      /\ sigShares'[d][i] \in sent'
                      /\ Accepts(d, sigShares[d][i])'
    BY DEF StoredSharesAccepted
  <2>2. CASE d = c /\ i = s.signer
    <3>1. sigShares'[d][i] = s
      BY <1>5, <2>1, <2>2 DEF AddSigShare, TypeOK
    <3> QED
      BY <1>1, <1>2, <1>5, <2>2, <3>1 DEF AddSigShare, Accepts, VerifySig, VerifySigWithHelper
  <2>3. CASE ~(d = c /\ i = s.signer)
    <3>1. sigShares'[d][i] = sigShares[d][i]
      BY <1>5, <2>1, <2>3 DEF AddSigShare, TypeOK
    <3> QED
      BY <1>3, <3>1
  <2> QED
    BY <2>2, <2>3
<1> QED
  BY <1>4, <1>5 DEF Next, Sign, Forge, Merge, setVars, vars

LEMMA MergedStep ==
  TypeOK /\ MergedMapIsFrozen /\ [Next]_vars => MergedMapIsFrozen'
PROOF
<1> SUFFICES ASSUME TypeOK, MergedMapIsFrozen, [Next]_vars,
                    NEW d \in Collectors
             PROVE  /\ wasMerged'[d] => /\ IsEnough(d)'
                                        /\ signatures'[d] = MergeResult(d)'
                    /\ ~wasMerged'[d] => signatures'[d] = {}
  BY DEF MergedMapIsFrozen
<1>1. CASE UNCHANGED setVars
  BY <1>1, SameMap DEF MergedMapIsFrozen, setVars
<1>2. ASSUME NEW c \in Collectors, NEW s \in sent, AddSigShare(c, s)
      PROVE  /\ wasMerged'[d] => /\ IsEnough(d)'
                                 /\ signatures'[d] = MergeResult(d)'
             /\ ~wasMerged'[d] => signatures'[d] = {}
  <2>1. CASE d = c
    BY <1>2, <2>1 DEF AddSigShare, MergedMapIsFrozen
  <2>2. CASE d # c
    <3>1. sigShares'[d] = sigShares[d]
      BY <1>2, <2>2 DEF AddSigShare, TypeOK
    <3> QED
      BY <1>2, <3>1, SameMap DEF AddSigShare, MergedMapIsFrozen
  <2> QED
    BY <2>1, <2>2
<1>3. ASSUME NEW c \in Collectors, Merge(c)
      PROVE  /\ wasMerged'[d] => /\ IsEnough(d)'
                                 /\ signatures'[d] = MergeResult(d)'
             /\ ~wasMerged'[d] => signatures'[d] = {}
  <2>1. sigShares'[d] = sigShares[d]
    BY <1>3 DEF Merge
  <2>2. CASE d = c
    <3>1. signatures'[d] = signatures[d] \cup MergeResult(d)
      BY <1>3, <2>2 DEF Merge, TypeOK
    <3>2. signatures[d] = {} \/ signatures[d] = MergeResult(d)
      BY DEF TypeOK, MergedMapIsFrozen
    <3>3. wasMerged'[d] /\ IsEnough(d)
      BY <1>3, <2>2 DEF Merge, TypeOK
    <3> QED
      BY <2>1, <3>1, <3>2, <3>3, SameMap
  <2>3. CASE d # c
    BY <1>3, <2>1, <2>3, SameMap DEF Merge, TypeOK, MergedMapIsFrozen
  <2> QED
    BY <2>2, <2>3
<1> QED
  BY <1>1, <1>2, <1>3 DEF Next, Sign, Forge, setVars, vars

\* The invariant that all safety properties below follow from.
THEOREM Invariant == Spec => []IInv
PROOF
<1>1. Init => IInv
  <2> SUFFICES ASSUME Init PROVE IInv
    OBVIOUS
  <2>1. KeysOnOnePolynomial
    BY DEF Init, KeysOnOnePolynomial
  <2>2. StoredSharesAccepted
    BY DEF Init, StoredSharesAccepted
  <2>3. MergedMapIsFrozen /\ LongHintsAreForged
    BY DEF Init, MergedMapIsFrozen, LongHintsAreForged
  <2> QED
    BY <2>1, <2>2, <2>3, TypeInit DEF IInv
<1>2. IInv /\ [Next]_vars => IInv'
  BY TypeStep, KeysStep, LongStep, StoredStep, MergedStep DEF IInv
<1> QED
  BY <1>1, <1>2, PTL DEF Spec

-----------------------------------------------------------------------------
(* The safety properties.                                                  *)

\* Any T signers can put the common key together.
THEOREM KeyFromShares == Spec => []AnySharesGiveTheKey
PROOF
<1>1. KeysOnOnePolynomial => AnySharesGiveTheKey
  <2> SUFFICES ASSUME NEW pol \in KeyPolynomials, KeysOf(pol),
                      NEW K \in SUBSET Signers, Cardinality(K) = T
               PROVE  BLSPrivateKey(K) = commonKey
    BY DEF KeysOnOnePolynomial, AnySharesGiveTheKey
  <2>1. K \in SUBSET Index /\ 1 \in NonZero
    BY IndexFacts, PIsPrime DEF NonZero
  <2>2. \A x \in Fr : Times(1, x) = x
    BY PIsPrime DEF Times, Fr
  <2>3. Recover([i \in K |-> Times(1, PolynomialValue(pol, i))]) = Times(1, pol[1])
    <3>1. K \in SUBSET NonZero /\ IsFiniteSet(K) /\ T \in Nat /\ T >= 1 /\ 1 \in Fr
      BY <2>1, IndexFacts, FS_Subset
    <3>2. pol \in [1..T -> Fr]
      BY SigningConstants
    <3> QED
      BY <3>1, <3>2, Interpolation
  <2>4. [i \in K |-> secretKeys[i]] = [i \in K |-> Times(1, PolynomialValue(pol, i))]
    BY <2>1, <2>2, KeysInFr DEF KeysOf
  <2> QED
    BY <2>2, <2>3, <2>4, KeysInFr DEF BLSPrivateKey, KeysOf
<1> QED
  BY <1>1, Invariant, PTL DEF IInv

\* If the first T shares are the multiples of one point by the signers' keys,
\* they recover the multiple of that point by the common key.
LEMMA RecoverAt ==
  ASSUME TypeOK, NEW c \in Collectors, IsEnough(c),
         NEW pol \in KeyPolynomials, KeysOf(pol), NEW h \in NonZero,
         \A i \in Participants(c) :
             sigShares[c][i].point = Times(h, PolynomialValue(pol, i))
  PROVE  SignatureRecover(c) = Times(h, commonKey)
PROOF
<1> DEFINE K == Participants(c)
<1>1. K \in SUBSET NonZero /\ IsFiniteSet(K) /\ Cardinality(K) = T
  BY ParticipantsFacts
<1>2. T \in Nat /\ T >= 1 /\ pol \in [1..T -> Fr] /\ h \in Fr
  BY SigningConstants, IndexFacts
<1>3. [i \in K |-> sigShares[c][i].point]
        = [i \in K |-> Times(h, PolynomialValue(pol, i))]
  OBVIOUS
<1>4. Recover([i \in K |-> Times(h, PolynomialValue(pol, i))]) = Times(h, pol[1])
  <2> HIDE DEF K
  <2> QED
    BY <1>1, <1>2, Interpolation
<1>5. commonKey = pol[1]
  BY DEF KeysOf
<1> QED
  BY <1>3, <1>4, <1>5 DEF SignatureRecover

\* If exactly one of them is something else, they recover something else.
LEMMA RecoverElsewhere ==
  ASSUME TypeOK, NEW c \in Collectors, IsEnough(c),
         NEW pol \in KeyPolynomials, KeysOf(pol), NEW h \in NonZero,
         NEW b \in Participants(c),
         \A i \in Participants(c) :
             sigShares[c][i].point = Times(h, PolynomialValue(pol, i)) <=> i # b
  PROVE  SignatureRecover(c) # Times(h, commonKey)
PROOF
<1> DEFINE K == Participants(c)
           f == Points(c)
           g == [i \in K |-> Times(h, PolynomialValue(pol, i))]
<1>1. /\ K \in SUBSET Index /\ K \in SUBSET NonZero
      /\ IsFiniteSet(K) /\ Cardinality(K) = T /\ b \in K
  BY ParticipantsFacts
<1>2. T \in Nat /\ T >= 1 /\ pol \in [1..T -> Fr] /\ h \in Fr
  BY SigningConstants, IndexFacts
<1>3. f \in [K -> Fr] /\ SignatureRecover(c) = Recover(f)
  BY PointsFacts
<1>4. \A i \in K : PolynomialValue(pol, i) \in Fr
  BY <1>1, KeysInFr
<1>5. g \in [K -> Fr]
  <2> HIDE DEF K
  <2> QED
    BY <1>2, <1>4, FrFacts
<1>6. f[b] # g[b] /\ \A i \in K \ {b} : f[i] = g[i]
  BY DEF Points
<1>7. Recover(g) = Times(h, pol[1])
  <2> HIDE DEF K
  <2> QED
    BY <1>1, <1>2, Interpolation
<1>8. commonKey = pol[1]
  BY DEF KeysOf
<1> HIDE DEF K, f, g
<1>9. Recover(f) # Recover(g)
  BY <1>1, <1>3, <1>5, <1>6, OneShareChangesTheResult
<1> QED
  BY <1>3, <1>7, <1>8, <1>9

\* Shares on the polynomial of the keys recover the signature.
LEMMA RightRecover ==
  ASSUME TypeOK, NEW c \in Collectors, IsEnough(c),
         NEW pol \in KeyPolynomials, KeysOf(pol),
         \A i \in Participants(c) :
             sigShares[c][i].point = Signing(Target[c], PolynomialValue(pol, i))
  PROVE  SignatureRecover(c) = TheSignature(Target[c])
PROOF
<1>1. HashOf[Target[c]] \in NonZero
  BY SigningConstants
<1> QED
  BY <1>1, RecoverAt DEF TheSignature, Signing

\* What a collector with a policy knows of a share it stored.
LEMMA StoredFacts ==
  ASSUME IInv, NEW c \in Collectors, NEW i \in Indices(c)
  PROVE  /\ i \in Index /\ sigShares[c][i].signer = i /\ sigShares[c][i] \in sent
         /\ Policy[c] = "plain" => VerifySig(Target[c], sigShares[c][i])
         /\ Policy[c] = "helper" =>
                /\ i \in Signers
                /\ VerifySigWithHelper(Target[c], sigShares[c][i], secretKeys[i])
PROOF
<1>1. i \in Index /\ sigShares[c][i] # NoShare
  BY DEF Indices
<1>2. /\ sigShares[c][i].signer = i /\ sigShares[c][i] \in sent
      /\ Accepts(c, sigShares[c][i])
  BY <1>1 DEF IInv, StoredSharesAccepted
<1> QED
  BY <1>1, <1>2 DEF Accepts

\* The lowest index, whose hint merge() takes, is one of those interpolated.
LEMMA LowestParticipates ==
  ASSUME NEW c \in Collectors, IsEnough(c)
  PROVE  Min(Indices(c)) \in Participants(c)
PROOF
<1> DEFINE K == Indices(c)
           m == Min(K)
<1>1. K \in SUBSET Index /\ m \in K
  BY IndicesFacts, MinIsLeast
<1>2. {j \in K : j < m} = {}
  <2>1. K \subseteq Nat /\ \A j \in K : m <= j
    BY <1>1, MinIsLeast, IndexFacts, FrFacts
  <2> HIDE DEF K, m
  <2>2. ASSUME NEW j \in K, j < m PROVE FALSE
    BY <1>1, <2>1, <2>2
  <2> QED
    BY <2>2
<1>3. m \in Lowest(T, K)
  <2> HIDE DEF K, m
  <2> QED
    BY <1>1, <1>2, IndexFacts, FS_EmptySet DEF Lowest
<1> QED
  BY <1>3 DEF Participants

\* A share of the right point, or of the right multiple of its hint, has no
\* long hint.
LEMMA RightShareHasRoom ==
  ASSUME IInv, NEW c \in Collectors, NEW i \in Indices(c), NEW pol \in KeyPolynomials,
         NEW h, h \in {sigShares[c][i].hint.point} \cup {HashOf[m] : m \in Msgs},
         sigShares[c][i].point = Times(h, PolynomialValue(pol, i))
  PROVE  ~sigShares[c][i].hint.long
PROOF
<1> SUFFICES ASSUME sigShares[c][i].hint.long PROVE FALSE
  OBVIOUS
<1>1. i \in Index /\ sigShares[c][i] \in sent
  BY StoredFacts
<1>2. PICK f \in ForgedShares : sigShares[c][i].point = f.point /\ sigShares[c][i].hint = f.hint
  BY <1>1 DEF IInv, LongHintsAreForged
<1> QED
  BY <1>1, <1>2, LongHintsLeaveNoRoom

\* merge() hands on a hint that BLSSignature takes if the lowest share is right.
LEMMA MergedHintFits ==
  ASSUME IInv, NEW c \in Collectors, IsEnough(c), NEW pol \in KeyPolynomials,
         \A i \in Participants(c) :
             \E h \in {sigShares[c][i].hint.point} \cup {HashOf[m] : m \in Msgs} :
                 sigShares[c][i].point = Times(h, PolynomialValue(pol, i))
  PROVE  ~MergedHint(c).long
PROOF
<1> DEFINE low == Min(Indices(c))
<1>1. low \in Participants(c) /\ low \in Indices(c)
  BY LowestParticipates, IndicesFacts
<1>2. PICK h \in {sigShares[c][low].hint.point} \cup {HashOf[m] : m \in Msgs} :
          sigShares[c][low].point = Times(h, PolynomialValue(pol, low))
  BY <1>1
<1>3. MergedHint(c) = sigShares[c][low].hint
  BY DEF MergedHint
<1> HIDE DEF low
<1> QED
  BY <1>1, <1>2, <1>3, RightShareHasRoom

\* That is so for every collector that runs VerifySig.
LEMMA VerifiedRecover ==
  ASSUME IInv, NEW c \in Verifying, IsEnough(c)
  PROVE  SignatureRecover(c) = TheSignature(Target[c]) /\ ~MergedHint(c).long
PROOF
<1>1. c \in Collectors /\ Policy[c] = "plain"
  BY DEF Verifying
<1>2. PICK pol \in KeyPolynomials : KeysOf(pol)
  BY DEF IInv, KeysOnOnePolynomial
<1>3. ASSUME NEW i \in Participants(c)
      PROVE  sigShares[c][i].point = Signing(Target[c], PolynomialValue(pol, i))
  <2>1. VerifySig(Target[c], sigShares[c][i]) /\ sigShares[c][i].signer = i
    BY <1>1, IndicesFacts, StoredFacts
  <2> QED
    BY <1>2, <2>1 DEF VerifySig, Verification, Signing, KeysOf
<1>4. SignatureRecover(c) = TheSignature(Target[c])
  BY <1>1, <1>2, <1>3, RightRecover DEF IInv
<1>5. ~MergedHint(c).long
  BY <1>1, <1>2, <1>3, SigningConstants, MergedHintFits DEF Signing
<1> QED
  BY <1>4, <1>5

\* The signature of a collector that ran VerifySig, in a state of the invariant.
LEMMA VerifiedIsRight == IInv => VerifiedSharesGiveTheSignature
PROOF
<1> SUFFICES ASSUME IInv, NEW c \in Verifying, NEW sig \in signatures[c]
             PROVE  sig.point = TheSignature(Target[c])
  BY DEF VerifiedSharesGiveTheSignature, TheSignature, Verification, Signing
<1>1. c \in Collectors /\ wasMerged[c] \in BOOLEAN
  BY DEF Verifying, IInv, TypeOK
<1>2. IsEnough(c) /\ sig \in MergeResult(c)
  BY <1>1 DEF IInv, MergedMapIsFrozen
<1>3. sig.point = SignatureRecover(c)
  BY <1>2 DEF MergeResult
<1> QED
  BY <1>2, <1>3, VerifiedRecover

\* Collectors that verify the shares they add obtain the signature of the
\* common key, whichever shares reach them in whichever order.
THEOREM VerifiedSignature == Spec => []VerifiedSharesGiveTheSignature
PROOF
<1> QED
  BY VerifiedIsRight, Invariant, PTL

\* A sealed set of a collector that ran VerifySig, in a state of the invariant.
LEMMA InvSealed == IInv => SealedSetHasSignature
PROOF
<1> SUFFICES ASSUME IInv, NEW c \in Verifying, wasMerged[c]
             PROVE  signatures[c] # {}
  BY DEF SealedSetHasSignature
<1>1. c \in Collectors /\ Target[c] \in Msgs
  BY SigningConstants DEF Verifying
<1>2. IsEnough(c) /\ signatures[c] = MergeResult(c)
  BY <1>1 DEF IInv, MergedMapIsFrozen
<1>3. SignatureRecover(c) \in NonZero
  BY <1>1, <1>2, VerifiedRecover, SigningNonZero DEF TheSignature, IInv, TypeOK
<1>4. SignatureRecover(c) # 0 /\ ~MergedHint(c).long
  BY <1>2, <1>3, VerifiedRecover, PIsPrime DEF NonZero
<1> QED
  BY <1>2, <1>4 DEF MergeResult

\* A collector that verifies shares never has a sealed set and no signature.
THEOREM SealedSigned == Spec => []SealedSetHasSignature
PROOF
<1> QED
  BY InvSealed, Invariant, PTL

\* A set whose first T shares are right is enough, even if nobody verified them.
THEOREM RightSharesSign == Spec => []RightSharesGiveTheSignature
PROOF
<1>1. IInv => RightSharesGiveTheSignature
  <2> SUFFICES ASSUME IInv, NEW c \in Collectors, wasMerged[c],
                      \A i \in Participants(c) : OnPolynomial(Target[c], sigShares[c][i])
               PROVE  /\ signatures[c] # {}
                      /\ \A sig \in signatures[c] : sig.point = TheSignature(Target[c])
    BY DEF RightSharesGiveTheSignature
  <2>1. IsEnough(c) /\ signatures[c] = MergeResult(c) /\ Target[c] \in Msgs
    BY SigningConstants DEF IInv, MergedMapIsFrozen
  <2>2. PICK pol \in KeyPolynomials : KeysOf(pol)
    BY DEF IInv, KeysOnOnePolynomial
  <2>3. ASSUME NEW i \in Participants(c)
        PROVE  sigShares[c][i].point = Signing(Target[c], PolynomialValue(pol, i))
    <3>1. i \in Index /\ sigShares[c][i] # NoShare
      BY IndicesFacts DEF Indices
    <3>2. sigShares[c][i].signer = i
      BY <3>1 DEF IInv, StoredSharesAccepted
    <3> QED
      BY <2>2, <3>2 DEF OnPolynomial
  <2>4. SignatureRecover(c) = TheSignature(Target[c])
    BY <2>1, <2>2, <2>3, RightRecover DEF IInv
  <2>5. SignatureRecover(c) \in NonZero
    BY <2>1, <2>4, SigningNonZero DEF TheSignature, IInv, TypeOK
  <2>6. SignatureRecover(c) # 0 /\ ~MergedHint(c).long
    <3>1. ~MergedHint(c).long
      BY <2>1, <2>2, <2>3, MergedHintFits DEF Signing
    <3> QED
      BY <2>5, <3>1, PIsPrime DEF NonZero
  <2>7. MergeResult(c) = {[point |-> TheSignature(Target[c]), hint |-> MergedHint(c)]}
    BY <2>4, <2>6 DEF MergeResult
  <2> QED
    BY <2>1, <2>7
<1> QED
  BY <1>1, Invariant, PTL

\* All the signatures one BLSSigShareSet returns are the same.
THEOREM OneSignature == Spec => []OneSignaturePerSet
PROOF
<1>1. IInv => OneSignaturePerSet
  <2> SUFFICES ASSUME IInv, NEW c \in Collectors
               PROVE  Cardinality(signatures[c]) <= 1
    BY DEF OneSignaturePerSet
  <2>1. signatures[c] = {} \/ signatures[c] = MergeResult(c)
    BY DEF IInv, TypeOK, MergedMapIsFrozen
  <2>2. signatures[c] = {} \/ \E sig : signatures[c] = {sig}
    BY <2>1 DEF MergeResult
  <2>3. CASE signatures[c] = {}
    BY <2>3, FS_EmptySet
  <2>4. CASE \E sig : signatures[c] = {sig}
    <3>1. PICK sig : signatures[c] = {sig}
      BY <2>4
    <3>2. Cardinality({sig}) = 1
      BY FS_Singleton
    <3> QED
      BY <3>1, <3>2
  <2> QED
    BY <2>2, <2>3, <2>4
<1> QED
  BY <1>1, Invariant, PTL

\* A collector that verifies and has a signature took the shares of T holders.
LEMMA EnoughSigned == IInv => ThresholdOfSigners
PROOF
<1> SUFFICES ASSUME IInv, NEW c \in Verifying \cup Helped, signatures[c] # {}
             PROVE  Cardinality(SignedBy(Target[c])) >= T
  BY DEF ThresholdOfSigners
<1>1. c \in Collectors /\ Policy[c] \in {"plain", "helper"}
  BY DEF Verifying, Helped
<1>2. IsEnough(c)
  BY <1>1 DEF IInv, TypeOK, MergedMapIsFrozen
<1>3. ASSUME NEW i \in Indices(c)
      PROVE  i \in SignedBy(Target[c])
  BY <1>1, StoredFacts
  DEF SignedBy, VerifySig, VerifySigWithHelper, Verification, Signing
<1>4. SignedBy(Target[c]) \subseteq Index
  BY IndexFacts DEF SignedBy
<1>5. IsFiniteSet(SignedBy(Target[c]))
  BY <1>4, IndexFacts, FS_Subset
<1>6. /\ Cardinality(Indices(c)) <= Cardinality(SignedBy(Target[c]))
      /\ Cardinality(Indices(c)) \in Nat /\ Cardinality(SignedBy(Target[c])) \in Nat
  BY <1>1, <1>3, <1>5, IndicesFacts, FS_Subset, FS_CardinalityType
<1> QED
  BY <1>2, <1>6, IndexFacts DEF IsEnough

\* A collector that verifies shares, either way, has no signature before T
\* different key holders signed its message.
THEOREM Threshold == Spec => []ThresholdOfSigners
PROOF
<1> QED
  BY EnoughSigned, Invariant, PTL

\* Shares that passed VerifySigWithHelper with the same hint merge into a
\* signature that passes it too.
THEOREM SameHintsSign == Spec => []SameHintsGiveASignature
PROOF
<1>1. IInv => SameHintsGiveASignature
  <2> SUFFICES ASSUME IInv, NEW c \in Helped, wasMerged[c],
                      \A i, j \in Participants(c) :
                          sigShares[c][i].hint = sigShares[c][j].hint
               PROVE  /\ signatures[c] # {}
                      /\ \A sig \in signatures[c] :
                             VerifySigWithHelper(Target[c], sig, commonKey)
    BY DEF SameHintsGiveASignature
  <2>1. c \in Collectors /\ Policy[c] = "helper"
    BY DEF Helped
  <2>2. IsEnough(c) /\ signatures[c] = MergeResult(c)
    BY <2>1 DEF IInv, MergedMapIsFrozen
  <2> DEFINE hint == MergedHint(c)
  <2>3. Min(Indices(c)) \in Participants(c)
    BY <2>1, <2>2, LowestParticipates
  <2>4. ASSUME NEW i \in Participants(c)
        PROVE  /\ sigShares[c][i] \in SigShares /\ i \in Signers
               /\ sigShares[c][i].hint = hint /\ hint.of = Target[c]
               /\ sigShares[c][i].point = Times(hint.point, secretKeys[i])
    <3>1. i \in Indices(c)
      BY <2>1, IndicesFacts
    <3>2. /\ sigShares[c][i] \in sent /\ i \in Signers
          /\ VerifySigWithHelper(Target[c], sigShares[c][i], secretKeys[i])
      BY <2>1, <3>1, StoredFacts
    <3>3. sigShares[c][i].hint = hint
      BY <2>3 DEF MergedHint
    <3> QED
      BY <3>2, <3>3 DEF IInv, TypeOK, VerifySigWithHelper
  <2>5. hint \in Hints /\ hint.of = Target[c] /\ hint.point \in NonZero
    BY <2>3, <2>4 DEF SigShares, Hints
  <2>11. hint = MergedHint(c)
    OBVIOUS
  <2> HIDE DEF hint
  <2>6. PICK pol \in KeyPolynomials : KeysOf(pol)
    BY DEF IInv, KeysOnOnePolynomial
  <2>7. \A i \in Participants(c) :
            sigShares[c][i].point = Times(hint.point, PolynomialValue(pol, i))
    BY <2>4, <2>6 DEF KeysOf
  <2>8. SignatureRecover(c) = Times(hint.point, commonKey)
    BY <2>1, <2>2, <2>5, <2>6, <2>7, RecoverAt DEF IInv
  <2>9. SignatureRecover(c) # 0 /\ ~MergedHint(c).long
    <3>1. ~MergedHint(c).long
      <4>1. \A i \in Participants(c) : sigShares[c][i].hint.point = hint.point
        BY <2>4
      <4> QED
        BY <2>1, <2>2, <2>6, <2>7, <4>1, MergedHintFits
    <3>2. SignatureRecover(c) \in NonZero
      BY <2>5, <2>8, NoZeroDivisors DEF IInv, TypeOK
    <3> QED
      BY <3>1, <3>2, NonZeroFacts
  <2>10. MergeResult(c) = {[point |-> SignatureRecover(c), hint |-> hint]}
    BY <2>9, <2>11 DEF MergeResult
  <2> QED
    BY <2>2, <2>5, <2>8, <2>10 DEF VerifySigWithHelper
<1> QED
  BY <1>1, Invariant, PTL

\* One wrong share among right ones never goes unnoticed, whichever position of
\* the interpolation it takes.
THEOREM OneBadShare == Spec => []OneBadShareIsNoticed
PROOF
<1>1. IInv => OneBadShareIsNoticed
  <2> SUFFICES ASSUME IInv, NEW c \in Collectors, wasMerged[c],
                      NEW b \in Participants(c),
                      \A i \in Participants(c) :
                          OnPolynomial(Target[c], sigShares[c][i]) <=> i # b,
                      NEW sig \in signatures[c]
               PROVE  ~Verification(Target[c], sig.point, commonKey)
    BY DEF OneBadShareIsNoticed
  <2>1. IsEnough(c) /\ sig \in MergeResult(c) /\ Target[c] \in Msgs
    BY SigningConstants DEF IInv, MergedMapIsFrozen
  <2>2. sig.point = SignatureRecover(c)
    BY <2>1 DEF MergeResult
  <2> DEFINE h == HashOf[Target[c]]
             keys == {p \in KeyPolynomials : KeysOf(p)}
  <2>3. h \in NonZero
    BY <2>1, SigningConstants
  <2>4. PICK pol \in keys :
            \A i \in Participants(c) :
                sigShares[c][i].point = Times(h, PolynomialValue(pol, i)) <=> i # b
    <3>1. \A i \in Participants(c) : sigShares[c][i].signer = i
      BY IndicesFacts, StoredFacts
    <3>2. \A i \in Participants(c) :
              OnPolynomial(Target[c], sigShares[c][i]) <=>
                  \A p \in keys : sigShares[c][i].point = Times(h, PolynomialValue(p, i))
      BY <3>1 DEF OnPolynomial, Signing
    <3>3. PICK p \in keys : sigShares[c][b].point # Times(h, PolynomialValue(p, b))
      BY <3>2
    <3>4. \A i \in Participants(c) :
              sigShares[c][i].point = Times(h, PolynomialValue(p, i)) <=> i # b
      BY <3>2, <3>3
    <3> QED
      BY <3>4
  <2>5. pol \in KeyPolynomials /\ KeysOf(pol)
    OBVIOUS
  <2>6. SignatureRecover(c) # Times(h, commonKey)
    <3> HIDE DEF h
    <3> QED
      BY <2>1, <2>3, <2>4, <2>5, RecoverElsewhere DEF IInv
  <2> QED
    BY <2>2, <2>6 DEF Verification
<1> QED
  BY <1>1, Invariant, PTL

\* What a collector that runs VerifySigWithHelper knows of a share it merged.
LEMMA HelpedFacts ==
  ASSUME IInv, NEW c \in Helped, wasMerged[c], NEW pol \in KeyPolynomials, KeysOf(pol),
         NEW i \in Participants(c)
  PROVE  /\ i \in Signers /\ sigShares[c][i].hint \in Hints
         /\ sigShares[c][i].hint.of = Target[c] /\ ~sigShares[c][i].hint.long
         /\ secretKeys[i] = PolynomialValue(pol, i) /\ secretKeys[i] \in NonZero
         /\ sigShares[c][i].point = Times(sigShares[c][i].hint.point, secretKeys[i])
PROOF
<1>1. c \in Collectors /\ Policy[c] = "helper"
  BY DEF Helped
<1>2. i \in Indices(c)
  BY <1>1, IndicesFacts
<1>3. /\ sigShares[c][i] \in sent /\ i \in Signers
      /\ VerifySigWithHelper(Target[c], sigShares[c][i], secretKeys[i])
  BY <1>1, <1>2, StoredFacts
<1>4. sigShares[c][i] \in SigShares
  BY <1>3 DEF IInv, TypeOK
<1>5. secretKeys[i] = PolynomialValue(pol, i) /\ secretKeys[i] \in NonZero
  BY <1>3 DEF KeysOf, IInv, TypeOK
<1>6. /\ sigShares[c][i].hint \in Hints /\ sigShares[c][i].hint.of = Target[c]
      /\ sigShares[c][i].point = Times(sigShares[c][i].hint.point, secretKeys[i])
  BY <1>3, <1>4 DEF SigShares, VerifySigWithHelper
<1>7. ~sigShares[c][i].hint.long
  BY <1>1, <1>2, <1>5, <1>6, RightShareHasRoom
<1> QED
  BY <1>3, <1>5, <1>6, <1>7

\* Different hints for one message, both short, lead to different points, and so
\* do their multiples by a key.
LEMMA OtherHint ==
  ASSUME NEW h \in Hints, NEW g \in Hints, h.of = g.of, ~h.long, ~g.long, h # g,
         NEW k \in NonZero
  PROVE  h.point # g.point /\ Times(h.point, k) # Times(g.point, k)
PROOF
<1>1. h.point \in NonZero /\ g.point \in NonZero /\ h.point # g.point
  BY DEF Hints
<1>2. h.point \in Fr /\ g.point \in Fr /\ k \in Fr
  BY <1>1, IndexFacts
<1>3. Times(k, h.point) # Times(k, g.point)
  BY <1>1, <1>2, TimesCancel
<1> QED
  BY <1>1, <1>2, <1>3, FrFacts, Commutes

\* The odd hint is not handed on: to the others its share is a wrong one.
LEMMA OddHintAbove ==
  ASSUME IInv, NEW c \in Helped, wasMerged[c], NEW b \in Participants(c),
         \A i \in Participants(c) : sigShares[c][i].hint = MergedHint(c) <=> i # b
  PROVE  SignatureRecover(c) # Times(MergedHint(c).point, commonKey)
PROOF
<1>1. c \in Collectors /\ IsEnough(c)
  BY DEF Helped, IInv, MergedMapIsFrozen
<1>2. PICK pol \in KeyPolynomials : KeysOf(pol)
  BY DEF IInv, KeysOnOnePolynomial
<1>3. PICK low \in Participants(c) : MergedHint(c) = sigShares[c][low].hint
  BY <1>1, LowestParticipates DEF MergedHint
<1> DEFINE hint == MergedHint(c)
           h == hint.point
<1>4. hint \in Hints /\ hint.of = Target[c] /\ ~hint.long /\ h \in NonZero
  BY <1>2, <1>3, HelpedFacts DEF Hints
<1>5. ASSUME NEW i \in Participants(c)
      PROVE  sigShares[c][i].point = Times(h, PolynomialValue(pol, i)) <=> i # b
  <2>1. CASE i # b
    BY <1>2, <2>1, HelpedFacts
  <2>2. CASE i = b
    <3> DEFINE other == sigShares[c][i].hint
               k == PolynomialValue(pol, i)
    <3>1. /\ other # hint /\ other \in Hints /\ other.of = hint.of /\ ~other.long
          /\ k \in NonZero /\ sigShares[c][i].point = Times(other.point, k)
      BY <1>2, <1>4, <2>2, HelpedFacts
    <3> HIDE DEF other, hint, k
    <3>2. Times(other.point, k) # Times(h, k)
      BY <1>4, <3>1, OtherHint
    <3> QED
      BY <2>2, <3>1, <3>2 DEF k
  <2> QED
    BY <2>1, <2>2
<1>6. SignatureRecover(c) # Times(h, commonKey)
  <2> HIDE DEF h, hint
  <2> QED
    BY <1>1, <1>2, <1>4, <1>5, RecoverElsewhere DEF IInv
<1> QED
  BY <1>6

\* The odd hint is the lowest and handed on: the others' shares are multiples of
\* another point, and add what the hint does not account for.
LEMMA OddHintLowest ==
  ASSUME IInv, NEW c \in Helped, wasMerged[c], NEW b \in Participants(c),
         sigShares[c][b].hint = MergedHint(c), NEW h \in Hints, h # MergedHint(c),
         h.of = Target[c], ~h.long,
         \A i \in Participants(c) \ {b} : sigShares[c][i].hint = h, ~OthersCancel(c, b)
  PROVE  SignatureRecover(c) # Times(MergedHint(c).point, commonKey)
PROOF
<1>1. c \in Collectors /\ IsEnough(c)
  BY DEF Helped, IInv, MergedMapIsFrozen
<1>2. PICK pol \in KeyPolynomials : KeysOf(pol)
  BY DEF IInv, KeysOnOnePolynomial
<1> DEFINE K == Participants(c)
           y == MergedHint(c).point
           x == h.point
           a == Minus(x, y)
           f == Points(c)
           g == [i \in K |-> Times(y, secretKeys[i])]
           q == [i \in K |-> IF i = b THEN 0 ELSE secretKeys[i]]
<1>3. y \in NonZero /\ x \in NonZero /\ x # y
  <2>1. /\ MergedHint(c) \in Hints /\ MergedHint(c).of = Target[c] /\ ~MergedHint(c).long
    BY <1>2, HelpedFacts
  <2>2. h.point # MergedHint(c).point
    BY <2>1, NonZeroFacts, OtherHint
  <2> QED
    BY <2>1, <2>2 DEF Hints
<1>4. y \in Fr /\ x \in Fr /\ a \in Fr /\ a # 0 /\ Plus(a, y) = x
  <2>1. y \in Fr /\ x \in Fr
    BY <1>3, IndexFacts
  <2> HIDE DEF x, y
  <2> QED
    BY <1>3, <2>1, MinusFacts
<1>5. K \in SUBSET NonZero /\ IsFiniteSet(K) /\ Cardinality(K) = T /\ b \in K
  BY <1>1, ParticipantsFacts
<1>6. \A i \in K : secretKeys[i] \in Fr /\ secretKeys[i] = PolynomialValue(pol, i)
  BY <1>2, HelpedFacts, IndexFacts
<1>7. f \in [K -> Fr] /\ SignatureRecover(c) = Recover(f)
  BY <1>1, PointsFacts DEF IInv
<1>8. g \in [K -> Fr] /\ q \in [K -> Fr]
  <2> HIDE DEF K, y
  <2> QED
    BY <1>4, <1>6, Ring
<1>9. Recover(g) = Times(y, commonKey)
  <2>1. g = [i \in K |-> Times(y, PolynomialValue(pol, i))]
    BY <1>6
  <2>2. T \in Nat /\ T >= 1 /\ pol \in [1..T -> Fr] /\ commonKey = pol[1]
    BY <1>2, SigningConstants, IndexFacts DEF KeysOf
  <2> HIDE DEF K, y, g
  <2> QED
    BY <1>4, <1>5, <2>1, <2>2, Interpolation
<1>10. ASSUME NEW i \in K PROVE f[i] = Plus(g[i], Times(a, q[i]))
  <2> DEFINE k == secretKeys[i]
  <2>1. k \in Fr /\ f[i] = Times(sigShares[c][i].hint.point, k) /\ g[i] = Times(y, k)
    BY <1>2, <1>6, HelpedFacts DEF Points
  <2>2. CASE i = b
    <3>1. f[i] = g[i] /\ q[i] = 0
      BY <2>1, <2>2
    <3> HIDE DEF f, g, q, a
    <3> QED
      BY <1>4, <1>8, <3>1, Units
  <2>3. CASE i # b
    <3>1. f[i] = Times(x, k) /\ q[i] = k
      BY <2>1, <2>3
    <3> HIDE DEF f, g, q, a, x, y, k
    <3>2. Times(k, Plus(y, a)) = Plus(Times(k, y), Times(k, a))
      BY <1>4, <2>1, Ring
    <3>3. Times(x, k) = Times(k, Plus(y, a))
      BY <1>4, <2>1, Ring
    <3> QED
      BY <1>4, <2>1, <3>1, <3>2, <3>3, Ring
  <2> QED
    BY <2>2, <2>3
<1>11. Recover(q) # 0
  BY DEF OthersCancel
<1> HIDE DEF K, y, x, a, f, g, q
<1>12. Recover(f) = Plus(Recover(g), Times(a, Recover(q)))
  BY <1>4, <1>5, <1>7, <1>8, <1>10, RecoverLinear
<1>13. Recover(q) \in Fr /\ Recover(g) \in Fr
  BY <1>5, <1>8, NonZeroFacts, RecoverInFr
<1>14. Times(a, Recover(q)) \in NonZero
  BY <1>4, <1>11, <1>13, NonZeroFacts, NoZeroDivisors
<1>15. Recover(f) # Recover(g)
  <2> DEFINE t == Times(a, Recover(q))
             r == Recover(g)
  <2>1. t \in Fr /\ t # 0 /\ r \in Fr
    BY <1>13, <1>14, NonZeroFacts
  <2> SUFFICES ASSUME Plus(r, t) = r PROVE FALSE
    BY <1>12
  <2> HIDE DEF t, r
  <2>2. Plus(t, r) = Plus(0, r)
    BY <2>1, Ring, Units
  <2> QED
    BY <2>1, <2>2, Ring, PlusCancel
<1> QED
  BY <1>7, <1>9, <1>15 DEF y

\* One share with another hint among those interpolated, the lowest whose hint
\* is handed on or another one, never goes unnoticed by the last
\* VerifySigWithHelper, unless the shares of the others cancel.
THEOREM OneOddHint == Spec => []OneOddHintIsNoticed
PROOF
<1>1. IInv => OneOddHintIsNoticed
  <2> SUFFICES ASSUME IInv, NEW c \in Helped, NEW b \in Participants(c), wasMerged[c], T > 1,
                      \A i, j \in Participants(c) \ {b} :
                          sigShares[c][i].hint = sigShares[c][j].hint,
                      \A i \in Participants(c) \ {b} :
                          sigShares[c][i].hint # sigShares[c][b].hint,
                      b = Min(Participants(c)) => ~OthersCancel(c, b),
                      NEW sig \in signatures[c]
               PROVE  ~VerifySigWithHelper(Target[c], sig, commonKey)
    BY DEF OneOddHintIsNoticed
  <2>1. c \in Collectors /\ IsEnough(c) /\ sig \in MergeResult(c)
    BY DEF Helped, IInv, MergedMapIsFrozen
  <2>2. sig.point = SignatureRecover(c) /\ sig.hint = MergedHint(c)
    BY <2>1 DEF MergeResult
  <2>3. PICK low \in Participants(c) :
            low = Min(Participants(c)) /\ MergedHint(c) = sigShares[c][low].hint
    <3> DEFINE m == Min(Indices(c))
               n == Min(Participants(c))
    <3>1. m \in Participants(c) /\ Participants(c) \in SUBSET Index
      BY <2>1, LowestParticipates, ParticipantsFacts
    <3>2. n \in Participants(c) /\ n <= m
      BY <3>1, MinIsLeast
    <3>3. n \in Indices(c) /\ Indices(c) \in SUBSET Index
      BY <2>1, <3>2, IndicesFacts
    <3>4. m <= n
      BY <3>3, MinIsLeast
    <3>5. m \in Nat /\ n \in Nat
      BY <3>1, <3>2, IndexFacts, FrFacts
    <3> HIDE DEF m, n
    <3>6. m = n
      BY <3>2, <3>4, <3>5
    <3> QED
      BY <3>1, <3>6 DEF MergedHint, m, n
  <2>4. SignatureRecover(c) # Times(MergedHint(c).point, commonKey)
    <3>1. CASE low # b
      <4>1. \A i \in Participants(c) : sigShares[c][i].hint = MergedHint(c) <=> i # b
        BY <2>3, <3>1
      <4> QED
        BY <4>1, OddHintAbove
    <3>2. CASE low = b
      <4>1. PICK d \in Participants(c) : d # b
        <5>1. Cardinality(Participants(c)) = T
          BY <2>1, ParticipantsFacts
        <5>2. Cardinality({b}) = 1
          BY FS_Singleton
        <5>3. Participants(c) # {b}
          <6>1. T \in Nat /\ T > 1
            BY IndexFacts
          <6> QED
            BY <5>1, <5>2, <6>1
        <5> QED
          BY <5>3
      <4>2. PICK pol \in KeyPolynomials : KeysOf(pol)
        BY DEF IInv, KeysOnOnePolynomial
      <4>3. PICK h \in Hints : h = sigShares[c][d].hint /\ h.of = Target[c] /\ ~h.long
        BY <4>1, <4>2, HelpedFacts
      <4>4. \A i \in Participants(c) \ {b} : sigShares[c][i].hint = h
        BY <4>1, <4>3
      <4>5. h # MergedHint(c)
        BY <2>3, <3>2, <4>1, <4>3
      <4> QED
        BY <2>3, <3>2, <4>3, <4>4, <4>5, OddHintLowest
    <3> QED
      BY <3>1, <3>2
  <2> QED
    BY <2>2, <2>4 DEF VerifySigWithHelper
<1> QED
  BY <1>1, Invariant, PTL

-----------------------------------------------------------------------------
(* The promise of SignatureService is kept.                                *)

SignedByAll == [m \in Msgs |-> SignedBy(m)]
Obtained == [c \in Verifying |->
                IF signatures[c] = {} THEN 0
                ELSE (CHOOSE sig \in signatures[c] : TRUE).point]

\* The initial states are those of the promise.
LEMMA ServiceInit == Init => Service!Init
PROOF
<1> SUFFICES ASSUME Init PROVE Service!Init
  OBVIOUS
<1>1. commonKey \in NonZero
  BY TypeInit DEF TypeOK
<1>2. [m \in Msgs |-> SignedBy(m)] = [m \in Msgs |-> {}]
  BY DEF Init, SignedBy
<1>3. \A c \in Verifying : signatures[c] = {}
  BY DEF Init, Verifying
<1> QED
  BY <1>1, <1>2, <1>3 DEF Service!Init

\* What a collector that runs VerifySig obtained.
ObtainedIsRight ==
    \A c \in Verifying :
        Obtained[c] = IF signatures[c] = {} THEN 0 ELSE Signing(Target[c], commonKey)

LEMMA InvObtained == IInv => ObtainedIsRight
PROOF
<1> SUFFICES ASSUME IInv, NEW c \in Verifying, signatures[c] # {}
             PROVE  (CHOOSE sig \in signatures[c] : TRUE).point = Signing(Target[c], commonKey)
  BY DEF ObtainedIsRight, Obtained
<1> QED
  BY VerifiedIsRight DEF VerifiedSharesGiveTheSignature, TheSignature

\* A share more: its sender contributes to the messages it is a share of.
LEMMA ServiceSend ==
  ASSUME UNCHANGED <<keyVars, signatures>>, NEW s, sent' = sent \cup {s}
  PROVE  Service!Next \/ UNCHANGED Service!vars
PROOF
<1> DEFINE ms == {m \in Msgs :
                     \/ s.point = Signing(m, secretKeys[s.signer])
                     \/ s.hint.of = m /\ s.point = Times(s.hint.point, secretKeys[s.signer])}
<1>1. secretKeys' = secretKeys /\ commonKey' = commonKey /\ signatures' = signatures
  BY DEF keyVars
<1>2. CASE s.signer \in Signers
  <2>1. \A m \in Msgs :
            SignedBy(m)' = IF m \in ms THEN SignedBy(m) \cup {s.signer} ELSE SignedBy(m)
    <3> TAKE m \in Msgs
    <3> DEFINE By(q, i) == q.signer = i /\
                   \/ q.point = Times(HashOf[m], secretKeys[i])
                   \/ q.hint.of = m /\ q.point = Times(q.hint.point, secretKeys[i])
    <3>1. SignedBy(m) = {i \in Signers : \E q \in sent : By(q, i)}
      BY DEF SignedBy, Signing
    <3>2. SignedBy(m)' = {i \in Signers : \E q \in sent \cup {s} : By(q, i)}
      BY <1>1 DEF SignedBy, Signing
    <3>3. \A i : By(s, i) <=> i = s.signer /\ m \in ms
      BY DEF Signing
    <3> HIDE DEF By, ms
    <3> QED
      BY <1>2, <3>1, <3>2, <3>3
  <2>2. Service!Contribute(s.signer, ms)
    BY <1>1, <2>1 DEF Service!Contribute
  <2> QED
    BY <1>2, <2>2 DEF Service!Next
<1>3. CASE s.signer \notin Signers
  <2>1. \A m \in Msgs : SignedBy(m)' = SignedBy(m)
    BY <1>1, <1>3 DEF SignedBy, Signing
  <2> QED
    BY <1>1, <2>1 DEF Service!vars
<1> QED
  BY <1>2, <1>3

\* merge() of a collector: it obtains the signature if it verified the shares.
LEMMA ServiceMerge ==
  ASSUME IInv, IInv', NEW c \in Collectors, Merge(c)
  PROVE  Service!Next \/ UNCHANGED Service!vars
PROOF
<1>1. secretKeys' = secretKeys /\ commonKey' = commonKey /\ sent' = sent
  BY DEF Merge, keyVars
<1>2. \A m \in Msgs : SignedBy(m)' = SignedBy(m)
  BY <1>1 DEF SignedBy, Signing
<1>3. \A d \in Collectors : d # c => signatures'[d] = signatures[d]
  BY DEF Merge, IInv, TypeOK
<1>4. CASE c \notin Verifying
  <2>1. \A d \in Verifying : signatures'[d] = signatures[d]
    BY <1>3, <1>4 DEF Verifying
  <2>2. Obtained' = Obtained
    <3>1. ObtainedIsRight /\ ObtainedIsRight'
      BY InvObtained, PTL
    <3> QED
      BY <1>1, <2>1, <3>1 DEF ObtainedIsRight, Obtained, Verifying
  <2>3. SignedByAll' = SignedByAll
    BY <1>2 DEF SignedByAll
  <2> QED
    BY <1>1, <2>2, <2>3 DEF Service!vars, Obtained, SignedByAll
<1>5. CASE c \in Verifying
  <2>1. signatures'[c] # {}
    <3>1. SealedSetHasSignature'
      BY InvSealed, PTL
    <3>2. wasMerged'[c]
      BY DEF Merge, IInv, TypeOK
    <3> QED
      BY <1>5, <3>1, <3>2 DEF SealedSetHasSignature
  <2>2. Cardinality(SignedBy(Target[c])) >= T
    <3>1. ThresholdOfSigners'
      BY EnoughSigned, PTL
    <3>2. Target[c] \in Msgs
      BY SigningConstants
    <3> QED
      BY <1>2, <1>5, <2>1, <3>1, <3>2 DEF ThresholdOfSigners
  <2>3. ObtainedIsRight /\ ObtainedIsRight'
    BY InvObtained, PTL
  <2>4. Obtained' = [Obtained EXCEPT ![c] = Signing(Target[c], commonKey)]
    BY <1>1, <1>3, <1>5, <2>1, <2>3 DEF ObtainedIsRight, Obtained, Verifying
  <2>5. Service!Obtain(c)
    <3>1. SignedByAll' = SignedByAll /\ SignedByAll[Target[c]] = SignedBy(Target[c])
      BY <1>2, SigningConstants DEF SignedByAll
    <3>2. Service!Cardinality(SignedByAll[Target[c]]) >= T
      BY <2>2, <3>1 DEF Cardinality, Service!Cardinality
    <3> QED
      BY <1>1, <2>4, <3>1, <3>2 DEF Service!Obtain, Obtained, SignedByAll
  <2> QED
    BY <1>5, <2>5 DEF Service!Next
<1> QED
  BY <1>4, <1>5

\* Every step is one the promise allows, or changes nothing it speaks of.
LEMMA ServiceStep == IInv /\ IInv' /\ [Next]_vars => [Service!Next]_(Service!vars)
PROOF
<1> SUFFICES ASSUME IInv, IInv', [Next]_vars PROVE Service!Next \/ UNCHANGED Service!vars
  OBVIOUS
<1>1. CASE UNCHANGED <<keyVars, sent, signatures>>
  <2>1. secretKeys' = secretKeys /\ commonKey' = commonKey /\ sent' = sent /\ signatures' = signatures
    BY <1>1 DEF keyVars
  <2>2. \A m \in Msgs : SignedBy(m)' = SignedBy(m)
    BY <2>1 DEF SignedBy, Signing
  <2> QED
    BY <2>1, <2>2 DEF Service!vars
<1>2. ASSUME NEW i \in Signers, NEW m \in Msgs, Sign(i, m)
      PROVE  Service!Next \/ UNCHANGED Service!vars
  BY <1>2, ServiceSend DEF Sign, keyVars, setVars
<1>3. ASSUME NEW s, Forge(s)
      PROVE  Service!Next \/ UNCHANGED Service!vars
  BY <1>3, ServiceSend DEF Forge, keyVars, setVars
<1>4. ASSUME NEW c \in Collectors, Merge(c)
      PROVE  Service!Next \/ UNCHANGED Service!vars
  BY <1>4, ServiceMerge
<1>5. CASE UNCHANGED vars
  BY <1>1, <1>5 DEF vars, keyVars
<1>6. ASSUME NEW c \in Collectors, NEW s \in sent, AddSigShare(c, s)
      PROVE  Service!Next \/ UNCHANGED Service!vars
  BY <1>1, <1>6 DEF AddSigShare
<1> QED
  BY <1>2, <1>3, <1>4, <1>5, <1>6 DEF Next

\* The signers, the network and the collectors that run VerifySig implement the
\* promise: a collector obtains the signature of the common key, and only after
\* T signers contributed to its message.
THEOREM Implementation == Spec => ImplementsSignatureService
PROOF
<1> QED
  BY ServiceInit, ServiceStep, Invariant, PTL
  DEF Spec, ImplementsSignatureService, Service!Spec
=============================================================================
