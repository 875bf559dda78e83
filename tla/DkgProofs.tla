------------------------------ MODULE DkgProofs ------------------------------
(***************************************************************************)
(* Proofs about Dkg: type correctness, that whatever a node accepted keeps *)
(* fitting its sender's broadcast, that honest nodes are not blamed, and   *)
(* that the key shares are those of the common public key.                 *)
(***************************************************************************)
EXTENDS Dkg, PrimeFieldProofs

LEMMA NodeFacts ==
  /\ Nodes \subseteq Fr /\ IsFiniteSet(Nodes) /\ Honest \subseteq Nodes
  /\ T \in Nat /\ 1 \in 1..T
  /\ NonZero = Fr \ {0} /\ 0 \in Fr
PROOF
<1>1. IsFiniteSet(Nodes)
  BY DkgConstants, FS_Interval DEF Nodes
<1> QED
  BY <1>1, DkgConstants, PIsPrime DEF Nodes, Honest, Fr, NonZero

\* The polynomials in a node's secret have values in Fr at every node.
LEMMA ContributionInFr ==
  ASSUME NEW pol \in [1..T -> Fr], NEW j \in Nodes
  PROVE  PolynomialValue(pol, j) \in Fr
BY NodeFacts, PolynomialValueInFr

\* The common point is a point of G2 once everybody broadcast.
LEMMA CommonPointType ==
  ASSUME TypeOK, \A i \in Nodes : public[i] # None
  PROVE  CommonPoint \in G2
PROOF
<1> DEFINE first == [i \in Nodes |-> public[i][1].k]
<1>1. \A i \in Nodes : public[i][1] \in G2
  BY NodeFacts DEF TypeOK, PublicVectors
<1>2. first \in [Nodes -> Fr]
  BY <1>1 DEF G2
<1> HIDE DEF first
<1>3. Sum(first) \in Fr
  BY <1>2, NodeFacts, SumInFr
<1> QED
  BY <1>3 DEF first, CommonPoint, G2

-----------------------------------------------------------------------------
LEMMA TypeInit == Init => TypeOK
BY DkgConstants DEF Init, TypeOK, Polynomials

LEMMA TypeStep == TypeOK /\ [Next]_vars => TypeOK'
PROOF
<1> SUFFICES ASSUME TypeOK, [Next]_vars PROVE TypeOK'
  OBVIOUS
<1>1. CASE UNCHANGED vars
  BY <1>1 DEF TypeOK, vars
<1>2. ASSUME NEW i \in Honest, NEW pol \in Replacements, SetDKGSecret(i, pol)
      PROVE  TypeOK'
  BY <1>2, NodeFacts, DkgConstants DEF TypeOK, SetDKGSecret
<1>3. ASSUME NEW i \in Honest, CreatePublicShares(i)
      PROVE  TypeOK'
  <2>1. VerificationVector(secret[i]) \in PublicVectors
    BY NodeFacts DEF TypeOK, VerificationVector, PublicVectors, G2
  <2> QED
    BY <1>3, <2>1 DEF TypeOK, CreatePublicShares
<1>4. ASSUME NEW i \in Honest, CreateSecretShares(i)
      PROVE  TypeOK'
  <2>1. i \in Nodes /\ secret[i] \in [1..T -> Fr]
    BY NodeFacts DEF TypeOK
  <2>2. \A j \in Nodes :
           [from |-> i, to |-> j, value |-> PolynomialValue(secret[i], j)] \in Shares
    BY <2>1, ContributionInFr DEF Shares
  <2> QED
    BY <1>4, <2>1, <2>2 DEF TypeOK, CreateSecretShares
<1>5. ASSUME NEW s \in sent, VerifyDKGShare(s)
      PROVE  TypeOK'
  <2>1. s.from \in Nodes /\ s.to \in Nodes /\ s.value \in Fr
    BY DEF TypeOK, Shares
  <2>2. accepted' \in [Nodes -> [Nodes -> NonZero \cup {None}]]
    <3>1. IsValid(s) => s.value \in NonZero
      BY <2>1, NodeFacts DEF IsValid
    <3>2. \/ accepted' = accepted
          \/ IsValid(s) /\ accepted' = [accepted EXCEPT ![s.to][s.from] = s.value]
      BY <1>5 DEF VerifyDKGShare
    <3> DEFINE V == NonZero \cup {None}
    <3>3. accepted \in [Nodes -> [Nodes -> V]] /\ (IsValid(s) => s.value \in V)
      BY <3>1 DEF TypeOK
    <3> HIDE DEF V
    <3>4. accepted' \in [Nodes -> [Nodes -> V]]
      BY <2>1, <3>2, <3>3
    <3> QED
      BY <3>4 DEF V
  <2>3. refused' \in [Nodes -> SUBSET Nodes]
    <3>1. \/ refused' = refused
          \/ refused' = [refused EXCEPT ![s.to] = @ \cup {s.from}]
      BY <1>5 DEF VerifyDKGShare
    <3> QED
      BY <2>1, <3>1 DEF TypeOK
  <2> QED
    BY <1>5, <2>2, <2>3 DEF TypeOK, VerifyDKGShare, nodeVars
<1>6. ASSUME NEW j \in Honest, CreatePrivateKeyShare(j)
      PROVE  TypeOK'
  <2>1. accepted[j] \in [Nodes -> Fr]
    BY <1>6, NodeFacts DEF TypeOK, CreatePrivateKeyShare
  <2>2. Sum(accepted[j]) \in Fr
    BY <2>1, NodeFacts, SumInFr
  <2>3. Sum(accepted[j]) \in NonZero
    BY <1>6, <2>2, NodeFacts DEF CreatePrivateKeyShare
  <2> QED
    BY <1>6, <2>3 DEF TypeOK, CreatePrivateKeyShare, nodeVars
<1>7. CASE CreatePublicKey
  <2>1. CommonPoint \in G2
    BY <1>7, CommonPointType DEF CreatePublicKey
  <2> QED
    BY <1>7, <2>1 DEF TypeOK, CreatePublicKey, nodeVars
<1>8. ASSUME NEW i \in Faulty, NEW vector \in FaultyVectors, FaultyBroadcast(i, vector)
      PROVE  TypeOK'
  BY <1>8, DkgConstants DEF TypeOK, FaultyBroadcast
<1>9. ASSUME NEW i \in Faulty, NEW j \in Honest, NEW value \in FaultyShares,
             FaultySend(i, j, value)
      PROVE  TypeOK'
  <2>1. [from |-> i, to |-> j, value |-> value] \in Shares
    BY DkgConstants DEF Shares, Honest
  <2> QED
    BY <1>9, <2>1 DEF TypeOK, FaultySend
<1> QED
  BY <1>1, <1>2, <1>3, <1>4, <1>5, <1>6, <1>7, <1>8, <1>9 DEF Next

\* Every value keeps its type: no node stores a zero share or a zero key share.
THEOREM TypeCorrect == Spec => []TypeOK
BY TypeInit, TypeStep, PTL DEF Spec

-----------------------------------------------------------------------------
\* A broadcast is made once and stays as it is.
LEMMA BroadcastStep ==
  TypeOK /\ [Next]_vars => \A i \in Nodes : public[i] # None => public'[i] = public[i]
PROOF
<1> SUFFICES ASSUME TypeOK, [Next]_vars, NEW n \in Nodes, public[n] # None
             PROVE  public'[n] = public[n]
  OBVIOUS
<1>1. CASE UNCHANGED public
  BY <1>1
<1>2. ASSUME NEW i \in Honest, CreatePublicShares(i)
      PROVE  public'[n] = public[n]
  BY <1>2, NodeFacts DEF CreatePublicShares, TypeOK
<1>3. ASSUME NEW i \in Faulty, NEW vector \in FaultyVectors, FaultyBroadcast(i, vector)
      PROVE  public'[n] = public[n]
  BY <1>3, DkgConstants DEF FaultyBroadcast, TypeOK
<1> QED
  BY <1>1, <1>2, <1>3 DEF Next, SetDKGSecret, CreateSecretShares, VerifyDKGShare,
     CreatePrivateKeyShare, CreatePublicKey, FaultySend, nodeVars, vars

LEMMA AcceptedStep ==
  TypeOK /\ AcceptedSharesFitBroadcast /\ [Next]_vars => AcceptedSharesFitBroadcast'
PROOF
<1> SUFFICES ASSUME TypeOK, AcceptedSharesFitBroadcast, [Next]_vars
             PROVE  AcceptedSharesFitBroadcast'
  OBVIOUS
<1>1. CASE UNCHANGED accepted
  BY <1>1, BroadcastStep, NodeFacts DEF AcceptedSharesFitBroadcast
<1>2. ASSUME NEW s \in sent, VerifyDKGShare(s)
      PROVE  AcceptedSharesFitBroadcast'
  <2>1. s.from \in Nodes /\ s.to \in Nodes /\ s.value \in Fr
    BY DEF TypeOK, Shares
  <2>2. public' = public
    BY <1>2 DEF VerifyDKGShare, nodeVars
  <2>3. CASE IsValid(s)
    <3>1. /\ public[s.from] # None
          /\ \A k \in 1..T : ~public[s.from][k].outside
      BY <1>2, <2>3 DEF VerifyDKGShare, IsValid, Verification, ValidateKey
    <3>2. s.value = PolynomialValue([k \in 1..T |-> public[s.from][k].k], s.to)
      <4>1. (s.to - 1) + 1 = s.to
        BY <2>1, DkgConstants DEF Nodes
      <4> QED
        BY <2>3, <4>1 DEF IsValid, Verification
    <3>3. accepted' = [accepted EXCEPT ![s.to][s.from] = s.value]
      BY <1>2, <2>3 DEF VerifyDKGShare
    <3> SUFFICES ASSUME NEW j \in Honest, NEW i \in Nodes, accepted'[j][i] # None
                 PROVE  /\ public[i] # None
                        /\ \A k \in 1..T : ~public[i][k].outside
                        /\ accepted'[j][i] = PolynomialValue([k \in 1..T |-> public[i][k].k], j)
      BY <2>2 DEF AcceptedSharesFitBroadcast
    <3>4. CASE j = s.to /\ i = s.from
      BY <2>1, <3>1, <3>2, <3>3, <3>4 DEF TypeOK
    <3>5. CASE ~(j = s.to /\ i = s.from)
      <4>1. accepted'[j][i] = accepted[j][i]
        BY <2>1, <3>3, <3>5, NodeFacts DEF TypeOK
      <4> QED
        BY <4>1 DEF AcceptedSharesFitBroadcast
    <3> QED
      BY <3>4, <3>5
  <2>4. CASE ~IsValid(s)
    <3>1. accepted' = accepted
      BY <1>2, <2>4 DEF VerifyDKGShare
    <3> QED
      BY <2>2, <3>1 DEF AcceptedSharesFitBroadcast
  <2> QED
    BY <2>3, <2>4
<1> QED
  BY <1>1, <1>2 DEF Next, SetDKGSecret, CreatePublicShares, CreateSecretShares,
     CreatePrivateKeyShare, CreatePublicKey, FaultyBroadcast, FaultySend, nodeVars, vars

\* Whatever an honest node accepted lies on the polynomial its sender committed
\* to, for any number of nodes, any threshold and any faulty nodes.
THEOREM AcceptedFit == Spec => []AcceptedSharesFitBroadcast
PROOF
<1>1. Init => AcceptedSharesFitBroadcast
  BY NodeFacts DEF Init, AcceptedSharesFitBroadcast
<1> QED
  BY <1>1, AcceptedStep, TypeCorrect, PTL DEF Spec

-----------------------------------------------------------------------------
LEMMA OnePolynomialStep ==
  TypeOK /\ OnePolynomialPerNode /\ [Next]_vars => OnePolynomialPerNode'
PROOF
<1> SUFFICES ASSUME TypeOK, OnePolynomialPerNode, [Next]_vars,
                    NEW n \in Honest, n \notin replaced'
             PROVE  /\ public'[n] # None => public'[n] = VerificationVector(secret'[n])
                    /\ \A s \in sent' : s.from = n =>
                          s.value = PolynomialValue(secret'[n], s.to)
  BY DEF OnePolynomialPerNode, VerificationVector
<1> DEFINE Goal == /\ public'[n] # None => public'[n] = VerificationVector(secret'[n])
                   /\ \A s \in sent' : s.from = n =>
                          s.value = PolynomialValue(secret'[n], s.to)
<1>1. n \in Nodes /\ n \notin Faulty
  BY DEF Honest
<1>2. CASE UNCHANGED <<secret, replaced, public, sent>>
  BY <1>2 DEF OnePolynomialPerNode
<1>3. ASSUME NEW i \in Honest, NEW pol \in Replacements, SetDKGSecret(i, pol)
      PROVE  Goal
  <2>1. n # i /\ n \notin replaced
    BY <1>3 DEF SetDKGSecret
  <2>2. secret'[n] = secret[n]
    BY <1>1, <1>3, <2>1 DEF SetDKGSecret, TypeOK
  <2> QED
    BY <1>3, <2>1, <2>2 DEF SetDKGSecret, OnePolynomialPerNode
<1>4. ASSUME NEW i \in Honest, CreatePublicShares(i)
      PROVE  Goal
  <2>1. /\ n = i => public'[n] = VerificationVector(secret[n])
        /\ n # i => public'[n] = public[n]
    BY <1>1, <1>4 DEF CreatePublicShares, TypeOK
  <2> QED
    BY <1>4, <2>1 DEF CreatePublicShares, OnePolynomialPerNode
<1>5. ASSUME NEW i \in Honest, CreateSecretShares(i)
      PROVE  Goal
  <2>1. ASSUME NEW s \in sent', s.from = n, s \notin sent
        PROVE  s.value = PolynomialValue(secret[n], s.to)
    BY <1>5, <2>1 DEF CreateSecretShares
  <2> QED
    BY <1>5, <2>1 DEF CreateSecretShares, OnePolynomialPerNode
<1>6. ASSUME NEW i \in Faulty, NEW vector \in FaultyVectors, FaultyBroadcast(i, vector)
      PROVE  Goal
  <2>1. public'[n] = public[n]
    BY <1>1, <1>6 DEF FaultyBroadcast, TypeOK
  <2> QED
    BY <1>6, <2>1 DEF FaultyBroadcast, OnePolynomialPerNode
<1>7. ASSUME NEW i \in Faulty, NEW j \in Honest, NEW value \in FaultyShares,
             FaultySend(i, j, value)
      PROVE  Goal
  <2>1. \A s \in sent' : s.from = n => s \in sent
    BY <1>1, <1>7 DEF FaultySend
  <2> QED
    BY <1>7, <2>1 DEF FaultySend, OnePolynomialPerNode
<1> QED
  BY <1>2, <1>3, <1>4, <1>5, <1>6, <1>7 DEF Next, VerifyDKGShare, CreatePrivateKeyShare,
     CreatePublicKey, nodeVars, vars

\* A share of an honest node whose polynomial was not replaced verifies with
\* its broadcast, unless it is zero.
LEMMA HonestShareIsValid ==
  ASSUME TypeOK, OnePolynomialPerNode, NEW s \in sent, s.from \in Honest \ replaced,
         public[s.from] # None, s.value # 0
  PROVE  IsValid(s)
PROOF
<1> DEFINE pol == secret[s.from]
<1>1. s.from \in Nodes /\ s.to \in Nodes /\ (s.to - 1) + 1 = s.to
  BY DkgConstants DEF TypeOK, Shares, Nodes
<1>2. pol \in [1..T -> Fr]
  BY <1>1 DEF TypeOK
<1>3. public[s.from] = VerificationVector(pol) /\ s.value = PolynomialValue(pol, s.to)
  BY DEF OnePolynomialPerNode
<1> HIDE DEF pol
<1>4. [k \in 1..T |-> public[s.from][k].k] = pol
  BY <1>2, <1>3 DEF VerificationVector
<1>5. \A k \in 1..T : ValidateKey(public[s.from][k])
  BY <1>3 DEF VerificationVector, ValidateKey
<1> QED
  BY <1>1, <1>3, <1>4, <1>5 DEF IsValid, Verification

LEMMA RefusedStep ==
  /\ TypeOK /\ OnePolynomialPerNode /\ HonestRefusedOnlyAfterReplacement
  /\ [Next]_vars
  => HonestRefusedOnlyAfterReplacement'
PROOF
<1> SUFFICES ASSUME TypeOK, OnePolynomialPerNode, HonestRefusedOnlyAfterReplacement,
                    [Next]_vars, NEW i \in Honest, NEW j \in Honest, i \in refused'[j]
             PROVE  i \in replaced' \/ [from |-> i, to |-> j, value |-> 0] \in sent'
  BY DEF HonestRefusedOnlyAfterReplacement
<1>1. replaced \subseteq replaced' /\ sent \subseteq sent'
  BY DEF Next, SetDKGSecret, CreatePublicShares, CreateSecretShares, VerifyDKGShare,
     CreatePrivateKeyShare, CreatePublicKey, FaultyBroadcast, FaultySend, nodeVars, vars
<1>2. CASE i \in refused[j]
  BY <1>1, <1>2 DEF HonestRefusedOnlyAfterReplacement
<1>3. CASE i \notin refused[j]
  <2>1. PICK s \in sent : VerifyDKGShare(s)
    BY <1>3 DEF Next, SetDKGSecret, CreatePublicShares, CreateSecretShares,
       CreatePrivateKeyShare, CreatePublicKey, FaultyBroadcast, FaultySend, nodeVars, vars
  <2>2. s.from \in Nodes /\ s.to \in Nodes
    BY DEF TypeOK, Shares
  <2>3. ~IsValid(s) /\ i = s.from /\ j = s.to /\ public[i] # None
    <3>1. \/ refused' = refused
          \/ ~IsValid(s) /\ refused' = [refused EXCEPT ![s.to] = @ \cup {s.from}]
      BY <2>1 DEF VerifyDKGShare
    <3>2. j \in Nodes
      BY DEF Honest
    <3>3. ~IsValid(s) /\ i = s.from /\ j = s.to
      BY <1>3, <2>2, <3>1, <3>2 DEF TypeOK
    <3> QED
      BY <2>1, <3>3 DEF VerifyDKGShare
  <2>4. i \in replaced \/ s.value = 0
    BY <2>3, HonestShareIsValid
  <2>5. s = [from |-> s.from, to |-> s.to, value |-> s.value]
    BY DEF TypeOK, Shares
  <2> QED
    BY <1>1, <2>3, <2>4, <2>5
<1> QED
  BY <1>2, <1>3

\* No honest node is blamed: a share it sent is refused only if its caller
\* replaced its polynomial or if the share is zero.
THEOREM HonestNotBlamed == Spec => []HonestRefusedOnlyAfterReplacement
PROOF
<1>1. Init => OnePolynomialPerNode /\ HonestRefusedOnlyAfterReplacement
  BY NodeFacts DEF Init, OnePolynomialPerNode, HonestRefusedOnlyAfterReplacement
<1> QED
  BY <1>1, OnePolynomialStep, RefusedStep, TypeCorrect, PTL DEF Spec

-----------------------------------------------------------------------------
(* The common key.                                                         *)

\* A node that has its key share added up what it accepted from everybody, and
\* accepts nothing afterwards.
FinishedNodes ==
    \A j \in Nodes : keyShare[j] # None =>
        /\ j \in Honest
        /\ \A i \in Nodes : accepted[j][i] # None
        /\ keyShare[j] = Sum(accepted[j])

\* The public key adds up the broadcasts, which do not change any more.
PublicKeyOfBroadcasts ==
    publicKey # None =>
        /\ \A i \in Nodes : public[i] # None
        /\ publicKey = CommonPoint

LEMMA FinishedStep == TypeOK /\ FinishedNodes /\ [Next]_vars => FinishedNodes'
PROOF
<1> SUFFICES ASSUME TypeOK, FinishedNodes, [Next]_vars, NEW n \in Nodes, keyShare'[n] # None
             PROVE  /\ n \in Honest
                    /\ \A i \in Nodes : accepted'[n][i] # None
                    /\ keyShare'[n] = Sum(accepted'[n])
  BY DEF FinishedNodes
<1> DEFINE Goal == /\ n \in Honest
                   /\ \A i \in Nodes : accepted'[n][i] # None
                   /\ keyShare'[n] = Sum(accepted'[n])
<1>1. CASE UNCHANGED <<accepted, keyShare>>
  BY <1>1 DEF FinishedNodes
<1>2. ASSUME NEW s \in sent, VerifyDKGShare(s)
      PROVE  Goal
  <2>1. keyShare' = keyShare /\ accepted[s.to][s.from] = None /\ s.from \in Nodes
    BY <1>2 DEF VerifyDKGShare, TypeOK, Shares
  <2>2. n # s.to
    BY <2>1 DEF FinishedNodes
  <2>3. accepted'[n] = accepted[n]
    <3>1. \/ accepted' = accepted
          \/ accepted' = [accepted EXCEPT ![s.to][s.from] = s.value]
      BY <1>2 DEF VerifyDKGShare
    <3> QED
      BY <2>2, <3>1 DEF TypeOK
  <2> QED
    BY <2>1, <2>3 DEF FinishedNodes
<1>3. ASSUME NEW j \in Honest, CreatePrivateKeyShare(j)
      PROVE  Goal
  <2>1. accepted' = accepted
    BY <1>3 DEF CreatePrivateKeyShare
  <2>2. CASE n = j
    BY <1>3, <2>1, <2>2 DEF CreatePrivateKeyShare, TypeOK
  <2>3. CASE n # j
    <3>1. keyShare'[n] = keyShare[n]
      BY <1>3, <2>3 DEF CreatePrivateKeyShare, TypeOK
    <3> QED
      BY <2>1, <3>1 DEF FinishedNodes
  <2> QED
    BY <2>2, <2>3
<1> QED
  BY <1>1, <1>2, <1>3 DEF Next, SetDKGSecret, CreatePublicShares, CreateSecretShares,
     CreatePublicKey, FaultyBroadcast, FaultySend, nodeVars, vars

LEMMA PublicKeyStep == TypeOK /\ PublicKeyOfBroadcasts /\ [Next]_vars => PublicKeyOfBroadcasts'
PROOF
<1> SUFFICES ASSUME TypeOK, PublicKeyOfBroadcasts, [Next]_vars, publicKey' # None
             PROVE  (\A i \in Nodes : public'[i] # None) /\ publicKey' = CommonPoint'
  BY DEF PublicKeyOfBroadcasts
<1>1. CASE publicKey # None
  <2>1. \A i \in Nodes : public'[i] = public[i] /\ public[i] # None
    BY <1>1, BroadcastStep DEF PublicKeyOfBroadcasts
  <2>2. publicKey' = publicKey
    BY <1>1 DEF Next, SetDKGSecret, CreatePublicShares, CreateSecretShares, VerifyDKGShare,
       CreatePrivateKeyShare, CreatePublicKey, FaultyBroadcast, FaultySend, nodeVars, vars
  <2>3. CommonPoint' = CommonPoint
    BY <2>1 DEF CommonPoint
  <2> QED
    BY <1>1, <2>1, <2>2, <2>3 DEF PublicKeyOfBroadcasts
<1>2. CASE publicKey = None
  <2>1. CreatePublicKey
    BY <1>2 DEF Next, SetDKGSecret, CreatePublicShares, CreateSecretShares, VerifyDKGShare,
       CreatePrivateKeyShare, FaultyBroadcast, FaultySend, nodeVars, vars
  <2>2. public' = public /\ publicKey' = CommonPoint /\ \A i \in Nodes : public[i] # None
    BY <2>1 DEF CreatePublicKey, nodeVars
  <2> QED
    BY <2>2 DEF CommonPoint
<1> QED
  BY <1>1, <1>2

\* The values of the sum of all committed polynomials are the key shares, and
\* its constant term is the common point.
LEMMA SharesOfTheSum ==
  ASSUME TypeOK, AcceptedSharesFitBroadcast, FinishedNodes, \A i \in Nodes : public[i] # None
  PROVE  \E pol \in [1..T -> Fr] :
             /\ CommonPoint.k = pol[1]
             /\ \A j \in Nodes : keyShare[j] # None => keyShare[j] = PolynomialValue(pol, j)
PROOF
<1> DEFINE c == [i \in Nodes |-> [k \in 1..T |-> public[i][k].k]]
           D == [k \in 1..T |-> [i \in Nodes |-> c[i][k]]]
           pol == [k \in 1..T |-> Sum(D[k])]
           v(x) == [i \in Nodes |-> PolynomialValue(c[i], x)]
<1>1. \A i \in Nodes, k \in 1..T : public[i][k].k \in Fr
  BY DEF TypeOK, PublicVectors, G2
<1>2. c \in [Nodes -> [1..T -> Fr]]
  BY <1>1
<1>3. \A i \in Nodes : c[i] = [k \in 1..T |-> public[i][k].k]
  OBVIOUS
<1>4. ASSUME NEW x \in Nodes
      PROVE  pol \in [1..T -> Fr] /\ PolynomialValue(pol, x) = Sum(v(x))
  <2> DEFINE w == v(x)
  <2> HIDE DEF c
  <2>1. AddedUp(Nodes, T, c, D, pol, x, w)
    BY <1>2 DEF AddedUp
  <2> HIDE DEF D, pol, w
  <2>2. x \in Fr /\ IsFiniteSet(Nodes) /\ T \in Nat
    BY NodeFacts
  <2>3. pol \in [1..T -> Fr] /\ PolynomialValue(pol, x) = Sum(w)
    BY <2>1, <2>2, PolynomialSum
  <2> QED
    BY <2>3 DEF w
<1>5. pol \in [1..T -> Fr]
  <2>1. 1 \in Nodes
    BY DkgConstants DEF Nodes
  <2> HIDE DEF pol, v
  <2> QED
    BY <1>4, <2>1
<1>6. ASSUME NEW j \in Nodes, keyShare[j] # None
      PROVE  keyShare[j] = PolynomialValue(pol, j)
  <2>1. j \in Honest /\ keyShare[j] = Sum(accepted[j]) /\ \A i \in Nodes : accepted[j][i] # None
    BY <1>6 DEF FinishedNodes
  <2>2. \A i \in Nodes : accepted[j][i] = PolynomialValue(c[i], j)
    <3> HIDE DEF c
    <3> QED
      BY <1>3, <2>1 DEF AcceptedSharesFitBroadcast
  <2>3. accepted[j] = v(j)
    <3>1. accepted[j] \in [Nodes -> NonZero \cup {None}]
      BY DEF TypeOK
    <3> HIDE DEF c
    <3> QED
      BY <2>2, <3>1
  <2> HIDE DEF pol, v
  <2> QED
    BY <1>4, <2>1, <2>3
<1>7. CommonPoint.k = pol[1]
  <2>1. 1 \in 1..T
    BY NodeFacts
  <2>2. pol[1] = Sum(D[1]) /\ D[1] = [i \in Nodes |-> public[i][1].k]
    BY <2>1
  <2> QED
    BY <2>2 DEF CommonPoint
<1> HIDE DEF pol
<1> QED
  BY <1>5, <1>6, <1>7

\* Once a node finished, no point of a broadcast has a part outside the subgroup.
LEMMA NothingOutside ==
  ASSUME TypeOK, AcceptedSharesFitBroadcast, FinishedNodes,
         NEW j \in Nodes, keyShare[j] # None
  PROVE  CommonPoint.outside = FALSE
PROOF
<1>1. \A i \in Nodes : ~public[i][1].outside
  <2>1. j \in Honest /\ \A i \in Nodes : accepted[j][i] # None
    BY DEF FinishedNodes
  <2> QED
    BY <2>1, NodeFacts DEF AcceptedSharesFitBroadcast
<1>2. {i \in Nodes : public[i][1].outside} = {}
  BY <1>1
<1>3. Cardinality({i \in Nodes : public[i][1].outside}) = 0
  BY <1>2, FS_EmptySet
<1>4. (Cardinality({i \in Nodes : public[i][1].outside}) % 2 = 1) = FALSE
  BY <1>3
<1> QED
  BY <1>4 DEF CommonPoint

\* Any T nodes that finished hold shares of the secret behind the common public
\* key, for any number of nodes, any threshold and any faulty nodes.
THEOREM SharesOfThePublicKey == Spec => []KeySharesMatchPublicKey
PROOF
<1>1. ASSUME TypeOK, AcceptedSharesFitBroadcast, FinishedNodes, PublicKeyOfBroadcasts
      PROVE  KeySharesMatchPublicKey
  <2> SUFFICES ASSUME NEW K \in SUBSET {j \in Nodes : keyShare[j] # None},
                      Cardinality(K) = T, publicKey # None
               PROVE  publicKey = BLSPublicKey(K)
    BY DEF KeySharesMatchPublicKey
  <2>1. publicKey = CommonPoint /\ \A i \in Nodes : public[i] # None
    BY <1>1 DEF PublicKeyOfBroadcasts
  <2>2. PICK pol \in [1..T -> Fr] :
            /\ CommonPoint.k = pol[1]
            /\ \A j \in Nodes : keyShare[j] # None => keyShare[j] = PolynomialValue(pol, j)
    BY <1>1, <2>1, SharesOfTheSum
  <2>3. K \in SUBSET NonZero /\ IsFiniteSet(K) /\ T \in Nat /\ T >= 1 /\ 1 \in Fr
    <3>1. K \in SUBSET Nodes /\ Nodes \subseteq NonZero
      BY DkgConstants, PIsPrime DEF Nodes, NonZero
    <3>2. IsFiniteSet(K)
      BY <3>1, NodeFacts, FS_Subset
    <3> QED
      BY <3>1, <3>2, NodeFacts, FrFacts
  <2> DEFINE f == [j \in K |-> Times(1, PolynomialValue(pol, j))]
  <2>4. Recover(f) = Times(1, pol[1])
    BY <2>3, Interpolation
  <2>5. Times(1, pol[1]) = pol[1]
    BY <2>3, Units
  <2>6. [j \in K |-> keyShare[j]] = f
    <3>1. ASSUME NEW j \in K
          PROVE  keyShare[j] = Times(1, PolynomialValue(pol, j))
      <4>1. PolynomialValue(pol, j) \in Fr
        BY <2>3, NodeFacts, PolynomialValueInFr
      <4> QED
        BY <2>2, <4>1, Units
    <3> QED
      BY <3>1
  <2>7. BLSPublicKey(K) = [k |-> pol[1], outside |-> FALSE]
    <3> HIDE DEF f
    <3> QED
      BY <2>4, <2>5, <2>6 DEF BLSPublicKey
  <2>8. CommonPoint.outside = FALSE
    <3>1. K # {}
      BY <2>3, FS_EmptySet
    <3> QED
      BY <1>1, <3>1, NothingOutside
  <2>9. CommonPoint = [k |-> CommonPoint.k, outside |-> CommonPoint.outside]
    BY DEF CommonPoint
  <2> QED
    BY <2>1, <2>2, <2>7, <2>8, <2>9
<1>2. Init => FinishedNodes /\ PublicKeyOfBroadcasts
  BY DEF Init, FinishedNodes, PublicKeyOfBroadcasts
<1> QED
  BY <1>1, <1>2, FinishedStep, PublicKeyStep, AcceptedFit, TypeCorrect, PTL DEF Spec

\* Key generation ends where signing and decryption begin: the key shares of the
\* nodes that finished are values of one polynomial, whose constant term is the
\* common key, and that key is in the subgroup once some node finished.
OneKeyPolynomial ==
    publicKey # None =>
        /\ \E pol \in [1..T -> Fr] :
               /\ publicKey.k = pol[1]
               /\ \A j \in Nodes : keyShare[j] # None => keyShare[j] = PolynomialValue(pol, j)
        /\ (\E j \in Nodes : keyShare[j] # None) => publicKey.outside = FALSE

\* So many nodes as finish, T of them or more, hold one sharing of the common key,
\* whatever the faulty ones committed to.
THEOREM OneSharing == Spec => []OneKeyPolynomial
PROOF
<1>1. ASSUME TypeOK, AcceptedSharesFitBroadcast, FinishedNodes, PublicKeyOfBroadcasts
      PROVE  OneKeyPolynomial
  <2> SUFFICES ASSUME publicKey # None PROVE OneKeyPolynomial
    BY DEF OneKeyPolynomial
  <2>1. publicKey = CommonPoint /\ \A i \in Nodes : public[i] # None
    BY <1>1 DEF PublicKeyOfBroadcasts
  <2>2. PICK pol \in [1..T -> Fr] :
            /\ CommonPoint.k = pol[1]
            /\ \A j \in Nodes : keyShare[j] # None => keyShare[j] = PolynomialValue(pol, j)
    BY <1>1, <2>1, SharesOfTheSum
  <2>3. ASSUME NEW j \in Nodes, keyShare[j] # None PROVE publicKey.outside = FALSE
    BY <1>1, <2>1, <2>3, NothingOutside
  <2> QED
    BY <2>1, <2>2, <2>3 DEF OneKeyPolynomial
<1>2. Init => FinishedNodes /\ PublicKeyOfBroadcasts
  BY DEF Init, FinishedNodes, PublicKeyOfBroadcasts
<1> QED
  BY <1>1, <1>2, FinishedStep, PublicKeyStep, AcceptedFit, TypeCorrect, PTL DEF Spec
=============================================================================
