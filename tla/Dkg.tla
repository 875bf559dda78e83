-------------------------------- MODULE Dkg --------------------------------
(***************************************************************************)
(* Distributed key generation with DKGBLSWrapper (DKGTEWrapper is the same *)
(* code for threshold encryption).  Each node draws a secret polynomial,   *)
(* broadcasts the public shares of its coefficients, sends every node the  *)
(* value of the polynomial at that node's index, verifies what it receives *)
(* against the sender's broadcast, and adds up the shares it accepted.     *)
(*                                                                         *)
(* The network is not in the library: everybody sees the same broadcast,   *)
(* and secret shares may be lost, delayed, reordered and delivered twice.  *)
(* Nodes in Faulty broadcast and send what they like.                      *)
(***************************************************************************)
EXTENDS PrimeField

CONSTANTS
  N, T,              \* totalSigners and requiredSigners
  Faulty,            \* nodes that do not follow the protocol
  Drawn,             \* polynomials DKGBLSSecret may draw for an honest node
  Replacements,      \* polynomials a caller may install with setDKGSecret
  FaultyVectors,     \* public shares a faulty node may broadcast
  FaultyShares,      \* secret shares a faulty node may send
  None               \* not there yet

Nodes == 1..N        \* node i has the 0-based index i - 1 of Dkg::Verification
Honest == Nodes \ Faulty

\* A point of the curve of G2: k times the generator plus a part outside the
\* group of order r, present or not.
G2 == [k : Fr, outside : BOOLEAN]
PublicVectors == [1..T -> G2]
Shares == [from : Nodes, to : Nodes, value : Fr]

ASSUME DkgConstants ==
    /\ N \in Nat /\ T \in 1..N /\ N < P
    /\ Faulty \subseteq Nodes
    /\ Drawn \subseteq Polynomials(T)
    /\ Replacements \subseteq [1..T -> Fr]
    /\ FaultyVectors \subseteq PublicVectors
    /\ FaultyShares \subseteq Fr
    /\ None \notin Fr \cup PublicVectors \cup G2

VARIABLES
  secret,        \* poly of each node's DKGBLSSecret
  replaced,      \* the nodes whose caller used setDKGSecret (history)
  public,        \* what each node broadcast: createDKGPublicShares
  contributed,   \* the nodes that called createDKGSecretShares
  sent,          \* the secret shares on the network
  accepted,      \* accepted[j][i]: the share of i that node j verified
  refused,       \* the nodes of which j refused a share
  keyShare,      \* the private key share of each node
  publicKey      \* the common public key

nodeVars == <<secret, replaced, public, contributed, sent>>
vars == <<secret, replaced, public, contributed, sent, accepted, refused, keyShare,
          publicKey>>

-----------------------------------------------------------------------------
(* Operations of class Dkg.                                                *)

\* ThresholdUtils::ValidateKey
ValidateKey(point) == ~point.outside

VerificationVector(pol) == [k \in 1..T |-> [k |-> pol[k], outside |-> FALSE]]

\* Slips: the point is the sender's index; subgroup membership is not checked.
VerificationOffByOne(idx, share, vector) ==
    /\ \A k \in 1..T : ValidateKey(vector[k])
    /\ share = PolynomialValue([k \in 1..T |-> vector[k].k], idx)
VerificationAnyPoint(idx, share, vector) ==
    share = PolynomialValue([k \in 1..T |-> vector[k].k], idx + 1)

\* Dkg::Verification: every point valid, and the sum of idx + 1 to the k times
\* the k-th point is share times the generator.
Verification(idx, share, vector) ==
    /\ \A k \in 1..T : ValidateKey(vector[k])
    /\ share = PolynomialValue([k \in 1..T |-> vector[k].k], idx + 1)

-----------------------------------------------------------------------------
\* Every node constructs its DKGBLSWrapper.
Init ==
    /\ secret \in [Nodes -> Drawn]
    /\ replaced = {}
    /\ public = [i \in Nodes |-> None]
    /\ contributed = {}
    /\ sent = {}
    /\ accepted = [j \in Nodes |-> [i \in Nodes |-> None]]
    /\ refused = [j \in Nodes |-> {}]
    /\ keyShare = [j \in Nodes |-> None]
    /\ publicKey = None

\* setDKGSecret checks the size of the vector only: not its leading
\* coefficient, nor whether shares of the old polynomial are out.
SetDKGSecret(i, pol) ==
    /\ secret' = [secret EXCEPT ![i] = pol]
    /\ replaced' = replaced \cup {i}
    /\ UNCHANGED <<public, contributed, sent, accepted, refused, keyShare, publicKey>>

CreatePublicShares(i) ==
    /\ public[i] = None
    /\ public' = [public EXCEPT ![i] = VerificationVector(secret[i])]
    /\ UNCHANGED <<secret, replaced, contributed, sent, accepted, refused, keyShare,
                   publicKey>>

\* SecretKeyContribution; PolynomialValue throws if the degree is too small.
CreateSecretShares(i) ==
    /\ i \notin contributed
    /\ HasFullDegree(secret[i])
    /\ contributed' = contributed \cup {i}
    /\ sent' = sent \cup {[from |-> i, to |-> j, value |-> PolynomialValue(secret[i], j)] :
                              j \in Nodes}
    /\ UNCHANGED <<secret, replaced, public, accepted, refused, keyShare, publicKey>>

IsValidWithZero(s) == Verification(s.to - 1, s.value, public[s.from])   \* slip

\* VerifyDKGShare throws ZeroSecretKey on a zero share and returns what
\* Verification says otherwise.
IsValid(s) == s.value # 0 /\ Verification(s.to - 1, s.value, public[s.from])

\* A share reaches its node, perhaps again; the node keeps it if it is valid.
VerifyDKGShare(s) ==
    LET j == s.to
        i == s.from
    IN  /\ s \in sent
        /\ public[i] # None
        /\ accepted[j][i] = None
        /\ \/ /\ IsValid(s)
              /\ accepted' = [accepted EXCEPT ![j][i] = s.value]
              /\ UNCHANGED refused
           \/ /\ ~IsValid(s)
              /\ refused' = [refused EXCEPT ![j] = @ \cup {i}]
              /\ UNCHANGED accepted
        /\ UNCHANGED <<nodeVars, keyShare, publicKey>>

\* Slip: the node starts before it has verified every sender.
CreatePrivateKeyShareEarly(j) ==
    LET key == Sum([i \in {i \in Nodes : accepted[j][i] # None} |-> accepted[j][i]])
    IN  /\ keyShare[j] = None
        /\ key # 0
        /\ keyShare' = [keyShare EXCEPT ![j] = key]
        /\ UNCHANGED <<nodeVars, accepted, refused, publicKey>>

\* CreateBLSPrivateKeyShare and SecretKeyShareCreate: totalSigners verified
\* shares are added up; a zero sum is refused.
CreatePrivateKeyShare(j) ==
    /\ \A i \in Nodes : accepted[j][i] # None
    /\ keyShare[j] = None
    /\ Sum(accepted[j]) # 0
    /\ keyShare' = [keyShare EXCEPT ![j] = Sum(accepted[j])]
    /\ UNCHANGED <<nodeVars, accepted, refused, publicKey>>

\* CreateTEPublicKey adds up the first public share of every node; the
\* constructor of TEPublicKey refuses zero and does not look at the subgroup.
CommonPoint ==
    [k |-> Sum([i \in Nodes |-> public[i][1].k]),
     outside |-> Cardinality({i \in Nodes : public[i][1].outside}) % 2 = 1]

\* BLSPublicKey from the map of the public key shares of the nodes in K.
BLSPublicKey(K) == [k |-> Recover([j \in K |-> keyShare[j]]), outside |-> FALSE]

CreatePublicKey ==
    /\ publicKey = None
    /\ \A i \in Nodes : public[i] # None
    /\ CommonPoint # [k |-> 0, outside |-> FALSE]
    /\ publicKey' = CommonPoint
    /\ UNCHANGED <<nodeVars, accepted, refused, keyShare>>

FaultyBroadcast(i, vector) ==
    /\ public[i] = None
    /\ public' = [public EXCEPT ![i] = vector]
    /\ UNCHANGED <<secret, replaced, contributed, sent, accepted, refused, keyShare,
                   publicKey>>

FaultySend(i, j, value) ==
    /\ sent' = sent \cup {[from |-> i, to |-> j, value |-> value]}
    /\ UNCHANGED <<secret, replaced, public, contributed, accepted, refused, keyShare,
                   publicKey>>

Next ==
    \/ \E i \in Honest, pol \in Replacements : SetDKGSecret(i, pol)
    \/ \E i \in Honest : CreatePublicShares(i) \/ CreateSecretShares(i)
    \/ \E s \in sent : s.to \in Honest /\ VerifyDKGShare(s)
    \/ \E j \in Honest : CreatePrivateKeyShare(j)
    \/ CreatePublicKey
    \/ \E i \in Faulty, vector \in FaultyVectors : FaultyBroadcast(i, vector)
    \/ \E i \in Faulty, j \in Honest, value \in FaultyShares : FaultySend(i, j, value)

Spec == Init /\ [][Next]_vars

\* Every node follows the protocol to its end, and the network delivers each
\* share in the end.
Fairness ==
    /\ \A i \in Honest : WF_vars(CreatePublicShares(i)) /\ WF_vars(CreateSecretShares(i))
    /\ \A s \in Shares : WF_vars(VerifyDKGShare(s))
    /\ \A j \in Honest : WF_vars(CreatePrivateKeyShare(j))

-----------------------------------------------------------------------------
(* Properties.                                                             *)

TypeOK ==
    /\ secret \in [Nodes -> [1..T -> Fr]]
    /\ replaced \subseteq Nodes
    /\ public \in [Nodes -> PublicVectors \cup {None}]
    /\ contributed \subseteq Nodes
    /\ sent \subseteq Shares
    /\ accepted \in [Nodes -> [Nodes -> NonZero \cup {None}]]
    /\ refused \in [Nodes -> SUBSET Nodes]
    /\ keyShare \in [Nodes -> NonZero \cup {None}]
    /\ publicKey \in G2 \cup {None}

\* Whatever a node accepted lies on the polynomial its sender committed to in
\* the one broadcast everybody saw, and all points of that broadcast are in
\* the right subgroup, however shares were delayed, altered or sent again.
AcceptedSharesFitBroadcast ==
    \A j \in Honest, i \in Nodes : accepted[j][i] # None =>
        /\ public[i] # None
        /\ \A k \in 1..T : ~public[i][k].outside
        /\ accepted[j][i] = PolynomialValue([k \in 1..T |-> public[i][k].k], j)

\* Any requiredSigners nodes that finished hold the shares of one secret, the
\* one behind the common public key, even if faulty nodes took part in key
\* generation; and that key has no part outside the subgroup.
KeySharesMatchPublicKey ==
    \A K \in SUBSET {j \in Nodes : keyShare[j] # None} :
        Cardinality(K) = T /\ publicKey # None => publicKey = BLSPublicKey(K)

\* What an honest node broadcast and sent comes from the one polynomial it
\* holds, unless its caller replaced it: the inductive part of the next property.
OnePolynomialPerNode ==
    \A i \in Honest \ replaced :
        /\ public[i] # None => public[i] = VerificationVector(secret[i])
        /\ \A s \in sent : s.from = i => s.value = PolynomialValue(secret[i], s.to)

\* An honest node is refused by an honest node only if its caller installed
\* another polynomial between createDKGPublicShares and createDKGSecretShares,
\* or if its polynomial is zero at the receiver's index.
HonestRefusedOnlyAfterReplacement ==
    \A i, j \in Honest : i \in refused[j] =>
        i \in replaced \/ [from |-> i, to |-> j, value |-> 0] \in sent

\* When all nodes are honest, no caller replaces a polynomial, and no share or
\* sum of shares is zero, everybody ends up with a private key share.
KeyGenerationCompletes ==
    /\ Faulty = {} /\ [](replaced = {})
    /\ \A i, j \in Nodes : PolynomialValue(secret[i], j) # 0
    /\ \A j \in Nodes : Sum([i \in Nodes |-> PolynomialValue(secret[i], j)]) # 0
    => <>(\A j \in Nodes : keyShare[j] # None)

\* docs/using-distributed-key-generation.md, step 5: "signerIndex is index of
\* participant from which secret and public shares were recieved".  A share an
\* honest node sent would then have to verify with its sender's index.
SharesVerifyWithSendersIndex ==
    \A s \in sent : s.from \in Honest \ replaced /\ public[s.from] # None =>
        Verification(s.from - 1, s.value, public[s.from])
=============================================================================
