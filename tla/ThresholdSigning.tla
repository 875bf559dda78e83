-------------------------- MODULE ThresholdSigning --------------------------
(***************************************************************************)
(* Threshold BLS signatures as the classes of bls/ produce them: signers   *)
(* hold the values of one polynomial, a signer's share of a message        *)
(* travels as the string its BLSSigShare is rebuilt from, collectors put   *)
(* the shares they receive into a BLSSigShareSet and merge it, and the     *)
(* signature is verified with the common public key.                       *)
(*                                                                         *)
(* Shares may be delayed, lost, reordered and delivered twice, anybody may *)
(* send a share that no key holder computed, and a collector checks a      *)
(* share before it adds it only where its Policy says so, because          *)
(* addSigShare itself checks nothing.                                      *)
(***************************************************************************)
EXTENDS PrimeField, FiniteSetsExt

CONSTANTS
  N, T,             \* totalSigners and requiredSigners
  MaxIndex,         \* largest signer index a received share may carry
  Msgs,             \* the message hashes that are signed
  HashOf,           \* HashtoG1: the point of each of them
  KeyPolynomials,   \* polynomials key generation may draw
  Collectors,       \* the owners of one BLSSigShareSet each
  Target,           \* the message each collector gathers shares of
  Policy,           \* what each collector checks before addSigShare
  ForgedShares,     \* points and hints of shares that Sign does not make
  MaxForged,        \* bound on the number of such shares
  NoShare           \* an index absent from the map sigShares

Index == 1..MaxIndex
Signers == 1..N

\* A hint, a y coordinate and a shift, fits one message: adding the shift to the
\* message's hash gives the x of a point with that y.  HashtoG1withHint takes
\* the least shift and the larger root, but another shift or the other root
\* leads to a point on the curve as well.  It is long if its text takes more
\* than the 2 * BLS_MAX_COMPONENT_LEN characters that BLSSignature allows: 77
\* digits on both sides of the colon are one too many.
Hints == [of : Msgs, point : NonZero, long : BOOLEAN]
SigShares == [signer : Index, point : NonZero, hint : Hints]
Signatures == [point : NonZero, hint : {h \in Hints : ~h.long}]

ASSUME SigningConstants ==
    /\ N \in Nat /\ T \in 1..N                       \* ThresholdUtils::checkSigners
    /\ MaxIndex \in Nat /\ N <= MaxIndex /\ MaxIndex < P
    /\ HashOf \in [Msgs -> NonZero]
    /\ KeyPolynomials \subseteq [1..T -> Fr]
    /\ Target \in [Collectors -> Msgs]
    /\ Policy \in [Collectors -> {"none", "plain", "helper"}]
    /\ ForgedShares \subseteq [point : NonZero, hint : Hints]
    /\ MaxForged \in Nat
    /\ NoShare \notin SigShares

\* Of the BLS_MAX_SIG_LEN characters of a share, a long hint leaves 83 for the
\* digits of a point that mostly take 154.  Nobody finds one among the few such
\* points that is a multiple by a key.
ASSUME LongHintsLeaveNoRoom ==
    \A f \in ForgedShares, pol \in KeyPolynomials, i \in Index :
        f.hint.long =>
            \A h \in {f.hint.point} \cup {HashOf[m] : m \in Msgs} :
                f.point # Times(h, PolynomialValue(pol, i))

VARIABLES
  secretKeys,       \* the BLSPrivateKeyShare of each signer
  commonKey,        \* the secret key behind the common BLSPublicKey
  sent,             \* every share ever put on the network
  sigShares,        \* BLSSigShareSet::sigShares of each collector
  wasMerged,        \* BLSSigShareSet::was_merged of each collector
  signatures        \* what the calls of merge() returned so far

keyVars == <<secretKeys, commonKey>>
setVars == <<sigShares, wasMerged, signatures>>
vars == <<secretKeys, commonKey, sent, sigShares, wasMerged, signatures>>

-----------------------------------------------------------------------------
(* Keys, signing and verification.                                         *)

\* generateSampleKeys: the values of one polynomial at 1..n, and at 0.  The
\* constructors of BLSPrivateKeyShare and BLSPublicKey refuse a zero key.
KeysOf(pol) ==
    /\ HasFullDegree(pol)
    /\ secretKeys = [i \in Signers |-> PolynomialValue(pol, i)]
    /\ commonKey = pol[1]
    /\ commonKey # 0
    /\ \A i \in Signers : secretKeys[i] # 0

\* BLSPrivateKey from the private key shares of the signers in K.
BLSPrivateKey(K) == Recover([i \in K |-> secretKeys[i]])

Signing(m, key) == Times(HashOf[m], key)

\* Bls::Verification compares the pairing of sign and G2::one, whose logarithm
\* is that of sign, with the pairing of the hash and the public key.
Verification(m, sign, publicKey) == sign = Times(HashOf[m], publicKey)

Share(i, m) ==
    [signer |-> i, point |-> Signing(m, secretKeys[i]),
     hint |-> [of |-> m, point |-> HashOf[m], long |-> FALSE]]

\* Slip: the public key share may be that of another signer.
VerifySigOfAnybody(m, s) ==
    \E i \in Signers : Verification(m, s.point, secretKeys[i])

\* BLSPublicKeyShare::VerifySig, with the public key share of the claimed signer.
VerifySig(m, s) ==
    s.signer \in Signers /\ Verification(m, s.point, secretKeys[s.signer])

\* Slip: the hint is read, but it is the hash that is multiplied.
VerifySigBesidesHelper(m, signed, key) ==
    signed.hint.of = m /\ Verification(m, signed.point, key)

\* VerifySigWithHelper of BLSPublicKeyShare and of BLSPublicKey, for a share or
\* a signature: the hint must fit the message, and the point it leads to takes
\* the place of the hash.  That it is the point HashtoG1 finds is not checked,
\* and ParseHint lets 77 digits pass on both sides.
VerifySigWithHelper(m, signed, key) ==
    signed.hint.of = m /\ signed.point = Times(signed.hint.point, key)

\* What the caller checks before addSigShare: nothing, or one of the two.
Accepts(c, s) ==
    /\ Policy[c] = "plain" => VerifySig(Target[c], s)
    /\ Policy[c] = "helper" =>
           /\ s.signer \in Signers
           /\ VerifySigWithHelper(Target[c], s, secretKeys[s.signer])

-----------------------------------------------------------------------------
(* BLSSigShareSet.                                                         *)

Indices(c) == {i \in Index : sigShares[c][i] # NoShare}

\* Slips: no comparison; one share too few; one share too many.
IsAlwaysEnough(c) == TRUE
IsEnoughOneLess(c) == Cardinality(Indices(c)) >= T - 1
IsEnoughOneMore(c) == Cardinality(Indices(c)) > T

IsEnough(c) == Cardinality(Indices(c)) >= T

\* LagrangeCoeffs and SignatureRecover use the first requiredSigners entries of
\* the list that merge() makes of the map.
Participants(c) == Lowest(T, Indices(c))

SignatureRecover(c) == Recover([i \in Participants(c) |-> sigShares[c][i].point])

\* Slip: the hint of the highest index, which may belong to no participant.
MergedHintOfHighest(c) == sigShares[c][Max(Indices(c))].hint

\* merge() takes the hint of the lowest index for the whole signature.
MergedHint(c) == sigShares[c][Min(Indices(c))].hint

\* Slip: a zero signature or one with a long hint is returned.
MergeResultWithZero(c) ==
    {[point |-> SignatureRecover(c), hint |-> MergedHint(c)]}

\* The constructor of BLSSignature throws on the zero point, and on a hint that
\* the constructor of BLSSigShare let pass as part of its string.
MergeResult(c) ==
    IF SignatureRecover(c) = 0 \/ MergedHint(c).long THEN {}
    ELSE {[point |-> SignatureRecover(c), hint |-> MergedHint(c)]}

-----------------------------------------------------------------------------
Init ==
    /\ \E pol \in KeyPolynomials : KeysOf(pol)
    /\ sent = {}
    /\ sigShares = [c \in Collectors |-> [i \in Index |-> NoShare]]
    /\ wasMerged = [c \in Collectors |-> FALSE]
    /\ signatures = [c \in Collectors |-> {}]

\* Signer i signs the hash of m (Bls::Signing) and sends its share.
Sign(i, m) ==
    /\ secretKeys[i] # 0
    /\ sent' = sent \cup {Share(i, m)}
    /\ UNCHANGED <<keyVars, setVars>>

\* What arrives besides: shares that anybody puts under any index.
Forgeries ==
    {[signer |-> i, point |-> f.point, hint |-> f.hint] : i \in Index, f \in ForgedShares}

Forged == {s \in sent : s.signer \notin Signers \/ s # Share(s.signer, s.hint.of)}

\* Somebody sends another well-formed share under any index, a wrong one or one
\* of a signer that takes the other root: the constructor of BLSSigShare
\* refuses index 0 and points off the curve, and nothing else.
Forge(s) ==
    /\ Cardinality(Forged) < MaxForged
    /\ sent' = sent \cup {s}
    /\ UNCHANGED <<keyVars, setVars>>

\* Slip: was_merged is not looked at.
AddSigShareAfterMerge(c, s) ==
    /\ s \in sent
    /\ Accepts(c, s)
    /\ sigShares[c][s.signer] = NoShare
    /\ sigShares' = [sigShares EXCEPT ![c][s.signer] = s]
    /\ UNCHANGED <<keyVars, sent, wasMerged, signatures>>

\* A share arrives, perhaps again; addSigShare throws once the set was merged
\* and for an index it has.
AddSigShare(c, s) ==
    /\ s \in sent
    /\ Accepts(c, s)
    /\ ~wasMerged[c]
    /\ sigShares[c][s.signer] = NoShare
    /\ sigShares' = [sigShares EXCEPT ![c][s.signer] = s]
    /\ UNCHANGED <<keyVars, sent, wasMerged, signatures>>

\* merge() throws unless isEnough(), sets was_merged, and only then recovers
\* the signature, so that it stays set when the result is refused.
Merge(c) ==
    /\ IsEnough(c)
    /\ wasMerged' = [wasMerged EXCEPT ![c] = TRUE]
    /\ signatures' = [signatures EXCEPT ![c] = @ \cup MergeResult(c)]
    /\ UNCHANGED <<keyVars, sent, sigShares>>

Next ==
    \/ \E i \in Signers, m \in Msgs : Sign(i, m)
    \/ \E s \in Forgeries : Forge(s)
    \/ \E c \in Collectors : \E s \in sent : AddSigShare(c, s)
    \/ \E c \in Collectors : Merge(c)

Spec == Init /\ [][Next]_vars

\* The environment a caller of the library counts on: each of the signers in
\* Honest signs every message, the network delivers an honest share in the
\* end, and a collector that has enough shares merges them.  Every one of these
\* steps can be taken once only, so that fairness of each disjunction is
\* fairness of each step.
Fairness(Honest) ==
    /\ WF_vars(\E i \in Honest, m \in Msgs : Sign(i, m))
    /\ WF_vars(\E c \in Collectors, i \in Honest : AddSigShare(c, Share(i, Target[c])))
    /\ WF_vars(\E c \in Collectors : ~wasMerged[c] /\ Merge(c))

-----------------------------------------------------------------------------
(* Properties.                                                             *)

TypeOK ==
    /\ secretKeys \in [Signers -> NonZero]
    /\ commonKey \in NonZero
    /\ sent \subseteq SigShares
    /\ sigShares \in [Collectors -> [Index -> SigShares \cup {NoShare}]]
    /\ wasMerged \in [Collectors -> BOOLEAN]
    /\ signatures \in [Collectors -> SUBSET Signatures]

\* The inductive strengthening of the invariants below.  What a collector
\* stored lies at its signer's index, was on the network and passed its checks.
StoredSharesAccepted ==
    \A c \in Collectors, i \in Index : sigShares[c][i] # NoShare =>
        /\ sigShares[c][i].signer = i
        /\ sigShares[c][i] \in sent
        /\ Accepts(c, sigShares[c][i])

\* was_merged freezes the map, so that merge() can only return what the map
\* gives now.
MergedMapIsFrozen ==
    \A c \in Collectors :
        /\ wasMerged[c] => IsEnough(c) /\ signatures[c] = MergeResult(c)
        /\ ~wasMerged[c] => signatures[c] = {}

KeysOnOnePolynomial == \E pol \in KeyPolynomials : KeysOf(pol)

\* Only a share that Sign did not make has a long hint.
LongHintsAreForged ==
    \A s \in sent : s.hint.long =>
        \E f \in ForgedShares : s.point = f.point /\ s.hint = f.hint

IInv ==
    /\ TypeOK /\ KeysOnOnePolynomial /\ LongHintsAreForged
    /\ StoredSharesAccepted /\ MergedMapIsFrozen

Verifying == {c \in Collectors : Policy[c] = "plain"}
Helped == {c \in Collectors : Policy[c] = "helper"}

TheSignature(m) == Signing(m, commonKey)

\* The common key can be put together from the shares of any requiredSigners
\* signers; BLSPrivateKey and BLSPublicKey have constructors that do.
AnySharesGiveTheKey ==
    \A K \in SUBSET Signers : Cardinality(K) = T => BLSPrivateKey(K) = commonKey

\* Who multiplied a point of message m, the hash or that of a hint, by its key.
SignedBy(m) ==
    {i \in Signers : \E s \in sent : s.signer = i /\
        \/ s.point = Signing(m, secretKeys[i])
        \/ s.hint.of = m /\ s.point = Times(s.hint.point, secretKeys[i])}

\* Whatever a collector checks and whenever it calls merge() again, all the
\* signatures one BLSSigShareSet returns are the same: was_merged freezes the
\* map that the first merge() read.
OneSignaturePerSet ==
    \A c \in Collectors : Cardinality(signatures[c]) <= 1

\* Collectors that run VerifySig on every share get the signature of the
\* common key, whichever shares reached them and in whichever order, so that
\* no two of them disagree and the result passes BLSPublicKey::VerifySig.
VerifiedSharesGiveTheSignature ==
    \A c \in Verifying : \A sig \in signatures[c] :
        /\ sig.point = TheSignature(Target[c])
        /\ Verification(Target[c], sig.point, commonKey)

\* merge() seals the set before it knows that it has a signature to return; a
\* collector that verified its shares is never left with a sealed set and no
\* signature.
SealedSetHasSignature ==
    \A c \in Verifying : wasMerged[c] => signatures[c] # {}

\* A share with the point the key polynomial gives at its index.
OnPolynomial(m, s) ==
    \A pol \in KeyPolynomials :
        KeysOf(pol) => s.point = Signing(m, PolynomialValue(pol, s.signer))

\* Even without any check, a set whose first requiredSigners shares are right
\* yields the signature of the common key, and is not left sealed without one.
RightSharesGiveTheSignature ==
    \A c \in Collectors :
        /\ wasMerged[c]
        /\ \A i \in Participants(c) : OnPolynomial(Target[c], sigShares[c][i])
        => /\ signatures[c] # {}
           /\ \A sig \in signatures[c] : sig.point = TheSignature(Target[c])

\* A collector that does not check shares and merged exactly one wrong one
\* gets a signature that the common key refuses, or none: one bad share never
\* goes unnoticed, whichever position of the interpolation it takes.
OneBadShareIsNoticed ==
    \A c \in Collectors :
        /\ wasMerged[c]
        /\ \E b \in Participants(c) : \A i \in Participants(c) :
               OnPolynomial(Target[c], sigShares[c][i]) <=> i # b
        => \A sig \in signatures[c] : ~Verification(Target[c], sig.point, commonKey)

\* A verified signature took the shares of requiredSigners different key
\* holders: no collector gets one from fewer, nor from several copies of one,
\* whichever of the two verifications it uses.
ThresholdOfSigners ==
    \A c \in Verifying \cup Helped :
        signatures[c] # {} =>
            Cardinality(SignedBy(Target[c])) >= T

\* merge() hands on the hint of the lowest index for all shares.  If every share
\* passed VerifySigWithHelper and those that are interpolated have the same
\* hint, there is a signature and BLSPublicKey::VerifySigWithHelper accepts it.
SameHintsGiveASignature ==
    \A c \in Helped :
        /\ wasMerged[c]
        /\ \A i, j \in Participants(c) : sigShares[c][i].hint = sigShares[c][j].hint
        => /\ signatures[c] # {}
           /\ \A sig \in signatures[c] : VerifySigWithHelper(Target[c], sig, commonKey)

\* Without the share of signer b the others put together the zero key.
OthersCancel(c, b) ==
    Recover([i \in Participants(c) |-> IF i = b THEN 0 ELSE secretKeys[i]]) = 0

\* Shares that passed VerifySigWithHelper with different hints do not fit
\* together.  If any one of those interpolated, the lowest as well, differs from
\* all others, then BLSPublicKey::VerifySigWithHelper refuses what merge() made
\* of them.  (The hint of the lowest is handed on: that of all is then right if
\* the key comes from the lowest alone, because what the others add cancels.)
OneOddHintIsNoticed ==
    \A c \in Helped : \A b \in Participants(c) :
        /\ wasMerged[c] /\ T > 1
        /\ \A i, j \in Participants(c) \ {b} : sigShares[c][i].hint = sigShares[c][j].hint
        /\ \A i \in Participants(c) \ {b} : sigShares[c][i].hint # sigShares[c][b].hint
        /\ b = Min(Participants(c)) => ~OthersCancel(c, b)
        => \A sig \in signatures[c] : ~VerifySigWithHelper(Target[c], sig, commonKey)

\* With requiredSigners honest signers, a collector that runs VerifySig ends up
\* with a signature: no forged share, late or repeated delivery blocks it.  One
\* that runs VerifySigWithHelper gets as far as merge().
VerifyingCollectorSigns ==
    <>(/\ \A c \in Verifying : signatures[c] # {}
       /\ \A c \in Helped : wasMerged[c])

-----------------------------------------------------------------------------
(* The collectors that run VerifySig implement the promise of SignatureService.   *)

Service == INSTANCE SignatureService WITH
    Collectors <- Verifying,
    Keys <- NonZero,
    SignatureOf <- Signing,
    NoSignature <- 0,
    commonKey <- commonKey,
    signedBy <- [m \in Msgs |-> SignedBy(m)],
    obtained <- [c \in Verifying |->
                    IF signatures[c] = {} THEN 0
                    ELSE (CHOOSE sig \in signatures[c] : TRUE).point]

\* Every step of signers, forgers and verifying collectors is a step the
\* promise allows: the code returns the one signature, and only after
\* requiredSigners signers signed.
ImplementsSignatureService == Service!Spec
=============================================================================
