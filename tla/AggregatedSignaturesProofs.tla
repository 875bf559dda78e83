---------------------- MODULE AggregatedSignaturesProofs ----------------------
(***************************************************************************)
(* Proofs about AggregatedSignatures: the invariant IInv is inductive, and *)
(* the safety properties of the run follow from it and from what sums of   *)
(* vectors do.                                                             *)
(***************************************************************************)
EXTENDS AggregatedSignatures, PrimeFieldProofs, SequenceTheorems

-----------------------------------------------------------------------------
(* Keys.                                                                   *)

LEMMA KeyFacts ==
  /\ Zero \in Vectors
  /\ \A u \in Owners : KeyOf(u) \in Vectors /\ KeyOf(u)[u] = 1
  /\ \A u, v \in Owners : KeyOf(u)[v] # 0 => u = v
  /\ MadeUp \subseteq Vectors
  /\ \A u \in Honest : u \in Owners
PROOF
<1>1. 0 \in Fr /\ 1 \in Fr /\ \A u \in Honest : u \in Owners
  BY FrFacts DEF Owners
<1>2. Zero \in Vectors /\ \A u \in Owners : KeyOf(u) \in Vectors
  BY <1>1 DEF Vectors, Zero, KeyOf
<1>3. \A u, v \in Owners : KeyOf(u)[u] = 1 /\ (KeyOf(u)[v] # 0 => u = v)
  BY DEF KeyOf
<1> QED
  BY <1>1, <1>2, <1>3, AggregationConstants

\* Who signs no other key's digest has one or none of its secret in a
\* registered key: nobody else's proof of possession is made with its secret.
LEMMA HonestPart ==
  ASSUME IInv, NEW key \in registered, NEW u \in Honest, SignsNoOtherKey(u)
  PROVE  key[u] \in {0, 1}
PROOF
<1>1. key \in Vectors /\ u \in Owners
  BY KeyFacts DEF IInv, TypeOK
<1>2. CASE key = KeyOf(u)
  BY <1>1, <1>2, KeyFacts
<1>3. CASE key # KeyOf(u) /\ key[u] # 0
  <2>1. <<u, Digest[key]>> \notin signed
    BY <1>3 DEF SignsNoOtherKey, HashPublicKeyToG1
  <2>2. [msg |-> Digest[key], of |-> KeyOf(u)] \in proofs
    BY <1>3, <2>1 DEF IInv, KeysAreProved, Published, HashPublicKeyToG1
  <2>3. PICK v \in Honest : [msg |-> Digest[key], of |-> KeyOf(u)] = PopProve(v)
    BY <2>2 DEF IInv, KeysAreProved
  <2>4. Digest[key] = Digest[KeyOf(v)] /\ KeyOf(u) = KeyOf(v)
    BY <2>3 DEF PopProve, HashPublicKeyToG1
  <2>5. key = KeyOf(u)
    BY <1>1, <2>4, KeyFacts, AggregationConstants
  <2> QED
    BY <1>3, <2>5
<1> QED
  BY <1>2, <1>3

-----------------------------------------------------------------------------
(* The inductive invariant.                                                *)

Entries == [key : registered, msg : Msgs, point : SignaturePoints \cup {OffCurve}]

LEMMA InitInv == Init => IInv
PROOF
<1> SUFFICES ASSUME Init PROVE IInv
  OBVIOUS
<1>1. /\ registered = {} /\ proofs = {} /\ signed = {} /\ entries = <<>>
      /\ MaxKeys \in Nat /\ MaxEntries \in Nat
  BY AggregationConstants DEF Init
<1>2. Cardinality(registered) = 0 /\ IsFiniteSet(registered)
  BY <1>1, FS_EmptySet
<1>3. TypeOK
  BY <1>1, <1>2 DEF TypeOK
<1>4. KeysAreProved
  BY <1>1, <1>2 DEF KeysAreProved
<1>5. EntriesAreKnown
  BY <1>1 DEF EntriesAreKnown
<1> QED
  BY <1>3, <1>4, <1>5 DEF IInv

\* What an owner has published stays so.
LEMMA KnownStays ==
  ASSUME IInv, signed \subseteq signed', proofs \subseteq proofs', entries' = entries
  PROVE  /\ EntriesAreKnown'
         /\ \A u, bytes : Published(u, bytes) => Published(u, bytes)'
PROOF
<1>1. \A u, bytes : Published(u, bytes) => Published(u, bytes)'
  BY DEF Published
<1>2. \A point : Known(point) => Known(point)'
  BY <1>1 DEF Known
<1>3. EntriesAreKnown'
  BY <1>2 DEF IInv, EntriesAreKnown
<1> QED
  BY <1>1, <1>3

\* One more registered key, whose parts have been multiplied with its digest.
LEMMA Register ==
  ASSUME IInv, Cardinality(registered) < MaxKeys, NEW key \in Vectors,
         registered' = registered \cup {key},
         proofs \subseteq proofs', proofs' \subseteq {PopProve(u) : u \in Honest},
         \A u \in Honest : key[u] # 0 => Published(u, HashPublicKeyToG1(key))',
         signed' = signed, entries' = entries
  PROVE  IInv'
PROOF
<1>1. /\ IsFiniteSet(registered') /\ Cardinality(registered') \in Nat
      /\ Cardinality(registered') <= Cardinality(registered) + 1
  <2>1. IsFiniteSet(registered)
    BY DEF IInv, KeysAreProved
  <2>2. Cardinality(registered) \in Nat
    BY <2>1, FS_CardinalityType
  <2>3. /\ IsFiniteSet(registered \cup {key})
        /\ Cardinality(registered \cup {key}) =
               IF key \in registered THEN Cardinality(registered) ELSE Cardinality(registered) + 1
    BY <2>1, FS_AddElement
  <2> QED
    BY <2>2, <2>3
<1>2. Cardinality(registered') <= MaxKeys
  BY <1>1, AggregationConstants, FS_CardinalityType DEF IInv, KeysAreProved
<1>3. proofs' \subseteq Proofs /\ \A p \in proofs' : p.msg = Digest[p.of]
  <2>1. \A u \in Honest : PopProve(u) \in Proofs /\ PopProve(u).msg = Digest[PopProve(u).of]
    BY KeyFacts DEF PopProve, HashPublicKeyToG1, Proofs, Digests
  <2> QED
    BY <2>1
<1>4. entries' \in Seq(Entries')
  <2>1. entries \in Seq(Entries) /\ Entries \subseteq Entries'
    BY DEF IInv, TypeOK, Entries
  <2>2. entries \in Seq(Entries')
    BY <2>1, SeqMonotonic
  <2> QED
    BY <2>2
<1>5. TypeOK'
  BY <1>2, <1>3, <1>4 DEF IInv, TypeOK, Entries
<1>6. KeysAreProved'
  <2>1. ASSUME NEW k \in registered', NEW u \in Honest, k[u] # 0
        PROVE  Published(u, HashPublicKeyToG1(k))'
    <3>1. CASE k \in registered
      <4>1. Published(u, HashPublicKeyToG1(k))
        BY <2>1, <3>1 DEF IInv, KeysAreProved
      <4> QED
        BY <4>1 DEF Published
    <3>2. CASE k = key
      BY <2>1, <3>2
    <3> QED
      BY <3>1, <3>2
  <2> QED
    BY <1>1, <2>1 DEF KeysAreProved
<1>7. EntriesAreKnown'
  BY KnownStays
<1> QED
  BY <1>5, <1>6, <1>7 DEF IInv

LEMMA KeyGenerationStep ==
  ASSUME IInv, NEW u \in Honest, KeyGeneration(u)
  PROVE  IInv'
PROOF
<1>1. PopVerify(KeyOf(u), PopProve(u))
  BY DEF PopVerify, PopProve
<1>2. /\ Cardinality(registered) < MaxKeys
      /\ registered' = registered \cup {KeyOf(u)}
      /\ proofs' = proofs \cup {PopProve(u)}
      /\ signed' = signed /\ entries' = entries
  BY <1>1 DEF KeyGeneration
<1>3. proofs' \subseteq {PopProve(v) : v \in Honest}
  BY <1>2 DEF IInv, KeysAreProved
<1>4. ASSUME NEW v \in Honest, KeyOf(u)[v] # 0
      PROVE  Published(v, HashPublicKeyToG1(KeyOf(u)))'
  <2>1. v = u
    BY <1>4, KeyFacts
  <2> QED
    BY <1>2, <2>1 DEF Published, PopProve, HashPublicKeyToG1
<1>5. KeyOf(u) \in Vectors
  BY KeyFacts
<1> QED
  BY <1>2, <1>3, <1>4, <1>5, Register

\* A proof for a key that was made up has to be had from what was published.
LEMMA JoinStep ==
  ASSUME IInv, NEW key \in MadeUp, Join(key)
  PROVE  IInv'
PROOF
<1>1. /\ Cardinality(registered) < MaxKeys
      /\ registered' = registered \cup {key}
      /\ proofs' = proofs /\ signed' = signed /\ entries' = entries
  BY DEF Join
<1>2. PICK proof \in [msg : {HashPublicKeyToG1(key)}, of : MadeUp] :
          Known(proof) /\ PopVerify(key, proof)
  BY DEF Join
<1>3. proof \in Proofs /\ key \in Vectors
  BY KeyFacts DEF HashPublicKeyToG1, Proofs, Digests
<1>4. proof # OffCurve
  BY <1>3, AggregationConstants
<1>5. \A u \in Honest : key[u] # 0 => Published(u, HashPublicKeyToG1(key))
  BY <1>2, <1>4 DEF Known, PopVerify
<1>6. \A u \in Honest : key[u] # 0 => Published(u, HashPublicKeyToG1(key))'
  BY <1>1, <1>5 DEF Published, HashPublicKeyToG1
<1>7. proofs \subseteq proofs' /\ proofs' \subseteq {PopProve(u) : u \in Honest}
  BY <1>1 DEF IInv, KeysAreProved
<1> QED
  BY <1>1, <1>3, <1>6, <1>7, Register

LEMMA SignStep ==
  ASSUME IInv, NEW u \in Honest, NEW m \in Msgs, Sign(u, m)
  PROVE  IInv'
PROOF
<1>1. /\ signed' = signed \cup {<<u, m>>}
      /\ registered' = registered /\ proofs' = proofs /\ entries' = entries
  BY DEF Sign
<1>2. TypeOK'
  BY <1>1 DEF IInv, TypeOK
<1>3. KeysAreProved'
  BY <1>1 DEF IInv, KeysAreProved, Published, HashPublicKeyToG1
<1>4. EntriesAreKnown'
  BY <1>1, KnownStays
<1> QED
  BY <1>2, <1>3, <1>4 DEF IInv

LEMMA CollectStep ==
  ASSUME IInv, NEW key \in registered, NEW m \in Msgs,
         NEW point \in [msg : Msgs, of : MadeUp] \cup {OffCurve}, Collect(key, m, point)
  PROVE  IInv'
PROOF
<1> DEFINE e == [key |-> key, msg |-> m, point |-> point]
<1>1. /\ Len(entries) < MaxEntries /\ Known(point) /\ entries' = Append(entries, e)
      /\ registered' = registered /\ proofs' = proofs /\ signed' = signed
  BY DEF Collect
<1>2. e \in Entries /\ e.point = point
  BY KeyFacts DEF Entries, SignaturePoints
<1>3. entries \in Seq(Entries)
  BY DEF IInv, TypeOK, Entries
<1> HIDE DEF e
<1>4. /\ entries' \in Seq(Entries) /\ Len(entries') = Len(entries) + 1
      /\ \A i \in 1..Len(entries) : entries'[i] = entries[i]
      /\ entries'[Len(entries) + 1] = e
  BY <1>1, <1>2, <1>3, AppendProperties
<1>5. TypeOK' /\ KeysAreProved'
  BY <1>1, <1>4 DEF IInv, TypeOK, KeysAreProved, Published, HashPublicKeyToG1, Entries
<1>6. EntriesAreKnown'
  <2>1. Len(entries) \in Nat /\ DOMAIN entries = 1..Len(entries) /\ DOMAIN entries' = 1..(Len(entries) + 1)
    BY <1>3, <1>4, LenProperties
  <2>2. Len(entries') <= MaxEntries
    BY <1>1, <1>4, <2>1, AggregationConstants
  <2>3. ASSUME NEW i \in DOMAIN entries' PROVE Known(entries'[i].point)
    <3>1. CASE i = Len(entries) + 1
      BY <1>1, <1>2, <1>4, <3>1
    <3>2. CASE i # Len(entries) + 1
      <4>1. i \in DOMAIN entries /\ entries'[i] = entries[i]
        BY <1>4, <2>1, <3>2
      <4> QED
        BY <4>1 DEF IInv, EntriesAreKnown
    <3> QED
      BY <3>1, <3>2
  <2> QED
    BY <1>1, <2>2, <2>3 DEF EntriesAreKnown, Known, Published
<1> QED
  BY <1>5, <1>6 DEF IInv

LEMMA DiscardStep == IInv /\ Discard => IInv'
PROOF
<1> SUFFICES ASSUME IInv, Discard PROVE IInv'
  OBVIOUS
<1>1. entries' = <<>> /\ registered' = registered /\ proofs' = proofs /\ signed' = signed
  BY DEF Discard
<1>2. TypeOK' /\ KeysAreProved'
  BY <1>1 DEF IInv, TypeOK, KeysAreProved, Published, HashPublicKeyToG1
<1>3. EntriesAreKnown'
  BY <1>1, AggregationConstants DEF EntriesAreKnown
<1> QED
  BY <1>2, <1>3 DEF IInv

\* The invariant that all safety properties below follow from.
THEOREM Invariant == Spec => []IInv
PROOF
<1>1. IInv /\ [Next]_vars => IInv'
  <2> SUFFICES ASSUME IInv, [Next]_vars PROVE IInv'
    OBVIOUS
  <2>1. CASE UNCHANGED vars
    BY <2>1 DEF IInv, TypeOK, KeysAreProved, EntriesAreKnown, Known, Published,
                  HashPublicKeyToG1, vars
  <2>2. CASE Next
    BY <2>2, KeyGenerationStep, JoinStep, SignStep, CollectStep, DiscardStep DEF Next
  <2> QED
    BY <2>1, <2>2
<1> QED
  BY <1>1, InitInv, PTL DEF Spec

\* The registered keys stay below their bound, and the published proofs are
\* those of PopProve: each the digest of the key it is the proof of.
THEOREM TypeCorrect == Spec => []TypeOK
PROOF
<1>1. IInv => TypeOK
  BY DEF IInv
<1> QED
  BY <1>1, Invariant, PTL

-----------------------------------------------------------------------------
(* Sums of vectors.                                                        *)

LEMMA VectorSumAt ==
  ASSUME NEW S, IsFiniteSet(S), NEW v \in [S -> Vectors]
  PROVE  /\ VectorSum(v) \in Vectors
         /\ \A o \in Owners : /\ [i \in S |-> v[i][o]] \in [S -> Fr]
                              /\ VectorSum(v)[o] = Sum([i \in S |-> v[i][o]])
PROOF
<1>1. DOMAIN v = S
  OBVIOUS
<1>2. ASSUME NEW o \in Owners
      PROVE  [i \in S |-> v[i][o]] \in [S -> Fr] /\ Sum([i \in S |-> v[i][o]]) \in Fr
  <2> DEFINE f == [i \in S |-> v[i][o]]
  <2>1. f \in [S -> Fr]
    BY DEF Vectors
  <2> HIDE DEF f
  <2>2. Sum(f) \in Fr
    BY <2>1, SumInFr
  <2> QED
    BY <2>1, <2>2 DEF f
<1>3. VectorSum(v) = [o \in Owners |-> Sum([i \in S |-> v[i][o]])]
  BY <1>1, Zenon DEF VectorSum
<1> QED
  BY <1>2, <1>3 DEF Vectors

\* If all but one of the summands agree, the sums do only if that one does.
LEMMA OneDiffers ==
  ASSUME NEW S, IsFiniteSet(S), NEW v \in [S -> Vectors], NEW w \in [S -> Vectors],
         NEW b \in S, \A i \in S \ {b} : v[i] = w[i], VectorSum(v) = VectorSum(w)
  PROVE  v[b] = w[b]
PROOF
<1>1. ASSUME NEW o \in Owners PROVE v[b][o] = w[b][o]
  <2> DEFINE f == [i \in S |-> v[i][o]]
             g == [i \in S |-> w[i][o]]
             rest == [i \in S \ {b} |-> f[i]]
  <2>1. f \in [S -> Fr] /\ g \in [S -> Fr] /\ Sum(f) = Sum(g)
    BY VectorSumAt
  <2>2. f[b] = v[b][o] /\ g[b] = w[b][o] /\ [i \in S \ {b} |-> g[i]] = rest
    OBVIOUS
  <2>3. f[b] \in Fr /\ g[b] \in Fr
    BY <2>1
  <2> HIDE DEF f, g
  <2>4. Sum(rest) \in Fr /\ Sum(f) = Plus(f[b], Sum(rest))
    BY <2>1, SumRemove
  <2>5. Sum(g) = Plus(g[b], Sum(rest))
    BY <2>1, <2>2, SumRemove
  <2> HIDE DEF rest
  <2>6. f[b] = g[b]
    BY <2>1, <2>3, <2>4, <2>5, PlusCancel
  <2> QED
    BY <2>2, <2>6
<1> QED
  BY <1>1 DEF Vectors

\* Fewer than P ones, and at least one, do not add up to zero.
LEMMA ZeroOnes ==
  ASSUME NEW S, IsFiniteSet(S), Cardinality(S) < P, NEW f \in [S -> {0, 1}],
         NEW b \in S, f[b] = 1
  PROVE  Sum(f) # 0
PROOF
<1> DEFINE Good == {K \in SUBSET S : /\ SumOn(f, K) <= Cardinality(K)
                                     /\ (\E k \in K : f[k] = 1) => SumOn(f, K) # 0}
<1>1. f \in [S -> Fr]
  BY FrFacts
<1>2. \A K \in SUBSET S : /\ IsFiniteSet(K) /\ Cardinality(K) \in Nat
                          /\ Cardinality(K) <= Cardinality(S)
  BY FS_Subset, FS_CardinalityType
<1>3. Cardinality(S) \in Nat /\ P \in Nat
  BY FS_CardinalityType, PIsPrime
<1>4. ASSUME NEW K \in SUBSET S, \A r \in SUBSET K : r # K => r \in Good
      PROVE  K \in Good
  <2>1. CASE K = {}
    <3>1. SumOn(f, K) = 0 /\ Cardinality(K) = 0
      BY <1>1, <2>1, SumParts, FS_EmptySet
    <3> QED
      BY <2>1, <3>1
  <2>2. CASE K # {}
    <3>1. PICK m \in K : (\E k \in K : f[k] = 1) => f[m] = 1
      BY <2>2
    <3>2. K \ {m} \in Good
      BY <1>4
    <3>3. Cardinality(K \ {m}) = Cardinality(K) - 1
      BY <1>2, FS_RemoveElement
    <3>4. SumOn(f, K \ {m}) \in Fr /\ SumOn(f, K) = Plus(f[m], SumOn(f, K \ {m}))
      BY <1>1, SumParts
    <3>5. SumOn(f, K \ {m}) <= Cardinality(K) - 1 /\ f[m] \in {0, 1}
      BY <3>2, <3>3
    <3>6. /\ SumOn(f, K) = f[m] + SumOn(f, K \ {m})
          /\ SumOn(f, K) <= Cardinality(K)
          /\ f[m] = 1 => SumOn(f, K) # 0
      <4> DEFINE s == SumOn(f, K \ {m})
      <4>1. s \in Nat /\ s <= Cardinality(K) - 1
        BY <3>4, <3>5, FrFacts
      <4>2. Cardinality(K) \in Nat /\ Cardinality(K) <= Cardinality(S)
        BY <1>2
      <4> HIDE DEF s
      <4>3. s \in Nat /\ f[m] + s \in Nat /\ f[m] + s < P /\ f[m] + s <= Cardinality(K)
        BY <1>3, <3>5, <4>1, <4>2
      <4>4. f[m] + s \in Fr
        BY <1>3, <4>3 DEF Fr
      <4>5. (f[m] + s) % P = f[m] + s
        BY <1>3, <4>3
      <4>6. SumOn(f, K) = f[m] + s
        BY <3>4, <4>5 DEF Plus, s
      <4> QED
        BY <4>3, <4>6 DEF s
    <3> QED
      BY <3>1, <3>6
  <2> QED
    BY <2>1, <2>2
<1> HIDE DEF Good
<1>5. S \in Good
  <2>1. \A K \in SUBSET S : K \in Good
    BY <1>4, StrongSetInduction
  <2> QED
    BY <2>1
<1>6. Sum(f) = SumOn(f, S)
  BY <1>1, SumParts
<1> QED
  BY <1>5, <1>6 DEF Good

-----------------------------------------------------------------------------
(* The two sides of a verification, message by message.                    *)

\* What the entries add to the aggregate on message x, and what they should.
Part(x) == [i \in DOMAIN entries |->
               IF entries[i].point.msg = x THEN entries[i].point.of ELSE Zero]
Expected(x) == [i \in DOMAIN entries |-> IF entries[i].msg = x THEN entries[i].key ELSE Zero]

Balanced == \A x \in Msgs : VectorSum(Part(x)) = VectorSum(Expected(x))

LEMMA EntryFacts ==
  ASSUME IInv
  PROVE  /\ IsFiniteSet(DOMAIN entries) /\ Cardinality(DOMAIN entries) < P
         /\ \A i \in DOMAIN entries :
                /\ entries[i].key \in registered /\ entries[i].key \in Vectors
                /\ entries[i].msg \in Msgs
                /\ entries[i].point # OffCurve =>
                       /\ entries[i].point.msg \in Msgs
                       /\ entries[i].point.of \in Vectors
         /\ entries # <<>> => \E i \in DOMAIN entries : TRUE
PROOF
<1>1. entries \in Seq(Entries) /\ registered \subseteq Vectors
  BY KeyFacts DEF IInv, TypeOK, Entries
<1>2. Len(entries) \in Nat /\ DOMAIN entries = 1..Len(entries)
  BY <1>1, LenProperties
<1>3. \A i \in DOMAIN entries : entries[i] \in Entries
  BY <1>1, <1>2, ElementOfSeq
<1>4. IsFiniteSet(DOMAIN entries) /\ Cardinality(DOMAIN entries) < P
  <2>1. Len(entries) <= MaxEntries
    BY DEF IInv, EntriesAreKnown
  <2>2. IsFiniteSet(1..Len(entries)) /\ Cardinality(1..Len(entries)) = Len(entries)
    <3>1. PICK n \in Nat : n = Len(entries)
      BY <1>2
    <3>2. /\ IsFiniteSet(1..n)
          /\ Cardinality(1..n) = IF 1 > n THEN 0 ELSE n - 1 + 1
      BY FS_Interval
    <3>3. Cardinality(1..n) = n
      BY <3>2
    <3> QED
      BY <3>1, <3>2, <3>3
  <2> QED
    BY <1>2, <2>1, <2>2, AggregationConstants, PIsPrime
<1>5. entries # <<>> => \E i \in DOMAIN entries : TRUE
  <2> SUFFICES ASSUME entries # <<>> PROVE \E i \in DOMAIN entries : TRUE
    OBVIOUS
  <2>1. Len(entries) # 0
    BY <1>1, EmptySeq
  <2>2. 1 \in DOMAIN entries
    BY <1>2, <2>1
  <2> QED
    BY <2>2
<1>6. ASSUME NEW i \in DOMAIN entries
      PROVE  /\ entries[i].key \in registered /\ entries[i].key \in Vectors
             /\ entries[i].msg \in Msgs
             /\ entries[i].point # OffCurve =>
                    entries[i].point.msg \in Msgs /\ entries[i].point.of \in Vectors
  BY <1>1, <1>3 DEF Entries, SignaturePoints
<1> QED
  BY <1>4, <1>5, <1>6

LEMMA SideFacts ==
  ASSUME IInv, AllWellFormed(Points), NEW x \in Msgs
  PROVE  Part(x) \in [DOMAIN entries -> Vectors] /\ Expected(x) \in [DOMAIN entries -> Vectors]
PROOF
<1>1. \A i \in DOMAIN entries : entries[i].point # OffCurve
  BY DEF AllWellFormed, Points
<1> QED
  BY <1>1, EntryFacts, KeyFacts DEF Part, Expected

LEMMA PointsAdded ==
  Aggregate(Points) = [x \in Msgs |-> VectorSum(Part(x))]
PROOF
<1>1. DOMAIN Points = DOMAIN entries
  BY DEF Points
<1>2. \A i \in DOMAIN entries : Points[i] = entries[i].point
  BY DEF Points
<1>3. ASSUME NEW x
      PROVE  [i \in DOMAIN Points |-> IF Points[i].msg = x THEN Points[i].of ELSE Zero] = Part(x)
  BY <1>1, <1>2 DEF Part
<1> QED
  BY <1>3, Zenon DEF Aggregate

\* A list of signatures of one message.
LEMMA MessageBalance ==
  ASSUME IInv, AllWellFormed(Points), NEW m \in Msgs, OfMessage(m)
  PROVE  FastAggregateVerify(Keys, m, Aggregate(Points)) <=> Balanced
PROOF
<1>1. Expected(m) = Keys
  BY DEF OfMessage, Expected, Keys
<1>2. ASSUME NEW x \in Msgs, x # m
      PROVE  VectorSum(Expected(x)) = Zero
  <2>1. \A i \in DOMAIN entries : Expected(x)[i] = Zero
    BY <1>2 DEF OfMessage, Expected
  <2>2. Expected(x) \in [DOMAIN entries -> Vectors] /\ IsFiniteSet(DOMAIN entries)
    BY SideFacts, EntryFacts
  <2>3. VectorSum(Expected(x)) \in Vectors
    BY <2>2, VectorSumAt
  <2>4. ASSUME NEW o \in Owners PROVE VectorSum(Expected(x))[o] = 0
    <3> DEFINE f == [i \in DOMAIN entries |-> Expected(x)[i][o]]
    <3>1. f \in [DOMAIN entries -> Fr] /\ VectorSum(Expected(x))[o] = Sum(f)
      BY <2>2, VectorSumAt
    <3>2. \A i \in DOMAIN entries : f[i] = 0
      BY <2>1 DEF Zero
    <3> HIDE DEF f
    <3>3. Sum(f) = 0
      BY <2>2, <3>1, <3>2, SumZeros
    <3> QED
      BY <3>1, <3>3
  <2> QED
    BY <2>3, <2>4 DEF Vectors, Zero
<1> DEFINE left == [x \in Msgs |-> VectorSum(Part(x))]
           right == [x \in Msgs |-> IF x = m THEN VectorSum(Keys) ELSE Zero]
<1>3. FastAggregateVerify(Keys, m, Aggregate(Points)) <=> left = right
  BY PointsAdded, Zenon DEF FastAggregateVerify, CoreVerify
<1>4. \A x \in Msgs : right[x] = VectorSum(Expected(x))
  BY <1>1, <1>2
<1>5. left = right <=> \A x \in Msgs : left[x] = right[x]
  OBVIOUS
<1>6. \A x \in Msgs : left[x] = VectorSum(Part(x))
  OBVIOUS
<1> HIDE DEF left, right
<1> QED
  BY <1>3, <1>4, <1>5, <1>6 DEF Balanced

\* A list of signatures under one key.
LEMMA KeyBalance ==
  ASSUME IInv, AllWellFormed(Points), NEW key, UnderKey(key)
  PROVE  AggregatedVerification(Messages, Points, key) <=> Balanced
PROOF
<1> DEFINE asked == [i \in DOMAIN Messages |-> [msg |-> Messages[i], of |-> key]]
           left == [x \in Msgs |-> VectorSum(Part(x))]
           right == [x \in Msgs |-> VectorSum(Expected(x))]
<1>1. DOMAIN Messages = DOMAIN entries /\ \A i \in DOMAIN entries : Messages[i] = entries[i].msg
  BY DEF Messages
<1>2. ASSUME NEW x
      PROVE  [i \in DOMAIN asked |-> IF asked[i].msg = x THEN asked[i].of ELSE Zero] = Expected(x)
  BY <1>1 DEF UnderKey, Expected
<1>3. Aggregate(asked) = right
  <2> HIDE DEF asked
  <2> QED
    BY <1>2, Zenon DEF Aggregate
<1>4. AggregatedVerification(Messages, Points, key) <=> left = right
  BY <1>3, PointsAdded, Zenon DEF AggregatedVerification
<1>5. left = right <=> \A x \in Msgs : left[x] = right[x]
  OBVIOUS
<1>6. \A x \in Msgs : left[x] = VectorSum(Part(x)) /\ right[x] = VectorSum(Expected(x))
  OBVIOUS
<1> HIDE DEF left, right
<1> QED
  BY <1>4, <1>5, <1>6 DEF Balanced

\* An entry adds what it should to every message if and only if it is right.
LEMMA RightParts ==
  ASSUME IInv, AllWellFormed(Points), NEW i \in DOMAIN entries
  PROVE  Right(entries[i]) <=> \A x \in Msgs : Part(x)[i] = Expected(x)[i]
PROOF
<1>1. /\ entries[i].point # OffCurve /\ entries[i].msg \in Msgs
      /\ entries[i].point.msg \in Msgs
  BY EntryFacts DEF AllWellFormed, Points
<1>2. \A x : /\ Part(x)[i] = IF entries[i].point.msg = x THEN entries[i].point.of ELSE Zero
             /\ Expected(x)[i] = IF entries[i].msg = x THEN entries[i].key ELSE Zero
  BY DEF Part, Expected
<1>3. ASSUME Right(entries[i]) PROVE \A x \in Msgs : Part(x)[i] = Expected(x)[i]
  BY <1>2, <1>3 DEF Right
<1>4. ASSUME \A x \in Msgs : Part(x)[i] = Expected(x)[i] PROVE Right(entries[i])
  <2>1. CASE entries[i].point.msg = entries[i].msg
    BY <1>1, <1>2, <1>4, <2>1 DEF Right
  <2>2. CASE entries[i].point.msg # entries[i].msg
    <3>1. entries[i].key = Zero
      BY <1>1, <1>2, <1>4, <2>2
    <3>2. entries[i].point.of = Zero
      BY <1>1, <1>2, <1>4, <2>2
    <3> QED
      BY <1>1, <3>1, <3>2 DEF Right
  <2> QED
    BY <2>1, <2>2
<1> QED
  BY <1>3, <1>4

-----------------------------------------------------------------------------
(* Right signatures.                                                       *)

LEMMA RightIsBalanced ==
  ASSUME IInv, Wrong = {}
  PROVE  AllWellFormed(Points) /\ Balanced
PROOF
<1>1. \A i \in DOMAIN entries : Right(entries[i])
  BY DEF Wrong
<1>2. AllWellFormed(Points)
  BY <1>1 DEF AllWellFormed, Points, Right
<1>3. ASSUME NEW x \in Msgs PROVE VectorSum(Part(x)) = VectorSum(Expected(x))
  <2>1. \A i \in DOMAIN entries : Part(x)[i] = Expected(x)[i]
    BY <1>1, <1>2, RightParts
  <2>2. Part(x) = Expected(x)
    BY <1>2, <2>1, SideFacts
  <2> QED
    BY <2>2
<1> QED
  BY <1>2, <1>3 DEF Balanced

\* Aggregate and its verification accept right signatures in whichever order
\* they are listed, and however often.
THEOREM RightSignatures == Spec => []RightSignaturesAreAccepted
PROOF
<1>1. IInv => RightSignaturesAreAccepted
  <2> SUFFICES ASSUME IInv, Wrong = {}
               PROVE  /\ \A m \in Msgs : OfMessage(m) => AcceptedForMessage(m)
                      /\ \A key \in registered \ {Zero} : UnderKey(key) => AcceptedUnderKey(key)
    BY DEF RightSignaturesAreAccepted
  <2>1. AllWellFormed(Points) /\ Balanced
    BY RightIsBalanced
  <2>2. ASSUME NEW m \in Msgs, OfMessage(m) PROVE AcceptedForMessage(m)
    BY <2>1, <2>2, MessageBalance DEF AcceptedForMessage
  <2>3. ASSUME NEW key \in registered \ {Zero}, UnderKey(key) PROVE AcceptedUnderKey(key)
    <3>1. AggregatedVerification(Messages, Points, key)
      BY <2>1, <2>3, KeyBalance
    <3>2. \A i \in DOMAIN entries : entries[i].point.of # Zero
      BY <2>3 DEF Wrong, Right, UnderKey
    <3>3. DOMAIN Points = DOMAIN entries /\ \A i \in DOMAIN entries : Points[i] = entries[i].point
      BY DEF Points
    <3> QED
      BY <3>1, <3>2, <3>3 DEF AcceptedUnderKey, AggregatedVerifySig
  <2> QED
    BY <2>2, <2>3
<1> QED
  BY <1>1, Invariant, PTL

-----------------------------------------------------------------------------
(* One wrong signature.                                                    *)

LEMMA OneWrongUnbalances ==
  ASSUME IInv, Cardinality(Wrong) = 1, AllWellFormed(Points), Balanced
  PROVE  FALSE
PROOF
<1>1. IsFiniteSet(DOMAIN entries) /\ IsFiniteSet(Wrong)
  <2>1. Wrong \subseteq DOMAIN entries
    BY DEF Wrong
  <2> QED
    BY <2>1, EntryFacts, FS_Subset
<1>2. PICK b : Wrong = {b}
  BY <1>1, FS_Singleton
<1>3. b \in DOMAIN entries /\ ~Right(entries[b])
  BY <1>2 DEF Wrong
<1>4. \A i \in DOMAIN entries \ {b} : Right(entries[i])
  BY <1>2 DEF Wrong
<1>5. ASSUME NEW x \in Msgs PROVE Part(x)[b] = Expected(x)[b]
  <2>1. Part(x) \in [DOMAIN entries -> Vectors] /\ Expected(x) \in [DOMAIN entries -> Vectors]
    BY SideFacts
  <2>2. \A i \in DOMAIN entries \ {b} : Part(x)[i] = Expected(x)[i]
    BY <1>4, RightParts
  <2>3. VectorSum(Part(x)) = VectorSum(Expected(x))
    BY DEF Balanced
  <2> QED
    BY <1>1, <1>3, <2>1, <2>2, <2>3, OneDiffers
<1> QED
  BY <1>3, <1>5, RightParts

\* A signature of another message or key, one combined from several, or one off
\* the curve spoils a list whose other entries are right.
THEOREM OneWrongSignature == Spec => []OneWrongSignatureIsNoticed
PROOF
<1>1. IInv => OneWrongSignatureIsNoticed
  <2> SUFFICES ASSUME IInv, Cardinality(Wrong) = 1
               PROVE  /\ \A m \in Msgs : OfMessage(m) => ~AcceptedForMessage(m)
                      /\ \A key \in registered : UnderKey(key) => ~AcceptedUnderKey(key)
    BY DEF OneWrongSignatureIsNoticed
  <2>1. ASSUME NEW m \in Msgs, OfMessage(m), AcceptedForMessage(m) PROVE FALSE
    BY <2>1, MessageBalance, OneWrongUnbalances DEF AcceptedForMessage
  <2>2. ASSUME NEW key \in registered, UnderKey(key), AcceptedUnderKey(key) PROVE FALSE
    BY <2>2, KeyBalance, OneWrongUnbalances
       DEF AcceptedUnderKey, AggregatedVerifySig, AggregatedVerification
  <2> QED
    BY <2>1, <2>2
<1> QED
  BY <1>1, Invariant, PTL

-----------------------------------------------------------------------------
(* Accepted lists.                                                         *)

\* No published signature has the part of an owner who published nothing for
\* the message, and the keys, in none of which that part is cancelled, call for
\* it.
LEMMA BalancedMeansSigned ==
  ASSUME IInv, AllWellFormed(Points), Balanced,
         NEW u \in Honest, NEW b \in DOMAIN entries, entries[b].key = KeyOf(u),
         \A i \in DOMAIN entries : entries[i].key[u] \in {0, 1}
  PROVE  Published(u, entries[b].msg)
PROOF
<1> SUFFICES ASSUME ~Published(u, entries[b].msg) PROVE FALSE
  OBVIOUS
<1>1. PICK m \in Msgs : m = entries[b].msg
  BY EntryFacts
<1>2. u \in Owners /\ KeyOf(u)[u] = 1
  BY KeyFacts DEF KeyOf
<1> DEFINE had == [i \in DOMAIN entries |-> Part(m)[i][u]]
           due == [i \in DOMAIN entries |-> Expected(m)[i][u]]
<1>3. Part(m) \in [DOMAIN entries -> Vectors] /\ Expected(m) \in [DOMAIN entries -> Vectors]
  BY SideFacts
<1>4. /\ VectorSum(Part(m))[u] = Sum(had) /\ VectorSum(Expected(m))[u] = Sum(due)
      /\ had \in [DOMAIN entries -> Fr]
  BY <1>2, <1>3, EntryFacts, VectorSumAt
<1>5. \A i \in DOMAIN entries : had[i] = 0
  <2> SUFFICES ASSUME NEW i \in DOMAIN entries PROVE Part(m)[i][u] = 0
    OBVIOUS
  <2>1. CASE entries[i].point.msg = m
    <3>1. Known(entries[i].point) /\ entries[i].point # OffCurve
      BY DEF IInv, EntriesAreKnown, AllWellFormed, Points
    <3>2. entries[i].point.of[u] = 0
      BY <1>1, <2>1, <3>1 DEF Known
    <3> QED
      BY <2>1, <3>2 DEF Part
  <2>2. CASE entries[i].point.msg # m
    BY <1>2, <2>2 DEF Part, Zero
  <2> QED
    BY <2>1, <2>2
<1>6. due \in [DOMAIN entries -> {0, 1}] /\ due[b] = 1
  <2>1. ASSUME NEW i \in DOMAIN entries PROVE Expected(m)[i][u] \in {0, 1}
    <3>1. CASE entries[i].msg = m
      BY <3>1 DEF Expected
    <3>2. CASE entries[i].msg # m
      BY <1>2, <3>2 DEF Expected, Zero
    <3> QED
      BY <3>1, <3>2
  <2>2. Expected(m)[b][u] = 1
    BY <1>1, <1>2 DEF Expected
  <2> QED
    BY <2>1, <2>2
<1> HIDE DEF had, due
<1>7. Sum(had) = 0
  BY <1>4, <1>5, EntryFacts, SumZeros
<1>8. Sum(due) # 0
  BY <1>6, EntryFacts, ZeroOnes
<1>9. VectorSum(Part(m)) = VectorSum(Expected(m))
  BY DEF Balanced
<1> QED
  BY <1>4, <1>7, <1>8, <1>9

\* Whatever is in an accepted list, the honest owners whose keys are in it have
\* signed, or the message is the digest of their key: the proofs of possession
\* keep out the keys that would cancel theirs, unless they sign those themselves.
THEOREM AcceptedSigned == Spec => []AcceptedMeansSigned
PROOF
<1>1. IInv => AcceptedMeansSigned
  <2> SUFFICES ASSUME IInv, NEW u \in Honest
               PROVE  /\ \A m \in Msgs, i \in DOMAIN entries :
                             SignsNoOtherKey(u) /\ OfMessage(m) /\ entries[i].key = KeyOf(u)
                                 /\ AcceptedForMessage(m) => Published(u, m)
                      /\ UnderKey(KeyOf(u)) /\ AcceptedUnderKey(KeyOf(u)) =>
                             \A i \in DOMAIN entries : Published(u, entries[i].msg)
    BY DEF AcceptedMeansSigned
  <2>1. ASSUME NEW m \in Msgs, NEW i \in DOMAIN entries, SignsNoOtherKey(u),
               OfMessage(m), entries[i].key = KeyOf(u), AcceptedForMessage(m)
        PROVE  Published(u, m)
    <3>1. AllWellFormed(Points) /\ Balanced /\ entries[i].msg = m
      BY <2>1, MessageBalance DEF AcceptedForMessage, OfMessage
    <3>2. \A k \in DOMAIN entries : entries[k].key[u] \in {0, 1}
      BY <2>1, EntryFacts, HonestPart
    <3> QED
      BY <2>1, <3>1, <3>2, BalancedMeansSigned
  <2>2. ASSUME UnderKey(KeyOf(u)), AcceptedUnderKey(KeyOf(u)), NEW i \in DOMAIN entries
        PROVE  Published(u, entries[i].msg)
    <3>1. AllWellFormed(Points) /\ Balanced /\ entries[i].key = KeyOf(u)
      BY <2>2, KeyBalance DEF AcceptedUnderKey, AggregatedVerifySig, AggregatedVerification, UnderKey
    <3>2. \A k \in DOMAIN entries : entries[k].key[u] \in {0, 1}
      BY <2>2, KeyFacts DEF UnderKey
    <3> QED
      BY <3>1, <3>2, BalancedMeansSigned
  <2> QED
    BY <2>1, <2>2
<1> QED
  BY <1>1, Invariant, PTL
=============================================================================
