---------------------------- MODULE KeyFilesProofs ----------------------------
(***************************************************************************)
(* Proofs about KeyFiles: the invariant IInv is inductive, and the safety  *)
(* properties of the run follow from it.                                   *)
(***************************************************************************)
EXTENDS KeyFiles, Integers, FiniteSetTheorems, SequenceTheorems, TLAPS

-----------------------------------------------------------------------------
(* Names and what the files hold.                                          *)

LEMMA NodeFacts ==
  /\ N \in Nat /\ N > 0 /\ 0 \in Nodes /\ Nodes \subseteq Nat /\ IsFiniteSet(Nodes)
  /\ T \in Nat /\ T > 0 /\ 0..(T - 1) \subseteq Nodes /\ 0 \in 0..(T - 1)
  /\ \A j \in Nodes : j + 1 \in 0..N
PROOF
<1>1. IsFiniteSet(Nodes)
  BY FileConstants, FS_Interval DEF Nodes
<1> QED
  BY <1>1, FileConstants DEF Nodes

\* No file of one kind has the name of one of another kind.
LEMMA NameFacts ==
  /\ Common \in KeyNames /\ \A j \in Nodes : KeyFile(j) \in KeyNames /\ DataFile(j) \in DataNames
  /\ \A o \in Outs : Out(o) \in OutNames
  /\ Names = KeyNames \cup DataNames \cup OutNames \cup {HashJson}
  /\ \A n \in KeyNames : n \notin DataNames /\ n \notin OutNames /\ n # HashJson
  /\ \A n \in DataNames : n \notin KeyNames /\ n \notin OutNames /\ n # HashJson
  /\ \A n \in OutNames : n \notin KeyNames /\ n \notin DataNames /\ n # HashJson
PROOF
<1>1. /\ \A n \in KeyNames : n[1] = "common_public_key" \/ n[1] = "BLS_keys"
      /\ \A n \in DataNames : n[1] = "data_for_participant"
      /\ \A n \in OutNames : n[1] = "output"
      /\ HashJson[1] = "hash"
  BY DEF KeyNames, DataNames, OutNames, Common, KeyFile, DataFile, Out, HashJson
<1>2. /\ \A n \in KeyNames : n \notin DataNames /\ n \notin OutNames /\ n # HashJson
      /\ \A n \in DataNames : n \notin KeyNames /\ n \notin OutNames /\ n # HashJson
      /\ \A n \in OutNames : n \notin KeyNames /\ n \notin DataNames /\ n # HashJson
  BY <1>1
<1> QED
  BY <1>2 DEF KeyNames, DataNames, OutNames, Names

LEMMA DistinctNames ==
  /\ \A j \in Nodes : KeyFile(j) # Common
  /\ \A i, j \in Nodes : (KeyFile(i) = KeyFile(j) => i = j) /\ (DataFile(i) = DataFile(j) => i = j)
  /\ \A o, p \in Outs : Out(o) = Out(p) => o = p
BY DEF KeyFile, DataFile, Common, Out

Signatures == [index : Nodes \cup {NoIndex}, point : Points]

LEMMA HoldsFacts ==
  /\ \A n \in KeyNames : Holds(n) = Generations
  /\ \A n \in DataNames : Holds(n) = Polynomials
  /\ \A n \in OutNames : Holds(n) = Signatures
  /\ Holds(HashJson) = Texts
BY NameFacts DEF Holds, Signatures

\* A file that cannot be read holds no key, signature or text.
LEMMA UnreadableFacts ==
  /\ Unreadable \notin Generations /\ Unreadable \notin Polynomials
  /\ \A n \in Names : Unreadable \notin Holds(n)
PROOF
<1>1. /\ \A n \in Names : Unreadable \notin Holds(n)
  BY FileConstants
<1>2. Common \in Names /\ DataFile(0) \in Names
  BY NameFacts, NodeFacts
<1> QED
  BY <1>1, <1>2, HoldsFacts, NameFacts, NodeFacts

LEMMA WriteFacts ==
  ASSUME NEW name \in Names, NEW content \in Holds(name)
  PROVE  /\ Write(name, content) \in Writes
         /\ Write(name, content).name = name /\ Write(name, content).content = content
BY DEF Write, Writes

LEMMA WritesFacts ==
  ASSUME NEW w \in Writes
  PROVE  /\ w.name \in Names /\ w.content \in Holds(w.name)
         /\ w = Write(w.name, w.content)
BY DEF Write, Writes

\* What dkg_keygen and dkg_glue write, one by one.
LEMMA KeyFilesFacts ==
  ASSUME NEW gen \in Generations
  PROVE  /\ KeyFilesOf(gen) \in Seq(Writes) /\ Len(KeyFilesOf(gen)) = N
         /\ \A i \in 1..N : KeyFilesOf(gen)[i] = Write(KeyFile(i - 1), gen)
         /\ Write(Common, gen) \in Writes
PROOF
<1>1. \A i \in 1..N : i - 1 \in Nodes
  BY NodeFacts DEF Nodes
<1>2. \A i \in 1..N : Write(KeyFile(i - 1), gen) \in Writes
  BY <1>1, NameFacts, HoldsFacts, WriteFacts
<1>3. Write(Common, gen) \in Writes
  BY NameFacts, HoldsFacts, WriteFacts
<1> QED
  BY <1>2, <1>3, NodeFacts DEF KeyFilesOf

LEMMA KeygenWrites ==
  ASSUME NEW gen \in Generations
  PROVE  LET s == <<Write(Common, gen)>> \o KeyFilesOf(gen)
         IN  /\ s \in Seq(Writes) /\ Len(s) = N + 1
             /\ \A i \in 1..(N + 1) :
                    s[i] = Write(IF i = 1 THEN Common ELSE KeyFile(i - 2), gen)
PROOF
<1> DEFINE f == KeyFilesOf(gen)
           h == <<Write(Common, gen)>>
           s == h \o f
<1>1. f \in Seq(Writes) /\ Len(f) = N /\ \A i \in 1..N : f[i] = Write(KeyFile(i - 1), gen)
  BY KeyFilesFacts
<1>2. h \in Seq(Writes) /\ Len(h) = 1 /\ h[1] = Write(Common, gen)
  BY KeyFilesFacts
<1> HIDE DEF f, h
<1>3. /\ s \in Seq(Writes) /\ Len(s) = 1 + N
      /\ \A i \in 1..(1 + N) : s[i] = IF i <= 1 THEN h[i] ELSE f[i - 1]
  <2>1. /\ h \o f \in Seq(Writes) /\ Len(h \o f) = Len(h) + Len(f)
        /\ \A i \in 1..(Len(h) + Len(f)) :
               (h \o f)[i] = IF i <= Len(h) THEN h[i] ELSE f[i - Len(h)]
    BY <1>1, <1>2, ConcatProperties, Zenon
  <2> QED
    BY <1>1, <1>2, <2>1
<1> HIDE DEF s
<1>4. ASSUME NEW i \in 1..(N + 1)
      PROVE  s[i] = Write(IF i = 1 THEN Common ELSE KeyFile(i - 2), gen)
  <2>1. CASE i = 1
    BY <1>2, <1>3, <2>1, NodeFacts
  <2>2. CASE i # 1
    <3>1. i - 1 \in 1..N /\ (i - 1) - 1 = i - 2
      BY <2>2, NodeFacts
    <3> QED
      BY <1>1, <1>3, <2>2, <3>1, NodeFacts
  <2> QED
    BY <2>1, <2>2
<1> QED
  BY <1>3, <1>4, NodeFacts DEF s, h, f

LEMMA GlueWrites ==
  ASSUME NEW gen \in Generations
  PROVE  LET s == Append(KeyFilesOf(gen), Write(Common, gen))
         IN  /\ s \in Seq(Writes) /\ Len(s) = N + 1
             /\ \A i \in 1..(N + 1) :
                    s[i] = Write(IF i = N + 1 THEN Common ELSE KeyFile(i - 1), gen)
PROOF
<1> DEFINE f == KeyFilesOf(gen)
           w == Write(Common, gen)
           s == Append(f, w)
<1>1. /\ f \in Seq(Writes) /\ Len(f) = N /\ \A i \in 1..N : f[i] = Write(KeyFile(i - 1), gen)
      /\ w \in Writes
  BY KeyFilesFacts
<1> HIDE DEF f, w
<1>2. /\ s \in Seq(Writes) /\ Len(s) = N + 1 /\ s[N + 1] = w
      /\ \A i \in 1..N : s[i] = f[i]
  BY <1>1, AppendProperties
<1> QED
  BY <1>1, <1>2, NodeFacts DEF f, w

\* What sign_bls and bls_glue write.
LEMMA OutputWrites ==
  ASSUME NEW o \in Outs, NEW signature \in Signatures
  PROVE  /\ Write(Out(o), signature) \in Writes /\ <<Write(Out(o), signature)>> \in Seq(Writes)
         /\ \A text \in Texts :
                <<Write(HashJson, text), Write(Out(o), signature)>> \in Seq(Writes)
PROOF
<1>1. Write(Out(o), signature) \in Writes
  BY NameFacts, HoldsFacts, WriteFacts
<1>2. \A text \in Texts : Write(HashJson, text) \in Writes
  BY NameFacts, HoldsFacts, WriteFacts
<1> QED
  BY <1>1, <1>2

LEMMA TailFacts ==
  ASSUME NEW s \in Seq(Writes), s # <<>>
  PROVE  /\ Len(s) \in Nat /\ Len(s) > 0 /\ Head(s) = s[1] /\ s[1] \in Writes
         /\ Tail(s) \in Seq(Writes) /\ Len(Tail(s)) = Len(s) - 1
         /\ \A i \in 1..(Len(s) - 1) : Tail(s)[i] = s[i + 1]
PROOF
<1>1. Len(s) \in Nat /\ Len(s) > 0 /\ Head(s) = s[1] /\ s[1] \in Writes
  BY EmptySeq
<1> QED
  BY <1>1, HeadTailProperties

-----------------------------------------------------------------------------
(* Shares and signatures.                                                  *)

\* What is recovered from the shares of one text is one of that text, if
\* anything.
LEMMA RecoveredFacts ==
  ASSUME NEW shares, shares # {}, \A s \in shares : s.point \in Points
  PROVE  /\ Recovered(shares) \in Points
         /\ Recovered(shares) # Garbled =>
                \E s \in shares : s.point # Garbled /\ Recovered(shares).bytes = s.point.bytes
PROOF
<1>1. PICK p : p = (CHOOSE x \in shares : TRUE).point
  OBVIOUS
<1>2. \E s \in shares : p = s.point
  BY <1>1
<1>3. CASE Recovered(shares) = Garbled
  BY <1>3 DEF Points
<1>4. CASE Recovered(shares) # Garbled
  <2>1. Recovered(shares) = [p EXCEPT !.at = 0] /\ \A s \in shares : s.point # Garbled
    BY <1>1, <1>4 DEF Recovered
  <2>2. p \in Values
    BY <1>2, <2>1 DEF Points
  <2>3. [p EXCEPT !.at = 0] \in Values /\ [p EXCEPT !.at = 0].bytes = p.bytes
    BY <2>2, NodeFacts DEF Values
  <2> QED
    BY <1>2, <2>1, <2>3 DEF Points
<1> QED
  BY <1>3, <1>4

-----------------------------------------------------------------------------
(* One write to the directory.                                             *)

LEMMA DiskUpdate ==
  ASSUME TypeOK, NEW name \in Names, NEW v \in Holds(name) \cup {Unreadable},
         disk' = [disk EXCEPT ![name] = v]
  PROVE  /\ DOMAIN disk' = Names /\ disk'[name] = v
         /\ \A n \in Names : n # name => disk'[n] = disk[n]
         /\ \A n \in Names : disk'[n] \in Holds(n) \cup {Unreadable}
BY DEF TypeOK

LEMMA OpenedFacts ==
  ASSUME TypeOK, NEW o \in Outs, disk' = Opened(o)
  PROVE  /\ DOMAIN disk' = Names /\ disk'[Out(o)] = Unreadable
         /\ disk'[Common] = disk[Common] /\ disk'[HashJson] = disk[HashJson]
         /\ \A j \in Nodes : /\ disk'[KeyFile(j)] = disk[KeyFile(j)]
                             /\ disk'[DataFile(j)] = disk[DataFile(j)]
         /\ \A p \in Outs : p # o => disk'[Out(p)] = disk[Out(p)]
         /\ \A n \in Names : disk'[n] \in Holds(n) \cup {Unreadable}
PROOF
<1>1. Out(o) \in Names /\ Out(o) \in OutNames
  BY NameFacts
<1>2. /\ DOMAIN disk' = Names /\ disk'[Out(o)] = Unreadable
      /\ \A n \in Names : n # Out(o) => disk'[n] = disk[n]
      /\ \A n \in Names : disk'[n] \in Holds(n) \cup {Unreadable}
  BY <1>1, DiskUpdate DEF Opened
<1>3. /\ \A n \in KeyNames \cup DataNames : disk'[n] = disk[n]
      /\ disk'[HashJson] = disk[HashJson]
  BY <1>1, <1>2, NameFacts
<1>4. \A p \in Outs : p # o => disk'[Out(p)] = disk[Out(p)]
  BY <1>2, NameFacts, DistinctNames
<1> QED
  BY <1>2, <1>3, <1>4, NameFacts

\* What a file that can be read holds.
LEMMA ReadFacts ==
  ASSUME TypeOK
  PROVE  /\ Readable(Common) => disk[Common] \in Generations
         /\ Readable(HashJson) => disk[HashJson] \in Texts
         /\ \A j \in Nodes : /\ Readable(KeyFile(j)) => disk[KeyFile(j)] \in Generations
                             /\ Readable(DataFile(j)) => disk[DataFile(j)] \in Polynomials
         /\ \A o \in Outs : Readable(Out(o)) => disk[Out(o)] \in Signatures
BY NameFacts, HoldsFacts DEF TypeOK, Readable

-----------------------------------------------------------------------------
(* The invariant holds initially, and every operation keeps it.            *)

LEMMA InitInv == Init => IInv
PROOF
<1> SUFFICES ASSUME Init PROVE IInv
  OBVIOUS
<1>1. \A n \in Names : ~Readable(n)
  BY DEF Init, Readable
<1>2. TypeOK
  BY FileConstants DEF Init, TypeOK
<1>3. OnlyDrawn
  BY <1>1, NameFacts DEF Init, OnlyDrawn
<1>4. OneToolAtWork
  BY DEF Init, OneToolAtWork, Idle
<1>5. LatestFits
  BY DEF Init, LatestFits
<1>6. WholeOrReplaced
  BY <1>1, NameFacts DEF WholeOrReplaced
<1> QED
  BY <1>2, <1>3, <1>4, <1>5, <1>6 DEF IInv

\* A new polynomial is one that no file holds.
LEMMA DrawFacts ==
  ASSUME IInv, runs < MaxRuns, NEW j \in Nodes, NEW alone \in BOOLEAN
  PROVE  /\ Draw(j, alone) \in Polynomials
         /\ Draw(j, alone).alone = alone /\ Draw(j, alone).run = drawn[j] + 1
         /\ drawn[j] \in Nat /\ drawn[j] + 1 \in 0..MaxRuns /\ drawn[j] + 1 <= runs + 1
         /\ Readable(Common) => disk[Common][j] # Draw(j, alone)
PROOF
<1>1. /\ drawn[j] \in Nat /\ runs \in Nat /\ MaxRuns \in Nat /\ drawn[j] <= runs
      /\ drawn[j] + 1 \in 1..MaxRuns
  BY FileConstants DEF IInv, TypeOK, OnlyDrawn
<1>2. Draw(j, alone).alone = alone /\ Draw(j, alone).run = drawn[j] + 1
  BY DEF Draw
<1>3. Draw(j, alone) \in Polynomials
  BY <1>1 DEF Draw, Polynomials
<1>4. ASSUME Readable(Common) PROVE disk[Common][j] # Draw(j, alone)
  <2>1. disk[Common][j].run <= drawn[j] /\ disk[Common][j] \in Polynomials
    BY <1>4, ReadFacts DEF IInv, OnlyDrawn, Generations
  <2> QED
    BY <1>1, <1>2, <2>1 DEF Polynomials
<1> QED
  BY <1>1, <1>2, <1>3, <1>4

LEMMA KeygenStep == IInv /\ Keygen => IInv'
PROOF
<1> SUFFICES ASSUME IInv, Keygen PROVE IInv'
  OBVIOUS
<1>1. PICK gen : gen = [j \in Nodes |-> Draw(j, FALSE)]
  OBVIOUS
<1>2. /\ runs < MaxRuns /\ runs' = runs + 1 /\ disk' = disk /\ latest' = latest
      /\ drawn' = [j \in Nodes |-> drawn[j] + 1]
      /\ todo' = <<Write(Common, gen)>> \o KeyFilesOf(gen)
  BY <1>1 DEF Keygen
<1>3. /\ gen \in Generations
      /\ \A j \in Nodes : ~gen[j].alone /\ gen[j].run = drawn[j] + 1
  BY <1>1, <1>2, DrawFacts DEF Generations
<1>4. /\ todo' \in Seq(Writes) /\ Len(todo') = N + 1
      /\ \A i \in 1..(N + 1) :
             todo'[i] = Write(IF i = 1 THEN Common ELSE KeyFile(i - 2), gen)
  BY <1>2, <1>3, KeygenWrites
<1>5. \A j \in Nodes : drawn'[j] \in 0..MaxRuns /\ drawn'[j] <= runs' /\ drawn'[j] = drawn[j] + 1
                       /\ drawn[j] \in Nat
  BY <1>2, DrawFacts
<1>6. TypeOK'
  <2>1. drawn' \in [Nodes -> 0..MaxRuns]
    BY <1>2, <1>5
  <2>2. runs' \in 0..MaxRuns
    BY <1>2, FileConstants DEF IInv, TypeOK
  <2> QED
    BY <1>2, <1>4, <2>1, <2>2 DEF IInv, TypeOK
<1>7. OnlyDrawn'
  <2>1. Readable(Common) => \A j \in Nodes : disk[Common][j].run \in Nat /\ disk[Common][j].run <= drawn[j]
    BY ReadFacts DEF IInv, OnlyDrawn, Generations, Polynomials
  <2>2. \A j \in Nodes : Readable(DataFile(j)) =>
              disk[DataFile(j)].run \in Nat /\ disk[DataFile(j)].run <= drawn[j]
    BY ReadFacts DEF IInv, OnlyDrawn, Polynomials
  <2> QED
    BY <1>2, <1>5, <2>1, <2>2 DEF OnlyDrawn, Readable
<1>8. OneToolAtWork'
  <2>1. KeygenAtWork(gen, 0)'
    BY <1>3, <1>4, <1>5, NodeFacts DEF KeygenAtWork
  <2>2. todo'[1] = Write(Common, gen)
    BY <1>4, NodeFacts
  <2>3. todo'[1].name \in KeyNames /\ todo'[1].content = gen
    BY <2>2, NameFacts DEF Write
  <2>4. 0 \in 0..N
    BY NodeFacts
  <2> QED
    BY <2>1, <2>3, <2>4 DEF OneToolAtWork
<1>9. LatestFits' /\ WholeOrReplaced'
  BY <1>2 DEF IInv, LatestFits, WholeOrReplaced, Readable
<1> QED
  BY <1>6, <1>7, <1>8, <1>9 DEF IInv

LEMMA KeygenOfStep ==
  ASSUME IInv, NEW j \in Nodes, KeygenOf(j)
  PROVE  IInv'
PROOF
<1>1. PICK pol : pol = Draw(j, TRUE)
  OBVIOUS
<1>2. /\ runs < MaxRuns /\ runs' = runs + 1 /\ disk' = disk /\ latest' = latest
      /\ drawn' = [drawn EXCEPT ![j] = drawn[j] + 1]
      /\ todo' = <<Write(DataFile(j), pol)>>
  BY <1>1 DEF KeygenOf
<1>3. /\ pol \in Polynomials /\ pol.run = drawn[j] + 1 /\ drawn[j] + 1 \in 0..MaxRuns
      /\ drawn[j] + 1 <= runs + 1
      /\ Readable(Common) => disk[Common][j] # pol
  BY <1>1, <1>2, DrawFacts
<1>4. DataFile(j) \in Names /\ DataFile(j) \in DataNames /\ Write(DataFile(j), pol) \in Writes
  BY <1>3, NameFacts, HoldsFacts, WriteFacts
<1>5. /\ drawn' \in [Nodes -> 0..MaxRuns] /\ runs' \in 0..MaxRuns
      /\ \A i \in Nodes : drawn[i] \in Nat /\ drawn'[i] <= runs' /\ drawn[i] <= drawn'[i]
      /\ drawn'[j] = drawn[j] + 1
  BY <1>2, <1>3, FileConstants DEF IInv, TypeOK, OnlyDrawn
<1>6. TypeOK'
  BY <1>2, <1>4, <1>5 DEF IInv, TypeOK
<1>7. OnlyDrawn'
  <2>1. Readable(Common) => \A i \in Nodes : disk[Common][i].run \in Nat /\ disk[Common][i].run <= drawn[i]
    BY ReadFacts DEF IInv, OnlyDrawn, Generations, Polynomials
  <2>2. \A i \in Nodes : Readable(DataFile(i)) =>
              disk[DataFile(i)].run \in Nat /\ disk[DataFile(i)].run <= drawn[i]
    BY ReadFacts DEF IInv, OnlyDrawn, Polynomials
  <2>3. \A i \in Nodes : drawn'[i] \in Nat
    BY <1>5
  <2> QED
    BY <1>2, <1>5, <2>1, <2>2, <2>3 DEF OnlyDrawn, Readable
<1>8. OneToolAtWork'
  <2>1. DataLeft(j, pol)'
    BY <1>2, <1>3, <1>5 DEF DataLeft, Readable
  <2>2. todo'[1].name = DataFile(j) /\ todo'[1].content = pol
    BY <1>2 DEF Write
  <2> QED
    BY <2>1, <2>2 DEF OneToolAtWork
<1>9. LatestFits' /\ WholeOrReplaced'
  BY <1>2 DEF IInv, LatestFits, WholeOrReplaced, Readable
<1> QED
  BY <1>6, <1>7, <1>8, <1>9 DEF IInv

LEMMA GlueStep == IInv /\ DkgGlue => IInv'
PROOF
<1> SUFFICES ASSUME IInv, DkgGlue PROVE IInv'
  OBVIOUS
<1>1. PICK gen : gen = ParticipantsData
  OBVIOUS
<1>2. /\ disk' = disk /\ latest' = latest /\ runs' = runs /\ drawn' = drawn
      /\ todo' = Append(KeyFilesOf(gen), Write(Common, gen))
      /\ \A j \in Nodes : Readable(DataFile(j))
  BY <1>1 DEF DkgGlue
<1>3. gen \in Generations
  BY <1>1, <1>2, ReadFacts DEF IInv, ParticipantsData, Generations
<1>4. /\ todo' \in Seq(Writes) /\ Len(todo') = N + 1
      /\ \A i \in 1..(N + 1) :
             todo'[i] = Write(IF i = N + 1 THEN Common ELSE KeyFile(i - 1), gen)
  BY <1>2, <1>3, GlueWrites
<1>5. TypeOK' /\ OnlyDrawn'
  BY <1>2, <1>4 DEF IInv, TypeOK, OnlyDrawn, Readable
<1>6. OneToolAtWork'
  <2>1. GlueAtWork(gen, 0)'
    <3>1. Len(todo') = N + 1 - 0
      BY <1>4, NodeFacts
    <3>2. \A i \in 1..Len(todo') :
              todo'[i] = Write(IF 0 + i = N + 1 THEN Common ELSE KeyFile(0 + i - 1), gen)
      BY <1>4, NodeFacts
    <3>3. gen = ParticipantsData'
      BY <1>1, <1>2 DEF ParticipantsData
    <3>4. \A j \in Nodes : ~(j < 0)
      BY NodeFacts
    <3> QED
      BY <3>1, <3>2, <3>3, <3>4 DEF GlueAtWork
  <2>2. todo'[1] = Write(KeyFile(0), gen)
    BY <1>4, NodeFacts
  <2>3. todo'[1].name \in KeyNames /\ todo'[1].content = gen
    BY <2>2, NameFacts, NodeFacts DEF Write
  <2>4. 0 \in 0..N
    BY NodeFacts
  <2> QED
    BY <2>1, <2>3, <2>4 DEF OneToolAtWork
<1>7. LatestFits' /\ WholeOrReplaced'
  BY <1>2 DEF IInv, LatestFits, WholeOrReplaced, Readable
<1> QED
  BY <1>5, <1>6, <1>7 DEF IInv

\* sign_bls empties its output, and will write the text before a signature that
\* fits it, or nothing.
LEMMA SignStep ==
  ASSUME IInv, NEW text \in Texts, NEW o \in Outs,
         runs < MaxRuns, runs' = runs + 1, latest' = o, disk' = Opened(o), drawn' = drawn,
         \/ todo' = <<>>
         \/ \E signature \in Signatures :
                /\ Fits(signature.point, text)
                /\ todo' = <<Write(HashJson, text), Write(Out(o), signature)>>
  PROVE  IInv'
PROOF
<1>1. TypeOK
  BY DEF IInv
<1>2. /\ DOMAIN disk' = Names /\ disk'[Out(o)] = Unreadable
      /\ disk'[Common] = disk[Common] /\ disk'[HashJson] = disk[HashJson]
      /\ \A j \in Nodes : /\ disk'[KeyFile(j)] = disk[KeyFile(j)]
                          /\ disk'[DataFile(j)] = disk[DataFile(j)]
      /\ \A n \in Names : disk'[n] \in Holds(n) \cup {Unreadable}
  BY <1>1, OpenedFacts
<1>3. TypeOK'
  <2>1. todo' \in Seq(Writes)
    <3>1. CASE todo' = <<>>
      BY <3>1
    <3>2. ASSUME NEW signature \in Signatures,
                 todo' = <<Write(HashJson, text), Write(Out(o), signature)>>
          PROVE  todo' \in Seq(Writes)
      BY <3>2, OutputWrites
    <3> QED
      BY <3>1, <3>2
  <2>2. runs' \in 0..MaxRuns
    BY FileConstants DEF IInv, TypeOK
  <2> QED
    BY <1>2, <2>1, <2>2 DEF IInv, TypeOK
<1>4. OnlyDrawn'
  <2>1. \A j \in Nodes : drawn'[j] <= runs'
    BY FileConstants DEF IInv, TypeOK, OnlyDrawn
  <2> QED
    BY <1>2, <2>1 DEF IInv, OnlyDrawn, Readable
<1>5. OneToolAtWork'
  <2>1. CASE todo' = <<>>
    BY <2>1 DEF OneToolAtWork, Idle
  <2>2. ASSUME NEW signature \in Signatures, Fits(signature.point, text),
               todo' = <<Write(HashJson, text), Write(Out(o), signature)>>
        PROVE  OneToolAtWork'
    <3>1. HashLeft(text, signature)'
      BY <1>2, <2>2, FileConstants DEF HashLeft, Readable, Fits
    <3>2. /\ todo'[1].name = HashJson /\ todo'[1].content = text
          /\ todo'[2].content = signature
      BY <2>2 DEF Write
    <3> QED
      BY <3>1, <3>2 DEF OneToolAtWork
  <2> QED
    BY <2>1, <2>2
<1>6. LatestFits'
  BY <1>2 DEF LatestFits, Readable
<1>7. WholeOrReplaced'
  <2>1. 0 \in Nodes
    BY NodeFacts
  <2> QED
    BY <1>2, <2>1 DEF IInv, WholeOrReplaced, Readable
<1> QED
  BY <1>3, <1>4, <1>5, <1>6, <1>7 DEF IInv

LEMMA ShareFacts ==
  ASSUME TypeOK, NEW j \in Nodes, NEW text \in Texts, NEW rehash \in BOOLEAN,
         BytesOf[text, rehash] # Invalid, Readable(KeyFile(j))
  PROVE  /\ ShareOf(j, text, rehash) \in Points
         /\ ShareOf(j, text, rehash) # Garbled
         /\ ShareOf(j, text, rehash).bytes = BytesOf[text, rehash]
         /\ ShareOf(j, text, rehash).at = j + 1
PROOF
<1>1. BytesOf[text, rehash] \in Bytes
  BY FileConstants
<1>2. disk[KeyFile(j)] \in Generations
  BY ReadFacts
<1>3. j + 1 \in 0..N
  BY NodeFacts
<1>4. ShareOf(j, text, rehash) \in Values
  BY <1>1, <1>2, <1>3 DEF ShareOf, Values
<1> QED
  BY <1>4, FileConstants DEF ShareOf, Points

LEMMA SignBlsStep ==
  ASSUME IInv, NEW text \in Texts, NEW rehash \in BOOLEAN, NEW o \in Outs,
         SignBls(text, rehash, o)
  PROVE  IInv'
PROOF
<1>1. TypeOK
  BY DEF IInv
<1>2. CASE SignAll(text, rehash, o)
  <2> DEFINE S == {[index |-> j + 1, point |-> ShareOf(j, text, rehash)] : j \in 0..(T - 1)}
             signature == [index |-> NoIndex, point |-> Recovered(S)]
  <2>1. /\ runs < MaxRuns /\ runs' = runs + 1 /\ latest' = o /\ disk' = Opened(o)
        /\ drawn' = drawn
    BY <1>2 DEF SignAll
  <2>2. CASE \/ BytesOf[text, rehash] = Invalid
             \/ \E j \in Nodes : ~Readable(KeyFile(j))
    <3>1. todo' = <<>>
      BY <1>2, <2>2 DEF SignAll
    <3> QED
      BY <2>1, <3>1, SignStep
  <2>3. CASE /\ BytesOf[text, rehash] # Invalid
             /\ \A j \in Nodes : Readable(KeyFile(j))
    <3>1. todo' = <<Write(HashJson, text), Write(Out(o), signature)>>
      BY <1>2, <2>3 DEF SignAll, HashAndSignature
    <3>2. \A s \in S : s.point \in Points /\ s.point.bytes = BytesOf[text, rehash]
      <4>1. \A j \in 0..(T - 1) : /\ ShareOf(j, text, rehash) \in Points
                                  /\ ShareOf(j, text, rehash).bytes = BytesOf[text, rehash]
        BY <1>1, <2>3, ShareFacts, NodeFacts
      <4>2. \A s \in S : \E j \in 0..(T - 1) : s.point = ShareOf(j, text, rehash)
        OBVIOUS
      <4> QED
        BY <4>1, <4>2, Zenon
    <3>3. S # {}
      BY NodeFacts
    <3>4. /\ Recovered(S) \in Points
          /\ Recovered(S) # Garbled => \E s \in S : Recovered(S).bytes = s.point.bytes
      <4> HIDE DEF S
      <4> QED
        BY <3>2, <3>3, RecoveredFacts
    <3>5. Fits(Recovered(S), text)
      BY <3>2, <3>4 DEF Fits
    <3> HIDE DEF S
    <3>6. signature \in Signatures /\ signature.point = Recovered(S)
      BY <3>4 DEF Signatures
    <3> HIDE DEF signature
    <3> QED
      BY <2>1, <3>1, <3>5, <3>6, SignStep
  <2> QED
    BY <2>2, <2>3
<1>3. ASSUME NEW j \in Nodes, SignOne(j, text, rehash, o)
      PROVE  IInv'
  <2> DEFINE signature == [index |-> IndexInFile(j), point |-> ShareOf(j, text, rehash)]
  <2>1. /\ runs < MaxRuns /\ runs' = runs + 1 /\ latest' = o /\ disk' = Opened(o)
        /\ drawn' = drawn
    BY <1>3 DEF SignOne
  <2>2. CASE BytesOf[text, rehash] = Invalid \/ ~Readable(KeyFile(j))
    <3>1. todo' = <<>>
      BY <1>3, <2>2 DEF SignOne
    <3> QED
      BY <2>1, <3>1, SignStep
  <2>3. CASE BytesOf[text, rehash] # Invalid /\ Readable(KeyFile(j))
    <3>1. todo' = <<Write(HashJson, text), Write(Out(o), signature)>>
      BY <1>3, <2>3 DEF SignOne, HashAndSignature
    <3>2. /\ ShareOf(j, text, rehash) \in Points
          /\ ShareOf(j, text, rehash).bytes = BytesOf[text, rehash]
      BY <1>1, <2>3, ShareFacts
    <3>3. signature \in Signatures /\ signature.point = ShareOf(j, text, rehash)
      BY <3>2 DEF Signatures, IndexInFile
    <3>4. Fits(signature.point, text)
      BY <3>2, <3>3 DEF Fits
    <3> HIDE DEF signature
    <3> QED
      BY <2>1, <3>1, <3>3, <3>4, SignStep
  <2> QED
    BY <2>2, <2>3
<1> QED
  BY <1>2, <1>3 DEF SignBls

LEMMA BlsGlueStep ==
  ASSUME IInv, NEW ins \in SUBSET Outs, NEW o \in Outs, BlsGlue(ins, o)
  PROVE  IInv'
PROOF
<1> DEFINE S == SharesIn(ins)
           signature == [index |-> NoIndex, point |-> Recovered(S)]
<1>1. /\ disk' = Opened(o) /\ runs' = runs /\ drawn' = drawn
      /\ latest' = (IF o = latest THEN NoOut ELSE latest)
      /\ todo' = IF ~Combinable(disk', ins) THEN <<>> ELSE <<Write(Out(o), signature)>>
  BY DEF BlsGlue
<1>2. TypeOK /\ latest \in Outs \cup {NoOut} /\ NoOut \notin Outs
  BY FileConstants DEF IInv, TypeOK
<1>3. /\ DOMAIN disk' = Names /\ disk'[Out(o)] = Unreadable
      /\ disk'[Common] = disk[Common] /\ disk'[HashJson] = disk[HashJson]
      /\ \A j \in Nodes : /\ disk'[KeyFile(j)] = disk[KeyFile(j)]
                          /\ disk'[DataFile(j)] = disk[DataFile(j)]
      /\ \A p \in Outs : p # o => disk'[Out(p)] = disk[Out(p)]
      /\ \A n \in Names : disk'[n] \in Holds(n) \cup {Unreadable}
  BY <1>1, <1>2, OpenedFacts
<1>4. ASSUME Combinable(disk', ins) PROVE signature \in Signatures
  <2>1. \A i \in ins : disk'[Out(i)] # Unreadable
    BY <1>4 DEF Combinable
  <2>2. \A i \in ins : disk[Out(i)] \in Signatures
    BY <1>2, <1>3, <2>1, ReadFacts DEF Readable
  <2>3. ins # {}
    BY <1>4, FS_EmptySet, NodeFacts DEF Combinable
  <2>4. S # {} /\ \A s \in S : s.point \in Points
    <3>1. \A s \in S : \E i \in ins : s.point = disk[Out(i)].point
      BY DEF SharesIn
    <3>2. S # {}
      BY <2>3 DEF SharesIn
    <3>3. \A i \in ins : disk[Out(i)].point \in Points
      BY <2>2 DEF Signatures
    <3> QED
      BY <3>1, <3>2, <3>3, Zenon
  <2>5. Recovered(S) \in Points
    <3> HIDE DEF S
    <3> QED
      BY <2>4, RecoveredFacts
  <2> QED
    BY <2>5 DEF Signatures
<1> HIDE DEF signature
<1>5. TypeOK'
  <2>1. todo' \in Seq(Writes)
    BY <1>1, <1>4, OutputWrites
  <2>2. latest' \in Outs \cup {NoOut}
    BY <1>1, <1>2
  <2> QED
    BY <1>1, <1>3, <2>1, <2>2 DEF IInv, TypeOK
<1>6. OnlyDrawn'
  BY <1>1, <1>3 DEF IInv, OnlyDrawn, Readable
<1>7. OneToolAtWork'
  <2>1. CASE todo' = <<>>
    BY <2>1 DEF OneToolAtWork, Idle
  <2>2. CASE todo' # <<>>
    <3>1. PICK x : x = signature
      OBVIOUS
    <3>2. todo' = <<Write(Out(o), x)>> /\ o # latest'
      BY <1>1, <1>2, <2>2, <3>1
    <3>3. SignatureLeft(o, x)'
      BY <3>2 DEF SignatureLeft
    <3>4. todo'[1].name = Out(o) /\ todo'[1].content = x
      BY <3>2 DEF Write
    <3> QED
      BY <3>3, <3>4 DEF OneToolAtWork
  <2> QED
    BY <2>1, <2>2
<1>8. LatestFits'
  <2>1. latest' # NoOut => latest' = latest /\ latest \in Outs /\ latest # o
    BY <1>1, <1>2
  <2> QED
    BY <1>3, <2>1 DEF IInv, LatestFits, Readable
<1>9. WholeOrReplaced'
  <2>1. 0 \in Nodes
    BY NodeFacts
  <2> QED
    BY <1>3, <2>1 DEF IInv, WholeOrReplaced, Readable
<1> QED
  BY <1>5, <1>6, <1>7, <1>8, <1>9 DEF IInv

LEMMA ShortSequences ==
  ASSUME NEW s \in Seq(Writes)
  PROVE  /\ Len(s) = 0 => s = <<>>
         /\ Len(s) = 1 => s = <<s[1]>>
PROOF
<1>1. Len(s) = 0 => s = <<>>
  BY EmptySeq
<1>2. ASSUME Len(s) = 1 PROVE s = <<s[1]>>
  <2>1. s[1] \in Writes
    BY <1>2
  <2>2. <<s[1]>> \in Seq(Writes) /\ Len(<<s[1]>>) = 1 /\ <<s[1]>>[1] = s[1]
    BY <2>1
  <2>3. \A i \in 1..Len(s) : s[i] = <<s[1]>>[i]
    BY <1>2
  <2> QED
    BY <1>2, <2>2, <2>3, SeqEqual
<1> QED
  BY <1>1, <1>2

\* Which tool is at work can be told from the next file.
LEMMA NextFile ==
  ASSUME IInv, ~Idle
  PROVE  /\ Len(todo) \in Nat /\ Len(todo) > 0 /\ Head(todo) = todo[1]
         /\ todo[1].name \in Names /\ todo[1].content \in Holds(todo[1].name)
         /\ Tail(todo) \in Seq(Writes) /\ Len(Tail(todo)) = Len(todo) - 1
         /\ \A i \in 1..(Len(todo) - 1) : Tail(todo)[i] = todo[i + 1]
         /\ \/ /\ todo[1].name \in KeyNames
               /\ \E done \in 0..N : \/ KeygenAtWork(todo[1].content, done)
                                     \/ GlueAtWork(todo[1].content, done)
            \/ \E j \in Nodes : todo[1].name = DataFile(j) /\ DataLeft(j, todo[1].content)
            \/ todo[1].name = HashJson /\ HashLeft(todo[1].content, todo[2].content)
            \/ \E o \in Outs : todo[1].name = Out(o) /\ SignatureLeft(o, todo[1].content)
PROOF
<1>1. todo \in Seq(Writes) /\ todo # <<>>
  BY DEF IInv, TypeOK, Idle
<1>2. /\ Len(todo) \in Nat /\ Len(todo) > 0 /\ Head(todo) = todo[1] /\ todo[1] \in Writes
      /\ Tail(todo) \in Seq(Writes) /\ Len(Tail(todo)) = Len(todo) - 1
      /\ \A i \in 1..(Len(todo) - 1) : Tail(todo)[i] = todo[i + 1]
  BY <1>1, TailFacts
<1>3. todo[1].name \in Names /\ todo[1].content \in Holds(todo[1].name)
  BY <1>2, WritesFacts
<1>4. OneToolAtWork
  BY DEF IInv
<1> QED
  BY <1>2, <1>3, <1>4 DEF OneToolAtWork

LEMMA InterruptStep == IInv /\ Interrupt => IInv'
PROOF
<1> SUFFICES ASSUME IInv, Interrupt PROVE IInv'
  OBVIOUS
<1> DEFINE name == todo[1].name
<1>1. /\ ~Idle /\ todo' = <<>> /\ runs' = runs /\ drawn' = drawn /\ latest' = latest
      /\ disk' = disk \/ disk' = [disk EXCEPT ![Head(todo).name] = Unreadable]
  BY DEF Interrupt
<1>2. TypeOK
  BY DEF IInv
<1>3. name \in Names /\ Head(todo).name = name
  BY <1>1, NextFile
<1>4. name = HashJson => latest # NoOut /\ ~Readable(Out(latest))
  <2>1. name = HashJson => HashLeft(todo[1].content, todo[2].content)
    BY <1>1, NextFile, NameFacts
  <2> QED
    BY <2>1 DEF HashLeft
<1> HIDE DEF name
<1>5. /\ DOMAIN disk' = Names
      /\ \A n \in Names : disk'[n] = disk[n] \/ (n = name /\ disk'[n] = Unreadable)
      /\ \A n \in Names : disk'[n] \in Holds(n) \cup {Unreadable}
  <2>1. CASE disk' = disk
    BY <1>2, <2>1 DEF TypeOK
  <2>2. CASE disk' = [disk EXCEPT ![name] = Unreadable]
    BY <1>2, <1>3, <2>2, DiskUpdate
  <2> QED
    BY <1>1, <1>3, <2>1, <2>2
<1>6. TypeOK'
  BY <1>1, <1>5 DEF IInv, TypeOK
<1>7. OnlyDrawn'
  BY <1>1, <1>5, NameFacts DEF IInv, OnlyDrawn, Readable
<1>8. OneToolAtWork'
  BY <1>1 DEF OneToolAtWork, Idle
<1>9. LatestFits'
  <2>1. latest \in Outs \cup {NoOut} /\ HashJson \in Names /\ \A o \in Outs : Out(o) \in Names
    BY NameFacts DEF IInv, TypeOK
  <2> SUFFICES ASSUME latest # NoOut, Readable(Out(latest))'
               PROVE  (Readable(HashJson) /\ Fits(disk[Out(latest)].point, disk[HashJson]))'
    BY <1>1 DEF LatestFits
  <2>2. disk'[Out(latest)] = disk[Out(latest)] /\ Readable(Out(latest))
    BY <1>1, <1>5, <2>1 DEF Readable
  <2>3. Readable(HashJson) /\ Fits(disk[Out(latest)].point, disk[HashJson])
    BY <2>2 DEF IInv, LatestFits
  <2>4. disk'[HashJson] = disk[HashJson]
    BY <1>4, <1>5, <2>1, <2>2
  <2> QED
    BY <1>1, <2>2, <2>3, <2>4 DEF Readable, Fits
<1>10. WholeOrReplaced'
  <2> SUFFICES ASSUME Readable(Common)', Glued(disk[Common])'
               PROVE  \/ \A j \in Nodes : disk'[KeyFile(j)] \in {disk'[Common], Unreadable}
                      \/ /\ disk'[KeyFile(0)] # disk'[Common]
                         /\ \E j \in Nodes : disk'[DataFile(j)] # disk'[Common][j]
    BY DEF WholeOrReplaced
  <2>1. /\ Common \in Names /\ 0 \in Nodes
        /\ \A j \in Nodes : KeyFile(j) \in Names /\ DataFile(j) \in Names
    BY NameFacts, NodeFacts
  <2>2. disk'[Common] = disk[Common] /\ Readable(Common) /\ Glued(disk[Common])
    BY <1>5, <2>1 DEF Readable, Glued
  <2>3. /\ disk[Common] # Unreadable
        /\ \A j \in Nodes : disk[Common][j] # Unreadable
    BY <1>2, <2>2, ReadFacts, UnreadableFacts DEF Readable, Generations
  <2>4. CASE \A j \in Nodes : disk[KeyFile(j)] \in {disk[Common], Unreadable}
    BY <1>5, <2>1, <2>2, <2>4
  <2>5. CASE /\ disk[KeyFile(0)] # disk[Common]
             /\ \E j \in Nodes : disk[DataFile(j)] # disk[Common][j]
    BY <1>5, <2>1, <2>2, <2>3, <2>5
  <2> QED
    BY <2>2, <2>4, <2>5 DEF IInv, WholeOrReplaced
<1> QED
  BY <1>6, <1>7, <1>8, <1>9, <1>10 DEF IInv

\* What a write does to the directory and to the list of files left, whichever
\* tool is at work.
LEMMA WriteNextFacts ==
  ASSUME IInv, WriteNext, NEW name, NEW content,
         name = todo[1].name, content = todo[1].content
  PROVE  /\ ~Idle /\ runs' = runs /\ drawn' = drawn /\ latest' = latest
         /\ name \in Names /\ content \in Holds(name)
         /\ disk'[name] = content /\ content # Unreadable
         /\ \A n \in Names : n # name => disk'[n] = disk[n]
         /\ todo' \in Seq(Writes) /\ Len(todo) \in Nat /\ Len(todo) > 0
         /\ Len(todo') = Len(todo) - 1
         /\ \A i \in 1..(Len(todo) - 1) : todo'[i] = todo[i + 1]
         /\ TypeOK'
PROOF
<1>1. /\ ~Idle /\ runs' = runs /\ drawn' = drawn /\ latest' = latest
      /\ disk' = [disk EXCEPT ![Head(todo).name] = Head(todo).content]
      /\ todo' = Tail(todo)
  BY DEF WriteNext
<1>2. TypeOK
  BY DEF IInv
<1>3. /\ name \in Names /\ content \in Holds(name) /\ content # Unreadable
      /\ disk' = [disk EXCEPT ![name] = content]
      /\ todo' \in Seq(Writes) /\ Len(todo) \in Nat /\ Len(todo) > 0
      /\ Len(todo') = Len(todo) - 1
      /\ \A i \in 1..(Len(todo) - 1) : todo'[i] = todo[i + 1]
  BY <1>1, NextFile, UnreadableFacts
<1>4. /\ DOMAIN disk' = Names /\ disk'[name] = content
      /\ \A n \in Names : n # name => disk'[n] = disk[n]
      /\ \A n \in Names : disk'[n] \in Holds(n) \cup {Unreadable}
  BY <1>2, <1>3, DiskUpdate
<1>5. TypeOK'
  BY <1>1, <1>3, <1>4 DEF IInv, TypeOK
<1> QED
  BY <1>1, <1>3, <1>4, <1>5

\* Key files and participants' data have nothing to do with signatures.
LEMMA LatestUntouched ==
  ASSUME IInv, latest' = latest, disk'[HashJson] = disk[HashJson],
         \A o \in Outs : disk'[Out(o)] = disk[Out(o)]
  PROVE  LatestFits'
PROOF
<1>1. latest # NoOut => latest \in Outs
  BY DEF IInv, TypeOK
<1> QED
  BY <1>1 DEF IInv, LatestFits, Readable, Fits

\* Nor the other way round.
LEMMA KeysUntouched ==
  ASSUME IInv, runs' = runs, drawn' = drawn, disk'[Common] = disk[Common],
         \A j \in Nodes : /\ disk'[KeyFile(j)] = disk[KeyFile(j)]
                          /\ disk'[DataFile(j)] = disk[DataFile(j)]
  PROVE  OnlyDrawn' /\ WholeOrReplaced'
PROOF
<1>1. 0 \in Nodes
  BY NodeFacts
<1> QED
  BY <1>1 DEF IInv, OnlyDrawn, WholeOrReplaced, Readable

LEMMA WriteKeygen ==
  ASSUME IInv, WriteNext, NEW gen, NEW done \in 0..N,
         gen = todo[1].content, todo[1].name \in KeyNames, KeygenAtWork(gen, done)
  PROVE  IInv'
PROOF
<1>1. PICK name : name = todo[1].name
  OBVIOUS
<1>2. /\ runs' = runs /\ drawn' = drawn /\ latest' = latest
      /\ disk'[name] = gen /\ gen # Unreadable /\ gen \in Generations
      /\ \A n \in Names : n # name => disk'[n] = disk[n]
      /\ todo' \in Seq(Writes) /\ Len(todo) > 0 /\ Len(todo') = Len(todo) - 1
      /\ \A i \in 1..(Len(todo) - 1) : todo'[i] = todo[i + 1]
      /\ TypeOK' /\ name \in KeyNames
  BY <1>1, WriteNextFacts, HoldsFacts
<1>3. /\ Len(todo) = N + 1 - done
      /\ \A i \in 1..(N + 1 - done) :
             todo[i] = Write(IF done + i = 1 THEN Common ELSE KeyFile(done + i - 2), gen)
      /\ \A j \in Nodes : ~gen[j].alone /\ gen[j].run <= drawn[j]
      /\ done > 0 => disk[Common] = gen
  BY DEF KeygenAtWork
<1>4. N \in Nat /\ done \in Nat /\ done <= N
  BY NodeFacts
<1>5. name = IF done = 0 THEN Common ELSE KeyFile(done - 1)
  <2>1. 1 \in 1..(N + 1 - done) /\ done + 1 - 2 = done - 1 /\ (done + 1 = 1 <=> done = 0)
    BY <1>4
  <2>2. todo[1] = Write(IF done + 1 = 1 THEN Common ELSE KeyFile(done + 1 - 2), gen)
    BY <1>3, <2>1
  <2> QED
    BY <1>1, <2>1, <2>2 DEF Write
<1>6. disk'[Common] = gen
  <2>1. done # 0 => Common # name
    <3> SUFFICES ASSUME done # 0 PROVE Common # name
      OBVIOUS
    <3>1. done - 1 \in Nodes
      BY <1>4 DEF Nodes
    <3> QED
      BY <1>5, <3>1, DistinctNames
  <2> QED
    BY <1>2, <1>3, <1>4, <1>5, <2>1, NameFacts
<1>7. /\ disk'[HashJson] = disk[HashJson]
      /\ \A o \in Outs : disk'[Out(o)] = disk[Out(o)]
      /\ \A j \in Nodes : disk'[DataFile(j)] = disk[DataFile(j)]
  BY <1>2, NameFacts
<1>8. OnlyDrawn'
  BY <1>2, <1>3, <1>6, <1>7 DEF IInv, OnlyDrawn, Readable
<1>9. OneToolAtWork'
  <2>1. CASE done = N
    <3>1. Len(todo') = 0
      BY <1>2, <1>3, <1>4, <2>1
    <3> QED
      BY <1>2, <3>1, ShortSequences DEF OneToolAtWork, Idle
  <2>2. CASE done # N
    <3>1. /\ done + 1 \in 0..N /\ Len(todo') = N + 1 - (done + 1)
          /\ 1 \in 1..Len(todo')
      BY <1>2, <1>3, <1>4, <2>2
    <3>2. ASSUME NEW i \in 1..Len(todo')
          PROVE  todo'[i] = Write(IF (done + 1) + i = 1 THEN Common
                                  ELSE KeyFile((done + 1) + i - 2), gen)
      <4>1. i \in 1..(Len(todo) - 1) /\ i + 1 \in 1..(N + 1 - done)
        BY <1>2, <1>3, <1>4, <3>1
      <4>2. done + (i + 1) = (done + 1) + i
        BY <1>4, <4>1
      <4> QED
        BY <1>2, <1>3, <4>1, <4>2
    <3>3. KeygenAtWork(gen, done + 1)'
      BY <1>2, <1>3, <1>6, <3>1, <3>2 DEF KeygenAtWork
    <3>4. todo'[1] = Write(KeyFile((done + 1) + 1 - 2), gen)
      BY <1>4, <3>1, <3>2
    <3>5. (done + 1) + 1 - 2 \in Nodes
      BY <1>4, <2>2 DEF Nodes
    <3>6. todo'[1].name \in KeyNames /\ todo'[1].content = gen
      BY <3>4, <3>5, NameFacts DEF Write
    <3> QED
      BY <3>1, <3>3, <3>6 DEF OneToolAtWork
  <2> QED
    BY <2>1, <2>2
<1>10. LatestFits'
  BY <1>2, <1>7, LatestUntouched
<1>11. WholeOrReplaced'
  BY <1>3, <1>6, NodeFacts DEF WholeOrReplaced, Glued
<1> QED
  BY <1>2, <1>8, <1>9, <1>10, <1>11 DEF IInv

LEMMA WriteGlue ==
  ASSUME IInv, WriteNext, NEW gen, NEW done \in 0..N,
         gen = todo[1].content, todo[1].name \in KeyNames, GlueAtWork(gen, done)
  PROVE  IInv'
PROOF
<1>1. PICK name : name = todo[1].name
  OBVIOUS
<1>2. /\ runs' = runs /\ drawn' = drawn /\ latest' = latest
      /\ disk'[name] = gen /\ gen # Unreadable /\ gen \in Generations
      /\ \A n \in Names : n # name => disk'[n] = disk[n]
      /\ todo' \in Seq(Writes) /\ Len(todo) > 0 /\ Len(todo') = Len(todo) - 1
      /\ \A i \in 1..(Len(todo) - 1) : todo'[i] = todo[i + 1]
      /\ TypeOK' /\ name \in KeyNames
  BY <1>1, WriteNextFacts, HoldsFacts
<1>3. /\ Len(todo) = N + 1 - done
      /\ \A i \in 1..(N + 1 - done) :
             todo[i] = Write(IF done + i = N + 1 THEN Common ELSE KeyFile(done + i - 1), gen)
      /\ \A j \in Nodes : gen[j] = disk[DataFile(j)]
      /\ \A j \in Nodes : j < done => disk[KeyFile(j)] = gen
  BY DEF GlueAtWork, ParticipantsData
<1>4. N \in Nat /\ done \in Nat /\ done <= N
  BY NodeFacts
<1>5. name = IF done = N THEN Common ELSE KeyFile(done)
  <2>1. 1 \in 1..(N + 1 - done) /\ done + 1 - 1 = done /\ (done + 1 = N + 1 <=> done = N)
    BY <1>4
  <2>2. todo[1] = Write(IF done + 1 = N + 1 THEN Common ELSE KeyFile(done + 1 - 1), gen)
    BY <1>3, <2>1
  <2> QED
    BY <1>1, <2>1, <2>2 DEF Write
<1>6. done # N => done \in Nodes /\ name = KeyFile(done) /\ disk'[Common] = disk[Common]
  <2> SUFFICES ASSUME done # N
               PROVE  done \in Nodes /\ name = KeyFile(done) /\ disk'[Common] = disk[Common]
    OBVIOUS
  <2>1. done \in Nodes
    BY <1>4 DEF Nodes
  <2> QED
    BY <1>2, <1>5, <2>1, DistinctNames, NameFacts
<1>7. /\ disk'[HashJson] = disk[HashJson]
      /\ \A o \in Outs : disk'[Out(o)] = disk[Out(o)]
      /\ \A j \in Nodes : disk'[DataFile(j)] = disk[DataFile(j)]
  BY <1>2, NameFacts
<1>8. \A j \in Nodes : j < done + 1 => disk'[KeyFile(j)] = gen
  <2> SUFFICES ASSUME NEW j \in Nodes, j < done + 1 PROVE disk'[KeyFile(j)] = gen
    OBVIOUS
  <2>1. CASE j = done
    <3>1. done # N
      BY <1>4, <2>1 DEF Nodes
    <3> QED
      BY <1>2, <1>6, <2>1, <3>1
  <2>2. CASE j # done
    <3>1. j < done /\ KeyFile(j) # name
      <4>1. j < done
        BY <1>4, <2>2, NodeFacts
      <4> QED
        BY <1>5, <1>6, <2>2, <4>1, DistinctNames
    <3> QED
      BY <1>2, <1>3, <3>1, NameFacts
  <2> QED
    BY <2>1, <2>2
<1>9. OnlyDrawn'
  <2>1. \A j \in Nodes : gen[j] # Unreadable
    BY <1>2, UnreadableFacts DEF Generations
  <2>2. \A j \in Nodes : gen[j].run <= drawn[j]
    BY <1>3, <2>1 DEF IInv, OnlyDrawn, Readable
  <2>3. disk'[Common] = disk[Common] \/ disk'[Common] = gen
    BY <1>2, <1>5, <1>6
  <2> QED
    BY <1>2, <1>7, <2>2, <2>3 DEF IInv, OnlyDrawn, Readable
<1>10. OneToolAtWork'
  <2>1. CASE done = N
    <3>1. Len(todo') = 0
      BY <1>2, <1>3, <1>4, <2>1
    <3> QED
      BY <1>2, <3>1, ShortSequences DEF OneToolAtWork, Idle
  <2>2. CASE done # N
    <3>1. /\ done + 1 \in 0..N /\ Len(todo') = N + 1 - (done + 1)
          /\ 1 \in 1..Len(todo')
      BY <1>2, <1>3, <1>4, <2>2
    <3>2. ASSUME NEW i \in 1..Len(todo')
          PROVE  todo'[i] = Write(IF (done + 1) + i = N + 1 THEN Common
                                  ELSE KeyFile((done + 1) + i - 1), gen)
      <4>1. i \in 1..(Len(todo) - 1) /\ i + 1 \in 1..(N + 1 - done)
        BY <1>2, <1>3, <1>4, <3>1
      <4>2. done + (i + 1) = (done + 1) + i
        BY <1>4, <4>1
      <4> QED
        BY <1>2, <1>3, <4>1, <4>2
    <3>3. gen = ParticipantsData'
      BY <1>2, <1>3, <1>7 DEF ParticipantsData, Generations
    <3>4. GlueAtWork(gen, done + 1)'
      BY <1>8, <3>1, <3>2, <3>3 DEF GlueAtWork
    <3>5. todo'[1].name \in KeyNames /\ todo'[1].content = gen
      <4>1. todo'[1] = Write(IF (done + 1) + 1 = N + 1 THEN Common
                             ELSE KeyFile((done + 1) + 1 - 1), gen)
        BY <3>1, <3>2
      <4>2. (done + 1) + 1 # N + 1 => (done + 1) + 1 - 1 \in Nodes
        BY <1>4, <2>2 DEF Nodes
      <4> QED
        BY <4>1, <4>2, NameFacts DEF Write
    <3> QED
      BY <3>1, <3>4, <3>5 DEF OneToolAtWork
  <2> QED
    BY <2>1, <2>2
<1>11. LatestFits'
  BY <1>2, <1>7, LatestUntouched
<1>12. WholeOrReplaced'
  <2> SUFFICES ASSUME Readable(Common)', Glued(disk[Common])'
               PROVE  \/ \A j \in Nodes : disk'[KeyFile(j)] \in {disk'[Common], Unreadable}
                      \/ /\ disk'[KeyFile(0)] # disk'[Common]
                         /\ \E j \in Nodes : disk'[DataFile(j)] # disk'[Common][j]
    BY DEF WholeOrReplaced
  <2>1. CASE done = N
    <3>1. disk'[Common] = gen
      BY <1>2, <1>5, <2>1
    <3>2. \A j \in Nodes : j < done + 1
      BY <1>4, <2>1 DEF Nodes
    <3> QED
      BY <1>8, <3>1, <3>2
  <2>2. CASE done # N
    <3>1. PICK common : common = disk[Common]
      OBVIOUS
    <3>2. disk'[Common] = common /\ Readable(Common) /\ Glued(common) /\ name = KeyFile(done)
      BY <1>6, <2>2, <3>1 DEF Readable, Glued
    <3>3. common \in Generations
      BY <3>1, <3>2, ReadFacts DEF IInv
    <3>4. \/ \A j \in Nodes : disk[KeyFile(j)] \in {common, Unreadable}
          \/ disk[KeyFile(0)] # common /\ \E j \in Nodes : gen[j] # common[j]
      BY <1>3, <3>1, <3>2 DEF IInv, WholeOrReplaced
    <3>5. CASE gen = common
      <4>1. \A j \in Nodes : disk[KeyFile(j)] \in {common, Unreadable}
        BY <3>4, <3>5
      <4>2. \A j \in Nodes : disk'[KeyFile(j)] = gen \/ disk'[KeyFile(j)] = disk[KeyFile(j)]
        BY <1>2, NameFacts
      <4> QED
        BY <3>2, <3>5, <4>1, <4>2
    <3>6. CASE gen # common
      <4>1. \E j \in Nodes : gen[j] # common[j]
        BY <1>2, <3>3, <3>6 DEF Generations
      <4>2. 0 \in Nodes /\ 0 < done + 1
        BY <1>4, NodeFacts
      <4>3. disk'[KeyFile(0)] = gen
        BY <1>8, <4>2
      <4> QED
        BY <1>3, <1>7, <3>2, <3>6, <4>1, <4>3
    <3> QED
      BY <3>5, <3>6
  <2> QED
    BY <2>1, <2>2
<1> QED
  BY <1>2, <1>9, <1>10, <1>11, <1>12 DEF IInv

LEMMA WriteData ==
  ASSUME IInv, WriteNext, NEW j \in Nodes, NEW pol,
         pol = todo[1].content, todo[1].name = DataFile(j), DataLeft(j, pol)
  PROVE  IInv'
PROOF
<1>1. /\ runs' = runs /\ drawn' = drawn /\ latest' = latest
      /\ disk'[DataFile(j)] = pol /\ pol # Unreadable
      /\ \A n \in Names : n # DataFile(j) => disk'[n] = disk[n]
      /\ todo' \in Seq(Writes) /\ Len(todo') = Len(todo) - 1
      /\ TypeOK' /\ DataFile(j) \in DataNames
  BY WriteNextFacts, NameFacts
<1>2. /\ Len(todo) = 1 /\ pol.run = drawn[j]
      /\ Readable(Common) => disk[Common][j] # pol
  BY DEF DataLeft
<1>3. /\ disk'[HashJson] = disk[HashJson] /\ disk'[Common] = disk[Common]
      /\ \A o \in Outs : disk'[Out(o)] = disk[Out(o)]
      /\ \A i \in Nodes : disk'[KeyFile(i)] = disk[KeyFile(i)]
      /\ \A i \in Nodes : i # j => disk'[DataFile(i)] = disk[DataFile(i)]
  BY <1>1, NameFacts, DistinctNames
<1>4. OnlyDrawn'
  <2>1. drawn[j] \in Nat
    BY DEF IInv, TypeOK
  <2> QED
    BY <1>1, <1>2, <1>3, <2>1 DEF IInv, OnlyDrawn, Readable
<1>5. OneToolAtWork'
  BY <1>1, <1>2, ShortSequences DEF OneToolAtWork, Idle
<1>6. LatestFits'
  BY <1>1, <1>3, LatestUntouched
<1>7. WholeOrReplaced'
  <2>1. \A i \in Nodes : disk[DataFile(i)] # disk[Common][i] /\ Readable(Common) =>
              disk'[DataFile(i)] # disk[Common][i]
    BY <1>1, <1>2, <1>3
  <2>2. 0 \in Nodes
    BY NodeFacts
  <2> QED
    BY <1>3, <2>1, <2>2 DEF IInv, WholeOrReplaced, Readable, Glued
<1> QED
  BY <1>1, <1>4, <1>5, <1>6, <1>7 DEF IInv

LEMMA WriteHash ==
  ASSUME IInv, WriteNext, NEW text, NEW signature,
         text = todo[1].content, signature = todo[2].content,
         todo[1].name = HashJson, HashLeft(text, signature)
  PROVE  IInv'
PROOF
<1>1. /\ runs' = runs /\ drawn' = drawn /\ latest' = latest
      /\ disk'[HashJson] = text /\ text # Unreadable
      /\ \A n \in Names : n # HashJson => disk'[n] = disk[n]
      /\ todo' \in Seq(Writes) /\ Len(todo') = Len(todo) - 1
      /\ \A i \in 1..(Len(todo) - 1) : todo'[i] = todo[i + 1]
      /\ TypeOK'
  BY WriteNextFacts
<1>2. /\ latest # NoOut /\ latest \in Outs
      /\ Len(todo) = 2 /\ todo[2] = Write(Out(latest), signature)
      /\ ~Readable(Out(latest)) /\ Fits(signature.point, text)
  BY DEF HashLeft, IInv, TypeOK
<1>3. /\ disk'[Common] = disk[Common] /\ disk'[Out(latest)] = disk[Out(latest)]
      /\ \A i \in Nodes : /\ disk'[KeyFile(i)] = disk[KeyFile(i)]
                          /\ disk'[DataFile(i)] = disk[DataFile(i)]
  BY <1>1, <1>2, NameFacts
<1>4. OnlyDrawn' /\ WholeOrReplaced'
  BY <1>1, <1>3, KeysUntouched
<1>5. OneToolAtWork'
  <2>1. PICK o : o = latest
    OBVIOUS
  <2>2. todo' = <<Write(Out(o), signature)>>
    <3>1. Len(todo') = 1 /\ todo'[1] = todo[2]
      <4>1. 1 \in 1..(Len(todo) - 1) /\ Len(todo) - 1 = 1
        BY <1>2
      <4>2. todo'[1] = todo[1 + 1]
        BY <1>1, <4>1, Zenon
      <4>3. Len(todo') = 1
        BY <1>1, <4>1, Zenon
      <4>4. 1 + 1 = 2
        OBVIOUS
      <4> QED
        BY <4>2, <4>3, <4>4, Zenon
    <3> QED
      BY <1>1, <1>2, <2>1, <3>1, ShortSequences
  <2>3. SignatureLeft(o, signature)'
    BY <1>1, <1>2, <2>2 DEF SignatureLeft, Readable, Fits
  <2>4. todo'[1].name = Out(o) /\ todo'[1].content = signature
    BY <2>2 DEF Write
  <2> QED
    BY <1>2, <2>1, <2>3, <2>4 DEF OneToolAtWork
<1>6. LatestFits'
  BY <1>1, <1>2, <1>3 DEF LatestFits, Readable
<1> QED
  BY <1>1, <1>4, <1>5, <1>6 DEF IInv

LEMMA WriteSignature ==
  ASSUME IInv, WriteNext, NEW o \in Outs, NEW signature,
         signature = todo[1].content, todo[1].name = Out(o), SignatureLeft(o, signature)
  PROVE  IInv'
PROOF
<1>1. /\ runs' = runs /\ drawn' = drawn /\ latest' = latest
      /\ disk'[Out(o)] = signature
      /\ \A n \in Names : n # Out(o) => disk'[n] = disk[n]
      /\ todo' \in Seq(Writes) /\ Len(todo') = Len(todo) - 1
      /\ TypeOK' /\ Out(o) \in OutNames
  BY WriteNextFacts, NameFacts
<1>2. /\ Len(todo) = 1
      /\ o = latest => Readable(HashJson) /\ Fits(signature.point, disk[HashJson])
  BY DEF SignatureLeft
<1>3. /\ disk'[Common] = disk[Common] /\ disk'[HashJson] = disk[HashJson]
      /\ \A i \in Nodes : /\ disk'[KeyFile(i)] = disk[KeyFile(i)]
                          /\ disk'[DataFile(i)] = disk[DataFile(i)]
      /\ \A p \in Outs : p # o => disk'[Out(p)] = disk[Out(p)]
  BY <1>1, NameFacts, DistinctNames
<1>4. OnlyDrawn' /\ WholeOrReplaced'
  BY <1>1, <1>3, KeysUntouched
<1>5. OneToolAtWork'
  BY <1>1, <1>2, ShortSequences DEF OneToolAtWork, Idle
<1>6. LatestFits'
  <2>1. latest # NoOut => latest \in Outs
    BY DEF IInv, TypeOK
  <2>2. CASE latest = o
    BY <1>1, <1>2, <1>3, <2>2 DEF LatestFits, Readable, Fits
  <2>3. CASE latest # o
    BY <1>1, <1>3, <2>1, <2>3 DEF IInv, LatestFits, Readable, Fits
  <2> QED
    BY <2>2, <2>3
<1> QED
  BY <1>1, <1>4, <1>5, <1>6 DEF IInv

LEMMA WriteStep == IInv /\ WriteNext => IInv'
PROOF
<1> SUFFICES ASSUME IInv, WriteNext PROVE IInv'
  OBVIOUS
<1>1. ~Idle
  BY DEF WriteNext
<1>2. PICK content, second : content = todo[1].content /\ second = todo[2].content
  OBVIOUS
<1>3. ASSUME todo[1].name \in KeyNames,
             NEW done \in 0..N, KeygenAtWork(content, done) \/ GlueAtWork(content, done)
      PROVE  IInv'
  BY <1>2, <1>3, WriteKeygen, WriteGlue
<1>4. ASSUME NEW j \in Nodes, todo[1].name = DataFile(j), DataLeft(j, content)
      PROVE  IInv'
  BY <1>2, <1>4, WriteData
<1>5. ASSUME todo[1].name = HashJson, HashLeft(content, second)
      PROVE  IInv'
  BY <1>2, <1>5, WriteHash
<1>6. ASSUME NEW o \in Outs, todo[1].name = Out(o), SignatureLeft(o, content)
      PROVE  IInv'
  BY <1>2, <1>6, WriteSignature
<1> QED
  BY <1>1, <1>2, <1>3, <1>4, <1>5, <1>6, NextFile

\* The invariant that all safety properties below follow from.
THEOREM Invariant == Spec => []IInv
PROOF
<1>1. IInv /\ [Next]_vars => IInv'
  <2> SUFFICES ASSUME IInv, [Next]_vars PROVE IInv'
    OBVIOUS
  <2>1. CASE UNCHANGED vars
    <3>1. TypeOK' /\ OnlyDrawn'
      BY <2>1 DEF IInv, vars, TypeOK, OnlyDrawn, Readable
    <3>2. OneToolAtWork'
      BY <2>1 DEF IInv, vars, OneToolAtWork, Idle, KeygenAtWork, GlueAtWork,
         ParticipantsData, DataLeft, HashLeft, SignatureLeft, Readable, Fits
    <3>3. LatestFits' /\ WholeOrReplaced'
      BY <2>1 DEF IInv, vars, LatestFits, WholeOrReplaced, Readable, Fits, Glued
    <3> QED
      BY <3>1, <3>2, <3>3 DEF IInv
  <2>2. CASE DkgKeygen
    BY <2>2, KeygenStep, KeygenOfStep DEF DkgKeygen
  <2>3. CASE DkgGlue
    BY <2>3, GlueStep
  <2>4. CASE \E text \in Texts, rehash \in BOOLEAN, o \in Outs : SignBls(text, rehash, o)
    BY <2>4, SignBlsStep
  <2>5. CASE \E ins \in SUBSET Outs, o \in Outs : Cardinality(ins) \in 1..T /\ BlsGlue(ins, o)
    BY <2>5, BlsGlueStep
  <2>6. CASE WriteNext
    BY <2>6, WriteStep
  <2>7. CASE Interrupt
    BY <2>7, InterruptStep
  <2> QED
    BY <2>1, <2>2, <2>3, <2>4, <2>5, <2>6, <2>7 DEF Next
<1> QED
  BY <1>1, InitInv, PTL DEF Spec

\* Every file holds what its name says or cannot be read, however the tools were
\* interrupted.
THEOREM TypeCorrect == Spec => []TypeOK
PROOF
<1>1. IInv => TypeOK
  BY DEF IInv
<1> QED
  BY <1>1, Invariant, PTL

-----------------------------------------------------------------------------
(* The safety properties.                                                  *)

\* What can be read in the output of the latest run of sign_bls is what
\* verify_bls accepts, as long as the key is there.
THEOREM LatestSignature == Spec => []LatestSignatureVerifies
PROOF
<1>1. IInv => LatestSignatureVerifies
  <2> DEFINE signature == disk[Out(latest)]
             point == signature.point
  <2> SUFFICES ASSUME IInv, latest # NoOut, Readable(Out(latest)), point # Garbled,
                      disk[KeyAt(point.at)] = point.gen
               PROVE  \E rehash \in BOOLEAN : VerifyBls(latest, rehash, point.at)
    BY DEF LatestSignatureVerifies
  <2>1. TypeOK /\ latest \in Outs
    BY DEF IInv, TypeOK
  <2>2. signature \in Signatures
    BY <2>1, ReadFacts
  <2>3. point \in [bytes : Bytes, gen : Generations, at : 0..N]
    BY <2>2 DEF Signatures, Points, Values
  <2>4. /\ point = [bytes |-> point.bytes, gen |-> point.gen, at |-> point.at]
        /\ point.bytes \in Bytes /\ point.gen \in Generations
    BY <2>3
  <2>5. Readable(HashJson) /\ Fits(point, disk[HashJson])
    BY DEF IInv, LatestFits
  <2>6. PICK rehash \in BOOLEAN : BytesOf[disk[HashJson], rehash] = point.bytes
    BY <2>5 DEF Fits
  <2>7. Readable(KeyAt(point.at))
    BY <2>4, UnreadableFacts DEF Readable
  <2>8. BytesOf[disk[HashJson], rehash] # Invalid
    BY <2>4, <2>6, FileConstants
  <2>9. point = [bytes |-> BytesOf[disk[HashJson], rehash],
                 gen |-> disk[KeyAt(point.at)], at |-> point.at]
    BY <2>4, <2>6
  <2>10. PassesWith(point, rehash, point.at)
    <3> HIDE DEF signature, point
    <3> QED
      BY <2>5, <2>7, <2>8, <2>9 DEF PassesWith
  <2> QED
    BY <2>10 DEF VerifyBls
<1> QED
  BY <1>1, Invariant, PTL

\* If the first T keys still sign for the common key of dkg_glue, any T do.
THEOREM GluedKeys == Spec => []GluedKeysAreWhole
PROOF
<1>1. IInv => GluedKeysAreWhole
  <2> SUFFICES ASSUME IInv, Readable(Common), Glued(disk[Common]),
                      SignedByAll = {disk[Common]},
                      NEW K \in SUBSET Nodes, Cardinality(K) = T
               PROVE  SignedBy(K) = {disk[Common]}
    BY DEF GluedKeysAreWhole
  <2>1. /\ \A j \in Nodes : Readable(KeyFile(j))
        /\ disk[KeyFile(0)] = disk[Common]
    <3>1. \A j \in Nodes : Readable(KeyFile(j))
      BY DEF SignedByAll
    <3>2. SignedByAll = {disk[KeyFile(j)] : j \in 0..(T - 1)}
      BY <3>1 DEF SignedByAll
    <3>3. disk[KeyFile(0)] \in SignedByAll
      BY <3>2, NodeFacts
    <3> QED
      BY <3>1, <3>3
  <2>2. \A j \in Nodes : disk[KeyFile(j)] = disk[Common]
    BY <2>1 DEF IInv, WholeOrReplaced, Readable
  <2>3. K # {}
    BY FS_EmptySet, NodeFacts
  <2> QED
    BY <2>2, <2>3 DEF SignedBy
<1> QED
  BY <1>1, Invariant, PTL

-----------------------------------------------------------------------------
(* Indices in the signature files.                                         *)

Untouched == \A o \in Outs : disk'[Out(o)] = disk[Out(o)] \/ disk'[Out(o)] = Unreadable

\* A tool that writes no signature with an index changes nothing.
LEMMA NothingIndexed ==
  ASSUME IndexedRight, Untouched,
         \A o \in Outs, i \in 1..Len(todo') : todo'[i].name = Out(o) =>
             RightIndex(todo'[i].content)
  PROVE  IndexedRight'
BY DEF IndexedRight, Untouched, Readable, RightIndex

LEMMA IndexedKeygen == IInv /\ IndexedRight /\ (DkgKeygen \/ DkgGlue) => IndexedRight'
PROOF
<1> SUFFICES ASSUME IInv, IndexedRight, DkgKeygen \/ DkgGlue PROVE IndexedRight'
  OBVIOUS
<1>1. disk' = disk
  BY DEF DkgKeygen, Keygen, KeygenOf, DkgGlue
<1>2. \A i \in 1..Len(todo') : todo'[i].name \in KeyNames \cup DataNames
  <2>1. CASE Keygen
    <3>1. PICK gen : gen = [j \in Nodes |-> Draw(j, FALSE)]
      OBVIOUS
    <3>2. gen \in Generations
      BY <2>1, <3>1, DrawFacts DEF Generations, Keygen
    <3>3. todo' = <<Write(Common, gen)>> \o KeyFilesOf(gen)
      BY <2>1, <3>1 DEF Keygen
    <3>4. /\ Len(todo') = N + 1
          /\ \A i \in 1..(N + 1) : todo'[i] = Write(IF i = 1 THEN Common ELSE KeyFile(i - 2), gen)
      BY <3>2, <3>3, KeygenWrites
    <3>5. \A i \in 1..(N + 1) : i # 1 => i - 2 \in Nodes
      BY NodeFacts DEF Nodes
    <3> QED
      BY <3>4, <3>5, NameFacts DEF Write
  <2>2. ASSUME NEW j \in Nodes, KeygenOf(j)
        PROVE  \A i \in 1..Len(todo') : todo'[i].name \in KeyNames \cup DataNames
    <3>1. todo' = <<Write(DataFile(j), Draw(j, TRUE))>>
      BY <2>2 DEF KeygenOf
    <3> QED
      BY <3>1, NameFacts DEF Write
  <2>3. CASE DkgGlue
    <3>1. PICK gen : gen = ParticipantsData
      OBVIOUS
    <3>2. gen \in Generations
      BY <2>3, <3>1, ReadFacts DEF IInv, DkgGlue, ParticipantsData, Generations
    <3>3. todo' = Append(KeyFilesOf(gen), Write(Common, gen))
      BY <2>3, <3>1 DEF DkgGlue
    <3>4. /\ Len(todo') = N + 1
          /\ \A i \in 1..(N + 1) : todo'[i] = Write(IF i = N + 1 THEN Common ELSE KeyFile(i - 1), gen)
      BY <3>2, <3>3, GlueWrites
    <3>5. \A i \in 1..(N + 1) : i # N + 1 => i - 1 \in Nodes
      BY NodeFacts DEF Nodes
    <3> QED
      BY <3>4, <3>5, NameFacts DEF Write
  <2> QED
    BY <2>1, <2>2, <2>3 DEF DkgKeygen
<1> QED
  BY <1>1, <1>2, NameFacts, NothingIndexed DEF Untouched

LEMMA IndexedSign ==
  ASSUME IInv, IndexedRight, NEW text \in Texts, NEW rehash \in BOOLEAN, NEW o \in Outs,
         SignBls(text, rehash, o)
  PROVE  IndexedRight'
PROOF
<1>1. TypeOK
  BY DEF IInv
<1>2. Untouched
  <2>1. disk' = Opened(o)
    BY DEF SignBls, SignAll, SignOne
  <2> QED
    BY <1>1, <2>1, OpenedFacts DEF Untouched
<1>3. ASSUME NEW p, p.index = NoIndex \/ RightIndex(p),
             todo' = <<Write(HashJson, text), Write(Out(o), p)>>
      PROVE  IndexedRight'
  <2>1. RightIndex(p)
    BY <1>3 DEF RightIndex
  <2>2. /\ Len(todo') = 2 /\ todo'[1].name = HashJson /\ todo'[2].content = p
    BY <1>3 DEF Write
  <2>3. \A q \in Outs, i \in 1..Len(todo') : todo'[i].name = Out(q) =>
             RightIndex(todo'[i].content)
    <3>1. \A i \in 1..2 : i = 1 \/ i = 2
      OBVIOUS
    <3> QED
      BY <2>1, <2>2, <3>1, NameFacts
  <2> QED
    BY <1>2, <2>3, NothingIndexed
<1>4. CASE todo' = <<>>
  <2>1. Len(todo') = 0
    BY <1>4
  <2> QED
    BY <1>2, <2>1, NothingIndexed
<1>5. CASE SignAll(text, rehash, o)
  <2>1. PICK point : point = Recovered({[index |-> j + 1, point |-> ShareOf(j, text, rehash)] :
                                            j \in 0..(T - 1)})
    OBVIOUS
  <2>2. \/ todo' = <<>>
        \/ todo' = <<Write(HashJson, text), Write(Out(o), [index |-> NoIndex, point |-> point])>>
    BY <1>5, <2>1 DEF SignAll, HashAndSignature
  <2>3. [index |-> NoIndex, point |-> point].index = NoIndex
    OBVIOUS
  <2> QED
    BY <1>3, <1>4, <2>2, <2>3
<1>6. ASSUME NEW j \in Nodes, SignOne(j, text, rehash, o), todo' # <<>>
      PROVE  IndexedRight'
  <2>1. /\ BytesOf[text, rehash] # Invalid /\ Readable(KeyFile(j))
        /\ todo' = <<Write(HashJson, text),
                     Write(Out(o), [index |-> j, point |-> ShareOf(j, text, rehash)])>>
    BY <1>6 DEF SignOne, HashAndSignature, IndexInFile
  <2>2. RightIndex([index |-> j, point |-> ShareOf(j, text, rehash)])
    BY <1>1, <2>1, ShareFacts DEF RightIndex
  <2> QED
    BY <1>3, <2>1, <2>2
<1> QED
  BY <1>4, <1>5, <1>6 DEF SignBls

LEMMA IndexedGlue ==
  ASSUME IInv, IndexedRight, NEW ins \in SUBSET Outs, NEW o \in Outs, BlsGlue(ins, o)
  PROVE  IndexedRight'
PROOF
<1>1. Untouched
  BY OpenedFacts DEF IInv, BlsGlue, Untouched
<1>2. PICK point : point = Recovered(SharesIn(ins))
  OBVIOUS
<1>3. \/ todo' = <<>>
      \/ todo' = <<Write(Out(o), [index |-> NoIndex, point |-> point])>>
  BY <1>2 DEF BlsGlue
<1>4. CASE todo' = <<>>
  <2>1. Len(todo') = 0
    BY <1>4
  <2> QED
    BY <1>1, <2>1, NothingIndexed
<1>5. CASE todo' = <<Write(Out(o), [index |-> NoIndex, point |-> point])>>
  <2>1. Len(todo') = 1 /\ todo'[1].content.index = NoIndex
    BY <1>5 DEF Write
  <2>2. \A q \in Outs, i \in 1..Len(todo') : RightIndex(todo'[i].content)
    BY <2>1 DEF RightIndex
  <2> QED
    BY <1>1, <2>2, NothingIndexed
<1> QED
  BY <1>3, <1>4, <1>5

LEMMA IndexedWrite == IInv /\ IndexedRight /\ (WriteNext \/ Interrupt) => IndexedRight'
PROOF
<1> SUFFICES ASSUME IInv, IndexedRight, WriteNext \/ Interrupt PROVE IndexedRight'
  OBVIOUS
<1>1. CASE WriteNext
  <2>1. PICK name, content : name = todo[1].name /\ content = todo[1].content
    OBVIOUS
  <2>2. /\ disk'[name] = content /\ \A n \in Names : n # name => disk'[n] = disk[n]
        /\ Len(todo) \in Nat /\ Len(todo) > 0 /\ Len(todo') = Len(todo) - 1
        /\ \A i \in 1..(Len(todo) - 1) : todo'[i] = todo[i + 1]
    BY <1>1, <2>1, WriteNextFacts
  <2>3. ASSUME NEW o \in Outs, Readable(Out(o))'
        PROVE  RightIndex(disk'[Out(o)])
    <3>1. CASE Out(o) = name
      BY <2>1, <2>2, <3>1 DEF IndexedRight
    <3>2. CASE Out(o) # name
      BY <2>2, <2>3, <3>2, NameFacts DEF IndexedRight, Readable
    <3> QED
      BY <3>1, <3>2
  <2>4. ASSUME NEW o \in Outs, NEW i \in 1..Len(todo'), todo'[i].name = Out(o)
        PROVE  RightIndex(todo'[i].content)
    <3>1. i + 1 \in 1..Len(todo) /\ todo'[i] = todo[i + 1]
      BY <2>2
    <3> QED
      BY <2>4, <3>1 DEF IndexedRight
  <2> QED
    BY <2>3, <2>4 DEF IndexedRight, RightIndex
<1>2. CASE Interrupt
  <2>1. Len(todo') = 0
    BY <1>2 DEF Interrupt
  <2>2. Untouched
    <3>1. ~Idle /\ disk' \in {disk, [disk EXCEPT ![Head(todo).name] = Unreadable]}
      BY <1>2 DEF Interrupt
    <3>2. TypeOK /\ \A o \in Outs : Out(o) \in Names
      BY NameFacts DEF IInv
    <3> QED
      BY <3>1, <3>2 DEF Untouched, TypeOK
  <2> QED
    BY <2>1, <2>2, NothingIndexed
<1> QED
  BY <1>1, <1>2

\* T readable share files of different participants for one text and one
\* generation of keys combine into the signature of the common key: the index that
\* bls_glue makes of the one in the file is where the participant's key is a value.
THEOREM SharesCombine == Spec => []SharesInFilesCombine
PROOF
<1>1. Init => IndexedRight
  <2> SUFFICES ASSUME Init PROVE IndexedRight
    OBVIOUS
  <2>1. Len(todo) = 0 /\ \A o \in Outs : ~Readable(Out(o))
    BY NameFacts DEF Init, Readable
  <2> QED
    BY <2>1 DEF IndexedRight
<1>2. IInv /\ IndexedRight /\ [Next]_vars => IndexedRight'
  <2>1. UNCHANGED vars /\ IndexedRight => IndexedRight'
    BY DEF vars, IndexedRight, Readable, RightIndex
  <2> QED
    BY <2>1, IndexedKeygen, IndexedSign, IndexedGlue, IndexedWrite DEF Next
<1>3. IInv /\ IndexedRight => SharesInFilesCombine
  <2> SUFFICES ASSUME IInv, IndexedRight, NEW ins \in SUBSET Outs, Combinable(disk, ins),
                      \A i, k \in ins : LET p == disk[Out(i)].point
                                            q == disk[Out(k)].point
                                        IN  p # Garbled /\ q # Garbled =>
                                              p.bytes = q.bytes /\ p.gen = q.gen,
                      NEW k \in ins
               PROVE  Recovered(SharesIn(ins)) = [bytes |-> disk[Out(k)].point.bytes,
                                                  gen |-> disk[Out(k)].point.gen, at |-> 0]
    BY DEF SharesInFilesCombine
  <2>1. \A i \in ins : /\ disk[Out(i)] \in Signatures
                       /\ disk[Out(i)].index # NoIndex /\ RightIndex(disk[Out(i)])
    BY ReadFacts DEF IInv, Combinable, IndexedRight, Readable
  <2>2. \A i \in ins : /\ disk[Out(i)].point \in Values
                       /\ disk[Out(i)].point # Garbled
                       /\ disk[Out(i)].point.at = GlueIndex(disk[Out(i)].index)
    BY <2>1 DEF Signatures, Points, RightIndex, GlueIndex
  <2>3. SharesIn(ins) # {}
    BY DEF SharesIn
  <2>4. \A s \in SharesIn(ins) : /\ s.point \in Values /\ s.point.at = s.index
                                 /\ s.point.bytes = disk[Out(k)].point.bytes
                                 /\ s.point.gen = disk[Out(k)].point.gen
    BY <2>2 DEF SharesIn
  <2>5. PICK p : p = (CHOOSE s \in SharesIn(ins) : TRUE).point
    OBVIOUS
  <2>6. p \in Values /\ p.bytes = disk[Out(k)].point.bytes /\ p.gen = disk[Out(k)].point.gen
    BY <2>3, <2>4, <2>5
  <2>7. \A s \in SharesIn(ins) : s.point # Garbled
    BY <2>4, FileConstants
  <2>8. Recovered(SharesIn(ins)) = [p EXCEPT !.at = 0]
    BY <2>4, <2>5, <2>7 DEF Recovered
  <2> QED
    BY <2>6, <2>8 DEF Values
<1> QED
  BY <1>1, <1>2, <1>3, Invariant, PTL DEF Spec

=============================================================================
