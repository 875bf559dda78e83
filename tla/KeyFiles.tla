------------------------------ MODULE KeyFiles ------------------------------
(***************************************************************************)
(* The command line tools of tools/, which pass keys, messages and         *)
(* signatures to each other through files of one directory.  They run one  *)
(* after the other; each reads what it needs, and then writes its files    *)
(* one by one.  A run may be interrupted between two writes or in the      *)
(* middle of one, and it may throw.                                        *)
(*                                                                         *)
(* The n polynomials behind a set of keys are its generation: dkg_keygen   *)
(* drew each alone, or all of them in one run.  A signature is the text it *)
(* is of, as the 32 bytes that are hashed to the curve, the generation of  *)
(* the key, and the point its key is the value of: 0 for the common key,   *)
(* j + 1 for the share of participant j.                                   *)
(***************************************************************************)
EXTENDS Naturals, Sequences, FiniteSets

CONSTANTS
  N, T,           \* the options --n and --t
  Texts,          \* what sign_bls is given to sign
  Bytes,          \* the values of the 32 bytes that are hashed to the curve
  BytesOf,        \* those of a text, without and with --rehash
  Outs,           \* the files that --output names
  MaxRuns,        \* bound on the runs of dkg_keygen and sign_bls
  Invalid,        \* a text that hex2carray refuses
  Unreadable,     \* a file that is absent, empty or cut off: no JSON
  Garbled,        \* a point interpolated from shares that do not fit together
  NoIndex,        \* the output of sign_bls without --j, and of bls_glue
  NoOut           \* there was no run of sign_bls yet

Nodes == 0..(N - 1)
Polynomials == [alone : BOOLEAN, run : 1..MaxRuns]
Generations == [Nodes -> Polynomials]
Values == [bytes : Bytes, gen : Generations, at : 0..N]
Points == Values \cup {Garbled}

\* The files of the directory, and what each may hold.
Common == <<"common_public_key", 0>>
HashJson == <<"hash", 0>>
KeyFile(j) == <<"BLS_keys", j>>
DataFile(j) == <<"data_for_participant", j>>
Out(o) == <<"output", o>>

KeyNames == {Common} \cup {KeyFile(j) : j \in Nodes}
DataNames == {DataFile(j) : j \in Nodes}
OutNames == {Out(o) : o \in Outs}
Names == KeyNames \cup DataNames \cup OutNames \cup {HashJson}
Holds(name) ==
    CASE name \in KeyNames  -> Generations
      [] name \in DataNames -> Polynomials
      [] name \in OutNames  -> [index : Nodes \cup {NoIndex}, point : Points]
      [] name = HashJson    -> Texts

ASSUME FileConstants ==
    /\ N \in Nat /\ T \in 1..N                      \* ThresholdUtils::checkSigners
    /\ BytesOf \in [Texts \X BOOLEAN -> Bytes \cup {Invalid}]
    /\ Invalid \notin Bytes
    /\ NoOut \notin Outs
    /\ MaxRuns \in Nat
    /\ NoIndex \notin Nodes
    /\ Garbled \notin Values
    /\ \A name \in Names : Unreadable \notin Holds(name)

VARIABLES
  disk,       \* the contents of the files
  todo,       \* what the running tool still has to write, in order
  runs,       \* number of runs of dkg_keygen and sign_bls so far
  drawn,      \* number of polynomials drawn for each participant
  latest      \* the output of the latest run of sign_bls (history)

vars == <<disk, todo, runs, drawn, latest>>

Writes == UNION {[name : {n}, content : Holds(n)] : n \in Names}
Write(name, content) == [name |-> name, content |-> content]

Readable(name) == disk[name] # Unreadable
Idle == todo = <<>>

-----------------------------------------------------------------------------
(* Key generation.                                                         *)

KeyFilesOf(gen) == [i \in 1..N |-> Write(KeyFile(i - 1), gen)]

Init ==
    /\ disk = [name \in Names |-> Unreadable]
    /\ todo = <<>>
    /\ drawn = [j \in Nodes |-> 0]
    /\ runs = 0
    /\ latest = NoOut

\* A random polynomial is a new one.
Draw(j, alone) == [alone |-> alone, run |-> drawn[j] + 1]

\* dkg_keygen draws all polynomials, and writes the common key first.
Keygen ==
    LET gen == [j \in Nodes |-> Draw(j, FALSE)]
    IN  /\ Idle /\ runs < MaxRuns
        /\ runs' = runs + 1
        /\ drawn' = [j \in Nodes |-> drawn[j] + 1]
        /\ todo' = <<Write(Common, gen)>> \o KeyFilesOf(gen)
        /\ UNCHANGED <<disk, latest>>

\* dkg_keygen --j draws the polynomial of one participant.
KeygenOf(j) ==
    /\ Idle /\ runs < MaxRuns
    /\ runs' = runs + 1
    /\ drawn' = [drawn EXCEPT ![j] = @ + 1]
    /\ todo' = <<Write(DataFile(j), Draw(j, TRUE))>>
    /\ UNCHANGED <<disk, latest>>

DkgKeygen == Keygen \/ \E j \in Nodes : KeygenOf(j)

\* What the participants' data files say, each taken for the participant it names.
ParticipantsData == [j \in Nodes |-> disk[DataFile(j)]]

\* Slip: the common key is written first, as in dkg_keygen.
DkgGlueCommonFirst ==
    LET gen == ParticipantsData
    IN  /\ Idle /\ \A j \in Nodes : Readable(DataFile(j))
        /\ todo' = <<Write(Common, gen)>> \o KeyFilesOf(gen)
        /\ UNCHANGED <<disk, runs, drawn, latest>>

\* dkg_glue reads the data of all participants, which verify each other, and
\* writes the common key last.  It throws before it writes if one is missing.
DkgGlue ==
    LET gen == ParticipantsData
    IN  /\ Idle /\ \A j \in Nodes : Readable(DataFile(j))
        /\ todo' = Append(KeyFilesOf(gen), Write(Common, gen))
        /\ UNCHANGED <<disk, runs, drawn, latest>>

-----------------------------------------------------------------------------
(* Signatures.                                                             *)

\* The point recovered at zero from shares with different indices: those of one
\* text and one generation, each with the index its key is the value of, give the
\* signature of that text; any others, polynomials being random, a point that is
\* no signature.
Recovered(shares) ==
    IF /\ \A s \in shares : s.point # Garbled /\ s.point.at = s.index
       /\ \A s, r \in shares : s.point.bytes = r.point.bytes /\ s.point.gen = r.point.gen
    THEN [(CHOOSE s \in shares : TRUE).point EXCEPT !.at = 0]
    ELSE Garbled

ShareOf(j, text, rehash) ==
    [bytes |-> BytesOf[text, rehash], gen |-> disk[KeyFile(j)], at |-> j + 1]

\* main opens, and thereby empties, the output before Sign or RecoverSignature
\* reads anything.
Opened(o) == [disk EXCEPT ![Out(o)] = Unreadable]

\* Slip: the signature before hash.json.
HashAndSignatureSwapped(text, signature, o) ==
    <<Write(Out(o), signature), Write(HashJson, text)>>

\* Sign leaves the text in hash.json, and only then writes the signature.
HashAndSignature(text, signature, o) ==
    <<Write(HashJson, text), Write(Out(o), signature)>>

\* sign_bls without --j reads the keys of everybody, and combines the shares of
\* the first T.  It throws if the text is no hash or a key cannot be read.
SignAll(text, rehash, o) ==
    /\ Idle /\ runs < MaxRuns
    /\ runs' = runs + 1
    /\ latest' = o
    /\ disk' = Opened(o)
    /\ todo' = IF \/ BytesOf[text, rehash] = Invalid
                  \/ \E j \in Nodes : ~Readable(KeyFile(j))
               THEN <<>>
               ELSE HashAndSignature(text,
                      [index |-> NoIndex,
                       point |-> Recovered({[index |-> j + 1, point |-> ShareOf(j, text, rehash)] :
                                              j \in 0..(T - 1)})],
                      o)
    /\ UNCHANGED drawn

OneBased(j) == j + 1         \* slip: the index LagrangeCoeffs wants

\* The index in the file counts from zero.
IndexInFile(j) == j

\* sign_bls --j signs with the key of one participant.
SignOne(j, text, rehash, o) ==
    /\ Idle /\ runs < MaxRuns
    /\ runs' = runs + 1
    /\ latest' = o
    /\ disk' = Opened(o)
    /\ todo' = IF BytesOf[text, rehash] = Invalid \/ ~Readable(KeyFile(j)) THEN <<>>
               ELSE HashAndSignature(text,
                      [index |-> IndexInFile(j), point |-> ShareOf(j, text, rehash)], o)
    /\ UNCHANGED drawn

SignBls(text, rehash, o) ==
    SignAll(text, rehash, o) \/ \E j \in Nodes : SignOne(j, text, rehash, o)

\* What RecoverSignature can interpolate: T files with an index, all different.
\* LagrangeCoeffs refuses a file that is named twice.
Combinable(files, ins) ==
    /\ Cardinality(ins) = T
    /\ \A i \in ins : files[Out(i)] # Unreadable /\ files[Out(i)].index # NoIndex
    /\ \A i, k \in ins : files[Out(i)].index = files[Out(k)].index => i = k

AsInFile(index) == index    \* slip

\* The participant's key is the value at the index that follows the one in the file.
GlueIndex(index) == index + 1

SharesIn(ins) ==
    {[index |-> GlueIndex(disk[Out(i)].index), point |-> disk[Out(i)].point] : i \in ins}

\* bls_glue combines the shares in T files, ins as a set.  Its own output is empty by then.
BlsGlue(ins, o) ==
    /\ Idle
    /\ disk' = Opened(o)
    /\ todo' = IF ~Combinable(disk', ins) THEN <<>>
               ELSE <<Write(Out(o), [index |-> NoIndex,
                        point |-> Recovered(SharesIn(ins))])>>
    /\ latest' = IF o = latest THEN NoOut ELSE latest
    /\ UNCHANGED <<runs, drawn>>

\* The running tool writes its next file, and exits after the last one.
WriteNext ==
    /\ ~Idle
    /\ disk' = [disk EXCEPT ![Head(todo).name] = Head(todo).content]
    /\ todo' = Tail(todo)
    /\ UNCHANGED <<runs, drawn, latest>>

\* It is stopped, before it opens its next file or after.
Interrupt ==
    /\ ~Idle
    /\ disk' \in {disk, [disk EXCEPT ![Head(todo).name] = Unreadable]}
    /\ todo' = <<>>
    /\ UNCHANGED <<runs, drawn, latest>>

Next ==
    \/ DkgKeygen
    \/ DkgGlue
    \/ \E text \in Texts, rehash \in BOOLEAN, o \in Outs : SignBls(text, rehash, o)
    \/ \E ins \in SUBSET Outs, o \in Outs : Cardinality(ins) \in 1..T /\ BlsGlue(ins, o)
    \/ WriteNext
    \/ Interrupt

Spec == Init /\ [][Next]_vars

\* verify_bls reads the common key or, with --j, that of one participant.
KeyAt(at) == IF at = 0 THEN Common ELSE KeyFile(at - 1)

\* Verify hashes the text it finds in hash.json, and passes if the signature is
\* that of this text under the key.
PassesWith(point, rehash, at) ==
    /\ Readable(HashJson) /\ Readable(KeyAt(at))
    /\ BytesOf[disk[HashJson], rehash] # Invalid
    /\ point = [bytes |-> BytesOf[disk[HashJson], rehash], gen |-> disk[KeyAt(at)], at |-> at]

VerifyBls(o, rehash, at) == Readable(Out(o)) /\ PassesWith(disk[Out(o)].point, rehash, at)

-----------------------------------------------------------------------------
(* Properties.                                                             *)

TypeOK ==
    /\ \A name \in Names : disk[name] \in Holds(name) \cup {Unreadable}
    /\ DOMAIN disk = Names
    /\ todo \in Seq(Writes)
    /\ drawn \in [Nodes -> 0..MaxRuns] /\ runs \in 0..MaxRuns
    /\ latest \in Outs \cup {NoOut}

\* Whatever was interrupted, and whichever signature the output held before:
\* what can be read in the output of the latest run of sign_bls is a signature
\* that verify_bls accepts with one of its two ways to hash the text, as long as
\* the key it was made with is still there.  hash.json is replaced before the
\* signature that goes with it is written, and after the old one is gone.
LatestSignatureVerifies ==
    latest # NoOut /\ Readable(Out(latest)) =>
        LET point == disk[Out(latest)].point
        IN  point # Garbled /\ disk[KeyAt(point.at)] = point.gen =>
                \E rehash \in BOOLEAN : VerifyBls(latest, rehash, point.at)

\* What sign_bls without --j would write now, and what bls_glue would make of
\* the shares that the participants in K would sign now.
SignedByAll == IF \A j \in Nodes : Readable(KeyFile(j))
               THEN {disk[KeyFile(j)] : j \in 0..(T - 1)} ELSE {}
SignedBy(K) == {disk[KeyFile(j)] : j \in K}

Glued(gen) == \A j \in Nodes : gen[j].alone

\* dkg_glue writes the common key last: if its keys, or what interrupted runs
\* left of them, still produce a signature that verifies, then any T of the
\* participants can.  (dkg_keygen writes it first, and leaves old key files
\* behind a common key that the first T participants can sign for.)
GluedKeysAreWhole ==
    Readable(Common) /\ Glued(disk[Common]) /\ SignedByAll = {disk[Common]} =>
        \A K \in SUBSET Nodes : Cardinality(K) = T => SignedBy(K) = {disk[Common]}

\* The participants count from zero, in the names of the key files and in the
\* signature files, and the points from one: T readable share files of different
\* participants for the same bytes, signed with keys of one generation, whenever
\* and by whichever runs they were written, are combined by bls_glue into the
\* signature that the common key of that generation is checked with.
SharesInFilesCombine ==
    \A ins \in SUBSET Outs :
        LET points == {disk[Out(i)].point : i \in ins}
        IN  /\ Combinable(disk, ins)
            /\ \A p, q \in points \ {Garbled} : p.bytes = q.bytes /\ p.gen = q.gen
            => \A p \in points : Recovered(SharesIn(ins)) =
                                     [bytes |-> p.bytes, gen |-> p.gen, at |-> 0]
-----------------------------------------------------------------------------
(* The inductive invariant of the proofs in KeyFilesProofs.                *)

\* A polynomial in a file was drawn, and a run draws one of each participant.
OnlyDrawn ==
    \A j \in Nodes :
        /\ drawn[j] <= runs
        /\ Readable(Common) => disk[Common][j].run <= drawn[j]
        /\ Readable(DataFile(j)) => disk[DataFile(j)].run <= drawn[j]

\* A signature that is not garbled is one of this text, hashed in one of the two ways.
Fits(point, text) ==
    point # Garbled => \E rehash \in BOOLEAN : BytesOf[text, rehash] = point.bytes

\* dkg_keygen wrote the first `done` of its files.
KeygenAtWork(gen, done) ==
    /\ Len(todo) = N + 1 - done
    /\ \A i \in 1..Len(todo) :
           todo[i] = Write(IF done + i = 1 THEN Common ELSE KeyFile(done + i - 2), gen)
    /\ \A j \in Nodes : ~gen[j].alone /\ gen[j].run <= drawn[j]
    /\ done > 0 => disk[Common] = gen

\* dkg_glue did; nobody touches the data it read.
GlueAtWork(gen, done) ==
    /\ Len(todo) = N + 1 - done
    /\ \A i \in 1..Len(todo) :
           todo[i] = Write(IF done + i = N + 1 THEN Common ELSE KeyFile(done + i - 1), gen)
    /\ gen = ParticipantsData
    /\ \A j \in Nodes : j < done => disk[KeyFile(j)] = gen

\* dkg_keygen --j has drawn what no file holds yet.
DataLeft(j, pol) ==
    /\ todo = <<Write(DataFile(j), pol)>>
    /\ pol.run = drawn[j]
    /\ Readable(Common) => disk[Common][j] # pol

\* sign_bls is about to write the text, and the output is still empty.
HashLeft(text, signature) ==
    /\ latest # NoOut
    /\ todo = <<Write(HashJson, text), Write(Out(latest), signature)>>
    /\ ~Readable(Out(latest))
    /\ Fits(signature.point, text)

\* sign_bls or bls_glue is about to write its output.
SignatureLeft(o, signature) ==
    /\ todo = <<Write(Out(o), signature)>>
    /\ o = latest => Readable(HashJson) /\ Fits(signature.point, disk[HashJson])

OneToolAtWork ==
    \/ Idle
    \/ /\ todo[1].name \in KeyNames
       /\ \E done \in 0..N : \/ KeygenAtWork(todo[1].content, done)
                             \/ GlueAtWork(todo[1].content, done)
    \/ \E j \in Nodes : todo[1].name = DataFile(j) /\ DataLeft(j, todo[1].content)
    \/ todo[1].name = HashJson /\ HashLeft(todo[1].content, todo[2].content)
    \/ \E o \in Outs : todo[1].name = Out(o) /\ SignatureLeft(o, todo[1].content)

\* The text in hash.json is that of the latest signature.
LatestFits ==
    latest # NoOut /\ Readable(Out(latest)) =>
        Readable(HashJson) /\ Fits(disk[Out(latest)].point, disk[HashJson])

\* All key files are those of the glued common key, or the first one is not and,
\* as the data they were glued from is gone, never will be again.
WholeOrReplaced ==
    Readable(Common) /\ Glued(disk[Common]) =>
        \/ \A j \in Nodes : disk[KeyFile(j)] \in {disk[Common], Unreadable}
        \/ /\ disk[KeyFile(0)] # disk[Common]
           /\ \E j \in Nodes : disk[DataFile(j)] # disk[Common][j]

\* A signature with an index is that of the participant with this index.
RightIndex(signature) ==
    signature.index # NoIndex =>
        signature.point # Garbled /\ signature.point.at = signature.index + 1

IndexedRight ==
    \A o \in Outs :
        /\ Readable(Out(o)) => RightIndex(disk[Out(o)])
        /\ \A i \in 1..Len(todo) : todo[i].name = Out(o) => RightIndex(todo[i].content)

IInv == TypeOK /\ OnlyDrawn /\ OneToolAtWork /\ LatestFits /\ WholeOrReplaced
=============================================================================
