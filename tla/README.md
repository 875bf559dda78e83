# Formal models of libBLS

libBLS is a C++ library for threshold BLS signatures, threshold encryption and
distributed key generation over the curve alt_bn128. This directory holds TLA+
models of it, the TLC runs that check them on small instances, and TLAPS proofs
of what matters most for every size. Paths below are relative to `src/`.

Contents: 1 the system; 2 the models; 3 what the models abstract; 4 the runs;
5 fairness; 6 the proofs; 7 disagreements between code and documents;
8 what is not modelled; 9 the plan.

## 1 The system

The library is a set of classes without threads, timers or sockets of its own.
What makes it hard is what its callers put between the calls: a network that
loses, repeats and reorders shares, parties that send wrong shares, several
threads that construct objects, a caller that does not follow the expected
order of calls, and programs that print the same numbers in another way. Around
it are command line tools, which pass keys and signatures through files and may
be interrupted.

| Component | State | Operations | What makes it correct |
| --- | --- | --- | --- |
| **Scalar arithmetic and interpolation** (`tools/utils.cpp` `LagrangeCoeffs`, `dkg/dkg.cpp` `PolynomialValue`, `bls/bls.cpp` `SignatureRecover`, `KeysRecover`) | none | evaluate a polynomial; Lagrange coefficients of the first t of a list of indices; combine shares | any t values of a polynomial of t coefficients give its value at 0, whichever t |
| **Threshold signing** (`bls/`) | key shares; in `BLSSigShareSet` a map from signer index to share and `was_merged` | `generateSampleKeys`, `Bls::Signing`, `BLSSigShare` from string, `VerifySig`, `VerifySigWithHelper`, `addSigShare`, `isEnough`, `merge`, `BLSPublicKey::VerifySig` | verified shares give the one signature of the common key; fewer than t signers give none; a merged set does not change its answer |
| **Distributed key generation** (`dkg/`) | secret polynomial of each node, its broadcast, shares received | `setDKGSecret`, `createDKGPublicShares`, `createDKGSecretShares`, `VerifyDKGShare`, `CreateBLSPrivateKeyShare`, `CreateTEPublicKey` | key shares of nodes that finish are shares of the common public key, faulty nodes or not; honest nodes are not refused; honest nodes finish |
| **Threshold encryption** (`threshold_encryption/`) | key shares; in `TEDecryptSet` a map from index to piece and `was_merged` | `encrypt`, `getDecryptionShare`, `Verify`, `addDecrypt`, `merge`, `mergeIntoAESKey` | verified pieces give the message; a damaged ciphertext gives nothing; t holders are needed |
| **Curve initialisation** (`tools/utils.cpp` `initCurve`, constructors of `threshold_encryption/`, `DKGTESecret`, `DKGTEWrapper`) | globals of libff, `is_initialized`, `initMutex` | `initCurve`; direct calls of `init_alt_bn128_params` | the globals are written once and before use |
| **Hashing to the curve and hints** (`HashtoG1`, `HashtoG1withHint`, `ParseHint`) | none | find a point from a hash; describe how it was found; check the description | a hint the library prints can be parsed and leads to the point HashtoG1 finds |
| **Aggregated signatures** (`bls/bls.cpp`) | none | `Aggregate`, `CoreVerify`, `FastAggregateVerify`, `AggregatedVerification`, `PopProve`, `PopVerify`, `HashPublicKeyToG1` | right signatures aggregate to one that is accepted, one wrong one is noticed, and what is accepted was signed |
| **Text forms** (`tools/utils.h`, `toString` and the constructors from strings) | none | print and parse | what is printed can be parsed and is the same |
| **Command line tools** (`tools/`) | JSON files in the working directory | `dkg_keygen`, `dkg_glue`, `sign_bls`, `bls_glue`, `verify_bls` | what the latest run of `sign_bls` left verifies, interrupted or not; glued keys are of one generation |
| **Python binding** (`python/`) | none | calls of class `Dkg` | translation only |

How they interact: key generation (or `generateSampleKeys`) gives the key shares
and the common key that signing and encryption use. A `BLSPrivateKeyShare`
makes shares which the application carries, as strings, to the owner of a
`BLSSigShareSet`; that owner may verify each with the signer's
`BLSPublicKeyShare` before it adds it, for the set verifies nothing itself;
`merge` calls `LagrangeCoeffs` and `SignatureRecover`; the result is a
`BLSSignature` which anybody verifies with the common `BLSPublicKey`. Threshold
encryption has the same shape, with `TEDecryptSet` for the set, and no way to
verify the result. All of this travels as text: `toString` on one side, a
constructor from strings on the other. The tools call `Bls` and `Dkg` between
reading their files and writing them. Most constructors initialise the curve
first; some of those that are given keys or shares as objects do not, since
whoever made these has done so (`bls/BLSPrivateKeyShare.cpp:47`,
`bls/BLSPublicKey.cpp:65`, `bls/BLSPrivateKey.cpp:49`).

Behaviours that are hard to test, each with its line, are the list `hazards` of
`PROJECT.json`.

## 2 The models

```
PrimeField  <--  ThresholdSigning  --implements-->  SignatureService
    ^            |        MCThresholdSigning, ThresholdSigningProofs
    |---------  Dkg                   MCDkg, DkgProofs
    |---------  ThresholdEncryption   MCThresholdEncryption, ThresholdEncryptionProofs
    |---------  AggregatedSignatures  MCAggregatedSignatures, AggregatedSignaturesProofs
PrimeFieldProofs
CurveInit                             CurveInitProofs
TextForms                             MCTextForms, TextFormsProofs
KeyFiles                              MCKeyFiles, KeyFilesProofs
```

**PrimeField** is arithmetic modulo a prime P: `PolynomialValue`
(`Dkg::PolynomialValue`), `LagrangeCoeff` (`ThresholdUtils::LagrangeCoeffs`, with
its formula, the product of all indices times the inverse of
i times the product of the differences j - i), `Lowest` (it looks at the first t
indices of an ordered list), and `Recover` (the linear combination that
`SignatureRecover`, `KeysRecover` and `CombineShares` compute).

**ThresholdSigning** has signers, a network and collectors. `secretKeys` and
`commonKey` come from `generateSampleKeys`; `sent` is all shares ever sent;
each collector owns one `BLSSigShareSet` (`sigShares`, `wasMerged`) and
remembers what `merge` returned (`signatures`). Actions: `Sign`, `Forge` (one of
`ForgedShares`, well-formed but computed by no key holder, under any index), `AddSigShare`
(delivery, the collector's check, and `addSigShare`), `Merge`. `Policy` says
what a collector does before `addSigShare`: nothing, `VerifySig`, or
`VerifySigWithHelper`, which takes the point that the share's hint leads to in
place of the hash. `Verifying` are the collectors of the second kind, `Helped`
those of the third.

**SignatureService** is the promise: a collector obtains the signature of its
message under the common key, after T signers contributed to that message, and
nothing else. A signer may contribute to several messages in one step: what it
multiplied by its key is a contribution to every message that hashes to that
point, and nothing keeps two messages from hashing to one.
`ThresholdSigning!ImplementsSignatureService` states that the collectors that run
`VerifySig` implement it; the refinement mapping reads `signedBy` off `sent` and
`obtained` off `signatures`.

**Dkg** has N nodes, some of them faulty. `secret`, `public`, `sent`,
`accepted`, `refused`, `keyShare` and `publicKey` are the objects of
`DKGBLSWrapper` and of its callers. A point of G2 carries whether it has a part
outside the subgroup, because `ValidateKey` tests that and the constructor of
`TEPublicKey` does not. `BLSPublicKey` of a set of nodes is the constructor that
combines their public key shares. One action per method, and `FaultyBroadcast`,
`FaultySend` for nodes that do not follow the protocol. `replaced` is a history
variable: whose caller used `setDKGSecret`.

**ThresholdEncryption** has encryptors, a network, key holders and collectors
that own a `TEDecryptSet` (`decrypts`, `wasMerged`). `Encrypt`, `Damage` (one
component of a ciphertext changes), `Take` (a collector that verifies decides
what to decrypt), `GetDecryptionShare`, `SendBadPiece`, `AddDecrypt`, `Merge` and
`MergeIntoAESKey`. `Merge` may be called at any time: with too few pieces or a
damaged ciphertext it throws, which leaves the set as it was. A collector for
which `verifying` is true runs `TEPublicKeyShare::Verify` on each piece and waits
for enough of them before it calls `mergeIntoAESKey`. Another one adds whatever
arrives, merges its set with any ciphertext, for the class does not bind it to
one, and calls `mergeIntoAESKey` when it likes: the method does not count the
pieces and reads past the end of the list, which is undefined, so that any key
comes out.

**AggregatedSignatures** has honest owners of secrets, and a joiner. Secrets are
independent, so that a public key is the vector of its coefficients over the
secrets, and a signature is such a vector on one message. `KeyGeneration`
registers an honest key with its proof of possession and publishes that; `Join`
registers a key that the joiner made up, of others' keys too, if it can come by a
proof for it; `Sign` publishes a signature; `Collect` appends to a list what is
said to be a signature of a key on a message, right or combined from what was
`Published`, signatures and proofs alike. The messages that are signed, `Msgs`, may
be digests of keys: an owner can be asked to sign one, and a proof of possession is
a signature of one. `Aggregate`, `FastAggregateVerify` and `AggregatedVerifySig` are
operators on that list.

**TextForms** follows one object, which is printed (`PassOn`), perhaps typed again
by a program that is not the library (`Retype`: other leading zeros, a number
that is not reduced), read by a constructor of any class whose text looks like
this one (`Read`), printed again, and so on. There is one operator per
constructor. A number's text is its value and its count of digits: all that
`fieldElementToString`, `isStringNumber`, `ParseHint` and the length limits of the
constructors look at. `HashtoG1` and `HashtoG1withHint` are the two copies of the
search for a point of the curve, over a small field; `Leads` is what
`VerifySigWithHelper` does with a hint. `Sign` is the library's way to make a
share, which throws, and `WriteShare` that of a caller which puts together the
text itself.

**KeyFiles** is one directory (`disk`) and the tools that run in it one after the
other. A tool reads its files, opens its output, and then `todo` is what it still
has to write; `WriteNext` writes one file, `Interrupt` stops the tool before or in
the middle of the next one. `Keygen` and `KeygenOf` (`dkg_keygen` without and with
`--j`), `DkgGlue`, `SignAll` and `SignOne` (`sign_bls` without and with `--j`),
`BlsGlue`; `VerifyBls` writes nothing and is an operator. A set of keys is the
polynomials behind it, its generation; a signature is the bytes that were hashed,
the generation, and whose share it is. The index of a participant counts from zero
in the names of files and inside them, and from one in the polynomials:
`IndexInFile` and `GlueIndex` are the places where the tools convert it.

**CurveInit** is a program counter per thread: a constructor either takes
`initMutex`, tests `is_initialized`, initialises and sets the flag
(`ThresholdUtils::initCurve`), or calls `init_alt_bn128_params` at once. The
initialisation takes two steps, since it writes many globals, and the use of the
curve is a step that other threads' writes may overlap.

Definitions called slips (marked in the modules) are plausible mistakes in the
code, each next to the operator it spoils. They are used by no model; TLC finds
a property violated when one takes the place of the operator, which shows that
the property depends on that code. `mutants` in `PROJECT.json` pairs them.

## 3 What the models abstract

* *Groups as logarithms.* An element of G1, G2 or GT is its discrete logarithm,
  modulo a small prime in the runs and any prime in the proofs. The code uses
  nothing of the groups but addition, multiplication by scalars, comparison,
  and bilinearity of the pairing, which becomes multiplication.
* *Hashing.* `HashtoG1` is a given function to non-zero points. In
  ThresholdEncryption `TE::Hash` has no collisions, so that V is the pair of the
  point it was hidden with and the message; `HashToGroup` is ideal, so that W is a
  multiple of the hash of one body.
* *Hints.* In ThresholdSigning a hint, a y coordinate and a shift, is the message
  whose curve equation it satisfies and the point it leads to. That point need
  not be the one `HashtoG1` finds: another shift or the other root satisfy the
  equation too. That one hint fits two messages is left out. Of its text one thing
  is kept: whether it is `long`, with 77 digits on both sides of the colon, which
  `ParseHint` takes and the constructor of `BLSSignature` that `merge` calls does
  not (`bls/BLSSignature.cpp:46`). A share with such a hint has at most 83 characters left
  for the two coordinates of its point, of 77 digits each as a rule. Points that short
  exist, but nobody finds one that is a multiple of a hash by a given key:
  `LongHintsLeaveNoRoom` assumes that such a share is not accepted. The forged shares
  of the runs carry the hints of `HashtoG1withHint`, those with the other root, and a
  long one. TextForms has hints as they are.
* *How shares enter.* In ThresholdSigning shares are computed with `Bls::Signing`
  and rebuilt with the string constructor of `BLSSigShare`, the y of the hint
  printed without padding. The wrappers `BLSPrivateKeyShare::sign` and
  `signWithHelper` throw, see section 7, and are in TextForms.
* *Text.* Digits are in base 3, so that with a field of 19 elements the larger of two
  roots has `MaxComponentLen` = 3 digits, an odd number, as it has 77 in decimal in
  the real field. `TextConstants` asserts it. A signature's text has the lower limit
  of the code, 10, and `BLS_MAX_SIG_LEN` scaled to the shorter numbers, 18.
  `PrimeOrder` says that the curve has points and none with y = 0, as its order is an
  odd prime. The points of G2 are three given vectors of coordinates: whether a point
  is on the twisted curve is libff's to say. Non-digits, wrong separators and V, which
  has a fixed length, are left out.
* *Files.* A file is whole, or unreadable: absent, empty or cut off, all of which make
  the JSON parser throw. The tools do not look at whether a write succeeded, and
  neither does the model let one fail in silence. Polynomials are random, so that
  points of two generations, shares of two texts, or shares under indices that are not
  their participants', combine to a point that is no signature (`Garbled`). Two ways
  to turn a text into bytes, with and without `--rehash`, are a given function; some
  texts are no hash in hexadecimal.
* *Aggregation.* Secrets are independent, and so are the points that `HashtoG1`
  finds for different 32 bytes: nobody knows a linear relation between them. That is
  all: a message and the sha256 of a public key are both 32 bytes, and
  `CoreSignAggregated` and `HashPublicKeyToG1` hash them with the same `HashtoG1`
  without anything to tell them apart. `Digest` maps keys to some of the messages.
  Messages that happen to lead to one point count as one. sha256 has no collisions.
  What honest owners publish is what they call `CoreSignAggregated` and `PopProve`
  for. A pairing with a zero point is one, whatever libff makes of it.
* *Index 0.* `TEDecryptSet` accepts it, and `LagrangeCoeffs` then inverts zero. A
  libff with assertions aborts there; one without returns a value that is
  multiplied by zero. The models have the second. A process that aborts leaves a
  prefix of such a behaviour, which breaks no safety property, and no
  liveness property is about collectors that add a piece with index 0.
* *Network and other parties* are not in the library. They are external actions:
  sets of messages that only grow give loss, delay, reordering and duplication.
* *Dkg's two wrappers* have the same code; one model stands for both.

## 4 The runs

| Run | Question | Bounds | Answer |
| --- | --- | --- | --- |
| `signing_verified` | Do collectors that verify get the signature, from T signers, in the end, and implement SignatureService? What do those that go by the hints get? | 3 signers, of which 2 and 3 honest for liveness, T = 2, 2 messages, 2 collectors (VerifySig and VerifySigWithHelper), 1 forged share under one of 4 indices, with the hint of either root or a long one, P = 7 | yes; with hints, if they agree |
| `signing_unchecked` | What is left without verification, or if one hint differs? | T = 3 of 3 (quadratic polynomials), 2 collectors (no check and VerifySigWithHelper), 2 messages, 1 forged share under one of 4 indices, wrong or right, with the hint of either root or a long one, P = 11 | one answer per set; right shares sign; one bad share is never unnoticed; neither is one odd hint, but for shares that cancel |
| `dkg_faulty` | Does key generation hold with a faulty node? | 3 nodes, T = 2, node 3 faulty with 4 vectors (two proper ones, one point and both points outside the subgroup) and 3 share values, 0 among them, P = 5 | yes |
| `dkg_replaced` | What does `setDKGSecret` in mid-protocol break, and do honest nodes finish? | 2 honest nodes, any replacement at any time, one polynomial with a zero share | only the caller's own node is refused; all finish unless a polynomial is replaced or a share or a sum of shares is zero |
| `dkg_documented_index` | Does the guide's `signerIndex` work? | 3 honest nodes, T = 2 | no: section 7 |
| `decrypt` | What does a collector get, verifying or not, and in the end? | 3 holders, T = 2, 2 ciphertexts in all (sound or damaged), 1 bad piece under indices 0 to 3, 2 keys, holders 1 and 3 honest for liveness, P = 5 | the message and its key if it verifies; if not, nothing out of a damaged ciphertext, one plaintext of each, garbage from wrong pieces |
| `aggregate` | What does an accepted list of signatures say of its parts? | 1 honest owner and the joiner, which makes up zero, either key, and its own less the honest one; 2 registered keys; 3 messages, a text and the digests of the honest key and of that difference; lists of 3 with 2 wrong entries; P = 5 | right lists are accepted, one wrong entry is noticed, and no list is accepted without the honest owner's signature or proof of possession, unless it signed the digest of the difference |
| `text_forms` | Does what is printed come back, in whichever notation? | all points of the curve over 19 elements, 4 hashes (one not reduced), 3 public keys with components of 1 to 3 digits, up to 5 digits typed, AES parts of up to 3 bytes of which 2 are read | yes, but for two stated cases |
| `sign_throws` | Do `sign` and `signWithHelper` return a share? | as `text_forms` | no: section 7 |
| `te_round_trip` | Do the public keys of threshold encryption come back? | as `text_forms` | no: section 7 |
| `key_files` | What do interrupted tools leave behind? | 3 participants, T = 2, 3 output files, 2 texts of which one is no hash, 5 runs of `dkg_keygen` and `sign_bls`, glue runs at will | the latest signature verifies or cannot be read; glued keys are whole; share files of one text and generation combine |
| `curve_init` | Is `initCurve` enough, and what is left if some threads do not use it? | 3 threads, 2 calls each, guarded or direct | enough if all use it; otherwise guarded callers still do not race with each other and write once |

Why the bounds are enough to be of interest. Three signers of which two are needed
give several sets to interpolate over, one more share than needed, and a stranger's
index (4 in signing, 0 in decryption). T = 2 and T = 3 are both needed: a sign error
in `LagrangeCoeffs` cancels for T = 3. The primes 5, 7 and 11 leave enough indices and
non-zero points, and for a long hint one that `LongHintsLeaveNoRoom` allows; the
polynomials include ones that key generation refuses because a share is zero, and for
T = 3 one of which two shares cancel. One forged share can take the index of each
signer; with T = 3 its hint can be the odd one at the lowest index, whose hint `merge`
hands on, and at the highest. Two ciphertexts make a sound one and a damaged one, or
two sound ones whose pieces get mixed up. A list of three has a wrong entry before,
between and after right ones, and two wrong ones whose errors cancel, which shows what
`OneWrongSignatureIsNoticed` does not say. Two keys are an honest one and one that
cancels it, which is let in exactly if the honest owner signed its digest; the other
digest is that of which a signature is published without being asked for. Five runs of
the tools are two generations of keys of everybody, or those of three participants
drawn alone and two signatures, and a third generation of one of them; three outputs
are two shares and what they are glued to. The field of 19 elements has roots of one,
two and three digits and x without a root, one after the other, so that hints count.
Three threads give one that writes, one that waits and one that uses. All safety
properties have theorems, for which the bounds do not matter at all.

Deadlock is checked where a step is always possible. Key generation of honest
nodes ends, and threads stop after `MaxCalls` calls: those runs say
`CHECK_DEADLOCK FALSE`. `MaxForged`, `MaxBad`, `MaxCiphertexts`, `MaxCalls`,
`MaxIndex`, `MaxKeys`, `MaxEntries`, `MaxWrong`, `MaxRuns` and `MaxDigits` are the
bounds on what would grow without end.

What the properties say beyond the obvious:

* `OneBadShareIsNoticed` and `WrongPiecesGarble` are about what happens when
  the caller omits verification. A wrong share in a `BLSSigShareSet` gives a
  signature that `BLSPublicKey::VerifySig` refuses, or an exception. A wrong
  piece in a `TEDecryptSet`, or pieces of another ciphertext, give a plaintext
  without any error; it is garbage, never another message.
* `SealedSetHasSignature`: `merge` sets `was_merged` before the constructor of
  `BLSSignature` can refuse a zero result. Only callers that do not verify can
  be left with a sealed set and nothing.
* `SameHintsGiveASignature` and `OneOddHintIsNoticed`: `merge` takes the hint of
  the lowest index. `VerifySigWithHelper` accepts shares of one message with
  different hints, those of the smaller root included; if those interpolated agree
  the signature verifies, and if one differs `BLSPublicKey::VerifySigWithHelper`
  refuses the result. That holds for any one of those interpolated. If it is the
  lowest, the whole result may come from it alone, if the key shares of the others
  happen to cancel in the interpolation; then it is accepted, and rightly so.
  A collector that runs `VerifySig` may hand on any hint.
* `HonestRefusedOnlyAfterReplacement`: exactly when an honest node can look
  faulty: its caller replaced the polynomial, or the value at the receiver's
  index is zero, which `VerifyDKGShare` throws on.
* `SealedSetHasSignature` and `SoundCiphertextIsDecrypted` are about opposite orders:
  `BLSSigShareSet::merge` sets `was_merged` before anything can throw,
  `TEDecryptSet::merge` after it, so that a call that came too early does no harm.
* `WhatIsReadCanBePassedOn`: the constructors are more liberal than they are
  strict with what `toString` prints. Two exceptions are part of the property, which
  describes them and does not catch them: a public key of threshold encryption with a
  padded component, and a signature whose hint somebody typed longer than the library
  does; it fits the limit with unpadded coordinates and exceeds it once they are
  padded. The first is what `te_round_trip` refutes a document with.
* `TextsKeepTheObject`: what `hex2carray` does not read of a long AES part is
  zero, without an error; that exception is stated, and nothing else gets lost.
* `LatestSignatureVerifies`: `sign_bls` empties its output first and writes
  `hash.json` before the signature. In any other order an interrupted run leaves
  a signature of one text beside another. Only the latest signature can be
  verified with `verify_bls`: `hash.json` is one file per directory.
* `GluedKeysAreWhole`: `dkg_glue` writes the common key last. `dkg_keygen` writes
  it first, so that after an interrupted run over old keys the first T participants
  may hold keys of it and the others not: nothing of the kind is claimed of it, and
  the property excludes it.
* `SharesInFilesCombine`: participants count from zero in files and from one in
  polynomials. `sign_bls --j` writes the one, `bls_glue` adds one, and the key files that
  `dkg_keygen` and `dkg_glue` write under the other are the values at the result: any
  T share files of one text and one generation combine to the common signature.
* `AcceptedMeansSigned`: the proof of possession is what keeps the joiner from
  registering a key that cancels an honest one. What is behind it is weaker than in
  schemes with a domain tag for proofs, and the property says by how much. First, a
  published proof of possession is a signature on the digest of its key, and
  `CoreVerify` accepts it as one: the message of an accepted list may be that digest.
  Second, an owner that signs the digest of somebody else's key gives away its part of
  a proof for it: for such an owner nothing is claimed of lists of many keys. Lists
  under one key need no such condition, as no other key is in the sum.

## 5 Fairness

The library has no scheduler; what must happen in the end is up to callers, and
the fairness formulas say what is asked of them. All of it is weak fairness.

* Signing: the signers in `Honest` call `Signing`, their shares are delivered,
  and a collector with enough shares merges. Delivery stays possible until the
  index is taken or the set is merged, so weak fairness suffices; no fairness
  is asked of forgers or of delivery of their shares. One formula per kind of
  step covers all collectors and signers: each step happens once at most.
* Key generation: each honest node makes its calls, each share is delivered.
* Decryption: honest holders answer, pieces are delivered, the collector merges.
* The tools, the text forms and the aggregated signatures have safety properties
  only: nobody has to run a program again or put together a list.
* Threads: only safety. One lock that is held over a few assignments leaves nobody
  waiting for good, if threads are scheduled at all.

## 6 The proofs

`tlapm` checks all theorems; they hold for every number of signers, nodes,
participants or threads, every threshold, every prime and every curve. Every
invariant of the passing runs has a theorem, and so have the refinement of
SignatureService and `UsesCompleteParameters`. Only liveness is left to TLC.

Assumptions, all on constants, which TLC evaluates in the runs: `PIsPrime` (no zero
divisors modulo P); `SigningConstants`, `DkgConstants`, `EncryptionConstants`,
`AggregationConstants`, `FileConstants`, `CurveConstants` (types, T in 1..N as
`checkSigners` enforces, indices and lengths of lists below the order of the group,
which has 254 bits in the code, and no collision among the digests of keys);
`LongHintsLeaveNoRoom` of ThresholdSigning (section 3, *Hints*); `TextConstants` and
`PrimeOrder` of TextForms. `TextConstants` states of `NumDigits` what the decimal
digits of the real field have, and also that its values are numbers: that a recursive
function exists is an induction over data, which the library's theorems do not give
for a function of this form. Where the proofs need induction, over subsets or numbers,
they take the least counterexample, with a set in place of the hypothesis
(`StrongSetInduction`, `NatSetInduction`, `CountInduction`).

*PrimeFieldProofs.* Sums, products, values of polynomials, Lagrange coefficients
and recovered values are scalars. `Sum` and `Product` are folds over a set, that is,
recursive functions on its subsets: `FoldExists` shows by a least counterexample
that every finite set has a fold. Scalars are a field; a fold may begin with any
element; sums are linear. `Interpolation` is Lagrange's theorem for the
coefficients of `LagrangeCoeffs`: T values of a polynomial of T coefficients give
its constant term. With L(K, i) the coefficient of i among the indices K, the k-th
moment of K is the sum of i^k L(K, i). From
i L(K, i) + m L(K \ {m}, i) = m L(K, i) the moments of K follow from those of
K \ {m}: the moment 0 is 1, the others up to |K| - 1 are 0; a polynomial is a sum
of powers. `OneShareChangesTheResult`: no coefficient is zero, so that of the
shares that are combined none can change alone without changing the result.

*ThresholdSigningProofs.* None of the properties is inductive. What makes them
so is `IInv`: every stored share sits at its signer's index, was sent and passed
the collector's check (`StoredSharesAccepted`); as long as `wasMerged` is false
nothing was returned, and once it is true there are enough shares and what was
returned is what merging the map now would return (`MergedMapIsFrozen`); the
keys lie on one polynomial; and a share with a long hint is forged
(`LongHintsAreForged`). The second part is where `was_merged` matters: a
share added after a merge could change the lowest T indices. From `IInv` follow
`OneSignature` (one value of `MergeResult`), `VerifiedSignature` and
`SealedSigned` (all shares accepted by `VerifySig` are on the polynomial, hence
`Interpolation`), `RightSharesSign`, `Threshold` (T different indices, each a
signer's who signed), `SameHintsSign` (`Interpolation` again, with the point of the
hint for the hash; `LowestParticipates` says that merge's hint is that of a
share it interpolates), `KeyFromShares` (the constructor of `BLSPrivateKey` from
any T key shares returns the key behind the common public key), `OneBadShare`
(`OneShareChangesTheResult`) and `OneOddHint`. There the result is, by
`RecoverLinear`, the hint's point of all others times the sum of their terms plus the
odd one's point times its own: if merge hands on the others' hint, that is not the
hint's point times the key as no coefficient and no key share is zero; if it hands
on the odd one, the others' terms would have to add up to zero (`OthersCancel`).

`Implementation` is the refinement: under the mapping of
`ImplementsSignatureService` the first state maps to a first state, `Sign` and
`Forge` to `Contribute` or a stutter, a first `Merge` of a collector that runs
`VerifySig` to `Obtain`, all else to a stutter. A forged share can equal a right
one of a signer who has not signed, which is a contribution of that signer.

*DkgProofs.* `TypeCorrect`, `AcceptedFit` (an accepted share keeps fitting the
broadcast, because a broadcast never changes), `HonestNotBlamed` (from
`OnePolynomialPerNode`: what an honest node broadcast and sent comes from the
polynomial it holds, unless it was replaced) and `SharesOfThePublicKey`: a
node's key share is the sum of what it accepted, each of which fits a
broadcast, so that it is the value of the sum of the broadcasts, and T of them
interpolate to the public key. `OneSharing` puts the same fact the way the modules
of signing and decryption start: the key shares of the finished nodes are values
of one polynomial whose constant term is the common key, and that key is in the
subgroup. `KeysOf` there asks for more: a leading coefficient other than 0, which
`GeneratePolynomial` ensures for one dealer, and keys other than 0, which the
constructors that `generateSampleKeys` calls insist on. The sum of several dealers'
polynomials need not have either.

*CurveInitProofs.* `IInv` says that `initMutex` is held by exactly the thread
inside `initCurve`, that `is_initialized` implies no guarded thread is before or
in the write, and that the write count is 0 or 1 accordingly. `GuardedDoNotRace`
and `InitOnce` follow for any mix of callers. `CompleteParameters` is about
behaviours in which every call goes through `initCurve`: there an invariant of its
own, `CompleteWhenUsed` with `WrittenBeforeFlag`, says that the flag is set after the
globals are written, and that who uses them came past the flag.

*ThresholdEncryptionProofs.* `IInv`: the keys lie on one polynomial; a ciphertext
that passes the check of its three parts is one that `encrypt` returned
(`SoundIsEncrypted`); a set holds what was on the network and passed the
collector's checks (`StoredPiecesAccepted`); and what the calls returned so far
came from the pieces that are in the set (`Frozen`: `was_merged` again, which
both `merge` and `mergeIntoAESKey` set). `VerifiedPieces` is `Interpolation`.
`WrongPieces` is about collectors that do not verify: one wrong piece changes the
combination; pieces that all belong to another ciphertext give a multiple of its U,
which hides nothing in this one; with the index 0 among the pieces all terms are
zero, its own one too.

*AggregatedSignaturesProofs.* `IInv`: the proofs that owners published are of their
own keys, and an honest owner's secret is in a registered key only if that owner
multiplied the key's digest, as a proof or as a signature (`KeysAreProved`); every
listed signature is a combination of published points (`EntriesAreKnown`). As digests
have no collisions, an owner that signed no other key's digest is in its own key only.
Verification compares two vectors over pairs of a secret and a message, one
coefficient at a time (`Balanced`). `OneWrongSignature`: the coefficients differ where
the one wrong signature differs. `AcceptedSigned`: an honest owner's coefficient for
a message is then the number of times its key is listed with it, which is not zero
modulo P as lists have fewer than P entries, and a combination of published points
has it only if that owner published one of that message.

*KeyFilesProofs.* `IInv` says what the running tool still has to write, for each of
the tools (`OneToolAtWork`), that polynomials in files were drawn (`OnlyDrawn`),
that the text in `hash.json` is that of the latest output or the output is
unreadable (`LatestFits`), and of a glued common key (`WholeOrReplaced`) that all
key files are of it or unreadable, or else the first one is not, and the data it
was glued from is gone. The second case is what makes it inductive: after
`dkg_keygen --j` has replaced some data, an interrupted `dkg_glue` leaves new files
beside the old common key, and no later one can bring the old files back.
`SharesCombine` has an invariant of its own beside it, `IndexedRight`: a signature with
an index, in a file or still to be written, is the point of the participant with that
index.

*TextFormsProofs.* `IInv` says of whatever is on its way that it is an object
(`ObjectOf`) or a text (`TextOf`) of the one that started: the same numbers modulo Q
or R, tokens with at least the digits of their values, data lost only beyond
`MaxHexBytes`. One lemma for each step: what is printed is a text (`Printed`), what is
typed again still is one (`Retyped`), what is read is the object again
(`ReadBack`). `HintLeads` compares the two copies of the search: both end after
`Steps(x)` steps (`PointFromIs`, `CountedFromIs`, by induction over the steps, from
the step equation of a recursive function that is shown to exist), and the
remainder of a sum does not depend on how its terms were reduced. `PassedOn` counts
digits: the larger root is at least half of Q (`LargerRootFacts`), so that a hint has
at least `MaxComponentLen` digits and the text of a signature is never too short.

What proving changed in the models. `SignatureService` promised too much: a share
may contribute to several messages, see section 2. `Damage` of ThresholdEncryption
could leave a ciphertext as it was; now it changes it. The searches and the
count of digits in TextForms were recursive operators, which the provers cannot
reason about, and are recursive functions now. `OneOddHintIsNoticed` left out the
case that the odd hint is the lowest share's; with it the property has an exception
(`OthersCancel`).

Only model-checked: `VerifyingCollectorSigns`, `KeyGenerationCompletes` and
`SoundCiphertextIsDecrypted`, which are liveness under fairness and out of the
prover's reach.

## 7 Disagreements between code and documents

* `docs/using-distributed-key-generation.md` says that `signerIndex` of
  `VerifyDKGShare` is the index of the participant the share came from.
  `Dkg::Verification` needs the 0-based index of the node that verifies. Run
  `dkg_documented_index` shows an honest share refused.

* `BLSPrivateKeyShare::sign` and `signWithHelper` build a hint whose y coordinate
  always has 77 digits, since the larger root is taken, and
  `fieldElementToString` pads it to 78. `ParseHint` refuses more than
  `BLS_MAX_COMPONENT_LEN` (77), and the constructor of `BLSSigShare` calls it: both
  methods throw. `docs/using-threshold-signatures.md` uses them, and so do the
  tests. Run `sign_throws` shows it.
* `docs/using-threshold-encryption.md` says that all classes but `TEDecryptSet` can
  be created from the strings they are converted to. `TEPublicKey::toString` and
  that of `TEPublicKeyShare` may print a component with a leading zero, which
  `isStringNumber` refuses in the constructors. Run `te_round_trip` shows it.

Met while reading, not stated as properties:

* `docs/using-threshold-signatures.md` says that both `VerifySig` and
  `VerifySigWithHelper` of `BLSPublicKeyShare` verify a piece of the signature. The
  second checks that the hint's y and the shifted x satisfy the curve equation,
  not that they are the point `HashtoG1` finds: it accepts the piece of a signer
  that took the smaller root. What becomes of such pieces is
  `OneOddHintIsNoticed`.
* `tools/README.md` says the signature is saved as `hash.json`; `sign_bls` writes
  the message there and the signature to its output. Its example signs a file
  without `--rehash`, which takes the message for a hash in hexadecimal digits and
  throws if it is not.
* The `hex2carray` of the tools is a copy of the library's in which the test for an
  odd length can never be true (`len == 0 && len % 2 == 1`); `hash_g1` uses the
  library's, which refuses such a text.
* `verify_bls` prints "Bad value" for a signature off the curve and goes on to verify
  it.
* `sign_bls` reads its message with `>>`, which skips white space: texts that differ
  in it have one signature.
* The stepwise overload of `Dkg::Verification` returns the same value for a point
  that fails `ValidateKey` and for a sum that is not complete; a caller that goes on
  after it would leave the point out. Nothing in the repository calls it.
* Constructors of `threshold_encryption/` initialise the curve without the mutex and
  without setting `is_initialized`. With such callers about, a thread may write the
  globals while another one computes; in `curve_init` `UsesCompleteParameters` holds
  only because it assumes that there are none. No document says that objects may be
  constructed by several threads, so this is stated as a hazard.

## 8 What is not modelled

* libff, GMP, OpenSSL and cryptlite: not in the repository. With OpenSSL, the
  symmetric cipher of `encryptWithAES` and `encryptMessage`.
* `hash_g1`, which writes the point and the hint of `hash.json` to a file, and
  `generate_key_system`, which writes a whole set of keys to one: no other tool
  reads these files, and the operations are in the other models.
  `tools/generateBLSKeys.cpp` and `tools/decryptMessage.cpp` are built by no
  target; `encryptMessage.cpp` wraps `TE::encryptMessage` for JavaScript.
* The Python binding: it translates calls of `Dkg`, and includes
  `bls/BLSutils.h`, which is not in the repository at this commit.
* `Bls::Hashing` and `HashBytes`, which multiply a number taken from a hash by the
  generator: a given function to non-zero points stands for them.
* The overloads of `Dkg` that take a threshold as a parameter: the same loops with
  a parameter for `t_`.
* Option parsing, help texts and verbose output of the tools; build files and
  vendored code.
* Two threads on one object: no class claims to be shared, and a data race has no
  outcome to state a property of.

## 9 The plan

Done: all components with runs, and a theorem for every safety property.
Left, in order:

1. Dkg composed with ThresholdSigning and ThresholdEncryption as one module.
   `OneSharing` is the first half, the keys of the finished nodes are one sharing;
   left is what signing can promise when the sum has a lower degree or is 0.
2. An abstract specification of decryption, beside SignatureService, with
   ThresholdEncryption shown to implement it for collectors that verify.
3. The action properties behind the invariants: a broadcast never changes, a
   merged set never does.
