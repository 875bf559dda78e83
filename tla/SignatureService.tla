-------------------------- MODULE SignatureService --------------------------
(***************************************************************************)
(* What a threshold signature scheme promises its users: once T of the     *)
(* signers have signed a message, a collector may obtain the signature of  *)
(* that message under the common key, the only one there is, and it never  *)
(* obtains anything else.  ThresholdSigning implements it.                 *)
(***************************************************************************)
EXTENDS Naturals, FiniteSets

CONSTANTS
  T, Signers, Msgs, Collectors, Target,
  Keys,                \* the common keys there may be
  SignatureOf(_, _),   \* the signature of a message under a common key
  NoSignature

VARIABLES
  commonKey,   \* chosen by key generation, once
  signedBy,    \* who has signed each message
  obtained     \* the signature each collector has

vars == <<commonKey, signedBy, obtained>>

Init ==
    /\ commonKey \in Keys
    /\ signedBy = [m \in Msgs |-> {}]
    /\ obtained = [c \in Collectors |-> NoSignature]

\* Signer i contributes to the messages in ms: to more than one at once if
\* what it multiplied by its key is a point of each of them.
Contribute(i, ms) ==
    /\ signedBy' = [m \in Msgs |-> IF m \in ms THEN signedBy[m] \cup {i} ELSE signedBy[m]]
    /\ UNCHANGED <<commonKey, obtained>>

Obtain(c) ==
    /\ Cardinality(signedBy[Target[c]]) >= T
    /\ obtained' = [obtained EXCEPT ![c] = SignatureOf(Target[c], commonKey)]
    /\ UNCHANGED <<commonKey, signedBy>>

Next ==
    \/ \E i \in Signers, ms \in SUBSET Msgs : Contribute(i, ms)
    \/ \E c \in Collectors : Obtain(c)

Spec == Init /\ [][Next]_vars
=============================================================================
