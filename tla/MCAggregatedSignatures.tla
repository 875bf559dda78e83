------------------------ MODULE MCAggregatedSignatures ------------------------
(* Instances of AggregatedSignatures for TLC, in arithmetic modulo five.    *)
EXTENDS AggregatedSignatures

CONSTANT Text      \* a message that is the digest of no key

MCDigest == [key \in Vectors |-> <<"sha256", key>>]

\* The joiner's key less those of the honest owners.
Difference == [o \in Owners |-> IF o = Joiner THEN 1 ELSE P - 1]

\* What the joiner makes up: nothing, somebody's key, and the difference.
MCMadeUp == {Zero, Difference} \cup {KeyOf(u) : u \in Owners}

\* Two of the messages are digests, of an honest key and of the difference.
MCMsgs == {Text, MCDigest[Difference]} \cup {MCDigest[KeyOf(u)] : u \in Honest}
=============================================================================
