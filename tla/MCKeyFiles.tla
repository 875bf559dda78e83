----------------------------- MODULE MCKeyFiles -----------------------------
(* Instances of KeyFiles for TLC: three participants of which two are      *)
(* needed.                                                                 *)
EXTENDS KeyFiles, TLC

\* "ab" is a hash in hexadecimal digits, and "hello" is not: without --rehash
\* it is refused.
MCBytesOf ==
    [q \in Texts \X BOOLEAN |->
        CASE q = <<"ab", FALSE>>    -> 1
          [] q = <<"ab", TRUE>>     -> 2
          [] q = <<"hello", TRUE>>  -> 3
          [] q = <<"hello", FALSE>> -> Invalid]

OutSymmetry == Permutations(Outs)
=============================================================================
