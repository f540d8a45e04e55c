------------------------------- MODULE Channel -------------------------------
(***************************************************************************)
(* What a FIFO of art-runtime promises: every reader gets what the writer  *)
(* has written, all of it, once and in order, and the writer is never more *)
(* than Capacity ahead of a reader.  The unit is the one in which the code *)
(* counts: tokens, or bytes when a token is a structure (isBytes).         *)
(***************************************************************************)
EXTENDS Naturals, Sequences, SequencesExt

CONSTANTS Reader, Capacity

VARIABLES
  sent,  \* all that was ever written
  got    \* reader -> all that it has read

Init == sent = <<>> /\ got = [r \in Reader |-> <<>>]

Write ==
  /\ IsStrictPrefix(sent, sent')
  /\ \A r \in Reader : Len(sent') - Len(got[r]) <= Capacity
  /\ UNCHANGED got

Read(r) ==
  /\ \E n \in 1 .. Len(sent) - Len(got[r]) :
       got' = [got EXCEPT ![r] = SubSeq(sent, 1, Len(@) + n)]
  /\ UNCHANGED sent

Next == Write \/ \E r \in Reader : Read(r)

Spec == Init /\ [][Next]_<<sent, got>>
=============================================================================
