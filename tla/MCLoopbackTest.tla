---------------------------- MODULE MCLoopbackTest ----------------------------
(* LoopbackTest with two ports each way and rings of four slots, or of one *)
(* and then two in several calls, and with one port and stale rings.       *)
EXTENDS LoopbackTest

Line(width, min, max, repeats, randomize) ==
  [width |-> width, min |-> min, max |-> max, repeats |-> repeats, randomize |-> randomize]

MCOptions == {Line(2, 1, 2, 2, TRUE), Line(2, 3, 3, 1, TRUE), Line(2, 2, 4, 2, FALSE),
              Line(1, 2, 4, 2, TRUE), Line(1, 3, 3, 3, TRUE)}
=============================================================================
