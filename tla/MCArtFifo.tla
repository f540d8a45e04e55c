------------------------------ MODULE MCArtFifo ------------------------------
(* ArtFifo with a reader on the CPU of the writer, which sees what the     *)
(* writer has just written, and one on another CPU.                        *)
EXTENDS ArtFifo

MCOn == <<<<"w", "own">>, <<"far">>>>
MCPort == {"w", "own", "far"}
=============================================================================
