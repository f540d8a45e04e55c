------------------------- MODULE MCSoftwareBenchmark --------------------------
(* SoftwareBenchmark, two round trips on the network bench of MCNetworks.  *)
EXTENDS SoftwareBenchmark, MCNetworks

\* With words of three bits and a mantissa of five: stamps that differ in
\* both words, and stamps beyond the mantissa.
MCReadings == {<<5, 9, 17, 30>>, <<23, 38, 49, 62>>}
=============================================================================
