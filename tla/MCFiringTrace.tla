---------------------------- MODULE MCFiringTrace -----------------------------
(* FiringTrace on the networks of MCNetworks.                              *)
EXTENDS FiringTrace, MCNetworks
=============================================================================
