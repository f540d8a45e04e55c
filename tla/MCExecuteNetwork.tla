-------------------------- MODULE MCExecuteNetwork ---------------------------
(* ExecuteNetwork on the networks of MCNetworks.                           *)
EXTENDS ExecuteNetwork, MCNetworks
=============================================================================
