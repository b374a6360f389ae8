------------------------------ MODULE MCChannel ------------------------------
(* Bounds for Channel; the constants are given in the configurations.      *)
EXTENDS Channel
=============================================================================
