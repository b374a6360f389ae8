------------------------------- MODULE MCVars -------------------------------
(* Sizes for Vars: a log takes two slots, a stat one or none, the rest one. *)
EXTENDS Vars
TwoForLogs == [r \in Creates |-> CASE r = "LOGINIT" -> {2} [] r = "STINIT" -> {0, 1} [] OTHER -> {1}]
=============================================================================
