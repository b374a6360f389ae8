------------------------------ MODULE MCDeploy ------------------------------
(* Waveforms and platforms for Deploy. *)
EXTENDS Deploy

CONSTANTS pe1, pe2

\* Two objects with executables of their own and a wire; one with an executable
\* the two share; one without an executable; and a file that does not parse.
FourApps == {"two", "one", "bare", "torn"}
FourFiles ==
  [a \in FourApps |->
     CASE a = "two"  -> <<[exe |-> "x", mops |-> 1], [exe |-> "y", mops |-> 1]>>
       [] a = "one"  -> <<[exe |-> "x", mops |-> 1]>>
       [] a = "bare" -> <<[exe |-> "z", mops |-> 1]>>
       [] a = "torn" -> <<>>]
FourWires == [a \in FourApps |-> IF a = "two" THEN {<<1, 2>>} ELSE {}]

\* One PE, and two on which both objects of "two" do not fit on one.
OnePE  == [r \in {pe1, pe2} |-> IF r = pe1 THEN 2 ELSE 0]
TwoPEs == [r \in {pe1, pe2} |-> 1]
Small ==
  {[C |-> OnePE, apps |-> {"two"}, asked |-> {"RUN", "STOP"}, calls |-> 3, faults |-> 1],
   [C |-> TwoPEs, apps |-> {"two", "one"}, asked |-> {"RUN", "STEP", "STOP"},
    calls |-> 3, faults |-> 0],
   [C |-> TwoPEs, apps |-> {"two"}, asked |-> {"RUN", "STOP"}, calls |-> 2, faults |-> 1],
   [C |-> OnePE, apps |-> {"one", "bare", "torn"}, asked |-> {"STEP"}, calls |-> 2, faults |-> 2]}
=============================================================================
