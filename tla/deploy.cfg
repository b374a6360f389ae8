\* Waveforms of one and two objects on one PE and on two.
CONSTANTS
  pe1 = pe1  pe2 = pe2
  PEs = {pe1, pe2}
  Root = pe1
  Apps <- FourApps
  File <- FourFiles
  Wires <- FourWires
  Missing = {"z"}
  MaxCalls = 3
  Setups <- Small
  TotalBW = 1
SPECIFICATION FairSpec
INVARIANTS TypeOK Balanced Agree
PROPERTIES ToldIsTrue AnswerIsOwn CallAnswered RemovedIsGone
CHECK_DEADLOCK FALSE
