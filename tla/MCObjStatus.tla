----------------------------- MODULE MCObjStatus -----------------------------
(* Model values and bounds for ObjStatus.                                  *)
EXTENDS ObjStatus, TLC

\* memcpy reads struct hwapi_proc_i upwards: obj_id, pid, change_progress and
\* then status.  What it reads late is the upper part of the structure.
ForwardTears ==
  {{}, {"next"}, {"cur", "next"}, {"progress", "cur", "next"},
   {"pid", "progress", "cur", "next"}}

\* The copy is made in one step.
NoTears == {{}}

IdSymmetry == Permutations(Ids)
=============================================================================
