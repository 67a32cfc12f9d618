------------------------------- MODULE Absent -------------------------------
(***************************************************************************)
(* The value of what is not there: Python's None, SQL's NULL, a file that  *)
(* does not exist.  Shared by the small modules that MCParts checks.       *)
(***************************************************************************)
CONSTANT None
=============================================================================
