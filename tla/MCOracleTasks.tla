--------------------------- MODULE MCOracleTasks ---------------------------
(* One task and two workers, one of which may disappear.                   *)
EXTENDS OracleTasks
=============================================================================
