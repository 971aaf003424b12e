---------------------------- MODULE MCApprovals ----------------------------
(* One call, one decision, one change of the mode.                         *)
EXTENDS Approvals
=============================================================================
