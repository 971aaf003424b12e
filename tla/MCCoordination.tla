--------------------------- MODULE MCCoordination ---------------------------
(* The stores every replica shares, side by side: the lease document, the  *)
(* token bucket, the rate window, the owner record of a node and the audit *)
(* chain.  They share nothing, so a behaviour uses one of them and the     *)
(* others rest.                                                            *)
EXTENDS LeaseStore, TokenBucket, RateWindow, NodeOwner, AuditChain, TLC

VARIABLE part

coordinationVars == <<part, vars, bucketVars, windowVars, ownerVars, auditVars>>

MCLeaseIds == 1 .. 3
(* The audit part borrows the values of the node part, and its symmetry.   *)
MCSymmetry == Permutations(Sockets) \cup Permutations(Replicas)

CoordinationInit ==
    /\ part \in {"lease", "bucket", "window", "node", "audit"}
    /\ Init /\ BucketInit /\ WindowInit /\ NodeOwnerInit /\ AuditInit

(* Only the lease store has to be able to go on for ever.                  *)
CoordinationNext ==
    /\ UNCHANGED part
    /\ \/ /\ part = "lease" /\ Next
          /\ UNCHANGED <<bucketVars, windowVars, ownerVars, auditVars>>
       \/ /\ part = "bucket" /\ BucketNext
          /\ UNCHANGED <<vars, windowVars, ownerVars, auditVars>>
       \/ /\ part = "window" /\ WindowNext
          /\ UNCHANGED <<vars, bucketVars, ownerVars, auditVars>>
       \/ /\ part = "node" /\ NodeOwnerNext
          /\ UNCHANGED <<vars, bucketVars, windowVars, auditVars>>
       \/ /\ part = "audit" /\ AuditNext
          /\ UNCHANGED <<vars, bucketVars, windowVars, ownerVars>>
       \/ /\ part \in {"node", "audit"}
          /\ UNCHANGED <<vars, bucketVars, windowVars, ownerVars, auditVars>>

CoordinationSpec == CoordinationInit /\ [][CoordinationNext]_coordinationVars

(* Every variable of every part has its type.                              *)
CoordinationTypeOK ==
    TypeOK /\ BucketTypeOK /\ WindowTypeOK /\ NodeOwnerTypeOK /\ AuditTypeOK
=============================================================================
