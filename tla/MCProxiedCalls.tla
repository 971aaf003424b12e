--------------------------- MODULE MCProxiedCalls ---------------------------
(* What a proxied call waits for, an approval, a slot of the service and   *)
(* the socket of a node, and the audit chain that records it.  The four    *)
(* share nothing, so a behaviour uses one of them and the others rest.     *)
EXTENDS Approvals, ServiceConcurrency, NodeOwner, AuditChain

VARIABLE part

proxiedVars == <<part, approvalVars, concurrencyVars, ownerVars, auditVars>>

(* Policies: rows of two organisations, an own row beside a row without a  *)
(* limit, and such a row alone.                                            *)
MCPolicy(user, dev, ops) ==
    [user |-> user, org |-> [o \in Orgs |-> IF o = "dev" THEN dev ELSE ops],
     members |-> Orgs, default |-> 2]

MCPolicies == {MCPolicy(NoRow, 1, NoRow), MCPolicy(1, Unlimited, 1),
               MCPolicy(NoRow, Unlimited, 1)}

ProxiedInit ==
    /\ part \in {"approval", "slot", "node", "audit"}
    /\ ApprovalInit /\ ConcurrencyInit /\ NodeOwnerInit /\ AuditInit
    /\ part # "approval" => mode = "grant"
    /\ part # "slot" => policy = MCPolicy(NoRow, 1, NoRow)

ApprovalPart == /\ part = "approval"
                /\ UNCHANGED <<part, concurrencyVars, ownerVars, auditVars>>
SlotPart == part = "slot" /\ UNCHANGED <<part, approvalVars, ownerVars, auditVars>>
NodePart == part = "node" /\ UNCHANGED <<part, approvalVars, concurrencyVars, auditVars>>
AuditPart == part = "audit" /\ UNCHANGED <<part, approvalVars, concurrencyVars, ownerVars>>

ProxiedNext ==
    \/ ApprovalPart /\ ApprovalNext
    \/ SlotPart /\ ConcurrencyNext
    \/ NodePart /\ NodeOwnerNext
    \/ AuditPart /\ AuditNext

(* The fairness of each part, for its actions as steps of the whole.       *)
ProxiedSpec ==
    /\ ProxiedInit
    /\ [][ProxiedNext]_proxiedVars
    /\ \A c \in Calls : /\ WF_proxiedVars(ApprovalPart /\ CallStep(c))
                        /\ WF_proxiedVars(ApprovalPart /\ Lapse(c))
    /\ WF_proxiedVars(SlotPart /\ Tick)
    /\ \A c \in Leases : /\ WF_proxiedVars(SlotPart /\ SendRenewal(c))
                         /\ WF_proxiedVars(SlotPart /\ RenewalLost(c))
    /\ \A r \in Replicas : /\ WF_proxiedVars(NodePart /\ RenewerStart(r))
                           /\ SF_proxiedVars(NodePart /\ RenewerRenews(r))
                           /\ WF_proxiedVars(NodePart /\ RenewerDrops(r))
    /\ \A y \in Relays : WF_proxiedVars(AuditPart /\ RelayStep(y))
    /\ \A v \in Verifiers : WF_proxiedVars(AuditPart /\ VerifyStep(v))
    /\ \A c \in Changes : WF_proxiedVars(AuditPart /\ CommitChange(c))
=============================================================================
