------------------------- MODULE ServiceConcurrency -------------------------
(***************************************************************************)
(* The calls of one person to one service that has a concurrency policy.   *)
(* A call claims a slot in the person's scope document, confirms it,       *)
(* renews it while it runs and removes it when it ends.                    *)
(*                                                                         *)
(* Modelled from service_concurrency_service.rs.  Times are what is left   *)
(* of them: slot[c] = 0 is a slot that expired or is not there (the two    *)
(* differ in no query), docLeft = 0 a document the TTL index may delete.   *)
(* The database answers when it likes.  The replica's own timers fire on   *)
(* time: a tick waits for a timer that is due.                             *)
(***************************************************************************)
EXTENDS Integers, FiniteSets

CONSTANTS
    Leases,         \* calls, each with a lease id of its own
    Policies,       \* policies an administrator may set
    Orgs,           \* organisations with a row in the policies
    Unlimited,      \* a row or default without a limit
    NoRow,          \* no row for the person or the organisation
    TTL,            \* life of a slot after a claim or a renewal
    RenewInterval,  \* sleep between renewals
    RenewTimeout    \* wait for the answer of a renewal

Limit == (Nat \ {0}) \cup {Unlimited}
Policy == [user : Limit \cup {NoRow}, org : [Orgs -> Limit \cup {NoRow}],
           members : SUBSET Orgs, default : Limit]

(* The limit of the person: an own row wins, then the most generous row of *)
(* an organisation the person belongs to, then the default.                *)
OrgLimits(p) == {p.org[o] : o \in {g \in p.members : p.org[g] # NoRow}}

EffectiveLimit(p) ==
    IF p.user # NoRow THEN p.user
    ELSE IF OrgLimits(p) = {} THEN p.default
    ELSE IF Unlimited \in OrgLimits(p) THEN Unlimited
    ELSE CHOOSE l \in OrgLimits(p) : \A k \in OrgLimits(p) : k <= l

ASSUME ConcurrencyAssumption ==
    /\ IsFiniteSet(Leases)
    /\ Unlimited \notin Nat
    /\ \A p \in Policies : p \in Policy /\ EffectiveLimit(p) \in Limit
    /\ TTL \in Nat /\ RenewInterval \in Nat /\ RenewTimeout \in Nat
    /\ 0 < RenewTimeout /\ RenewTimeout <= RenewInterval
    /\ RenewInterval + 2 * RenewTimeout < TTL

VARIABLES
    policy,    \* the service's policy
    ceiling,   \* history: the greatest limit any policy has set so far
    slot,      \* time left of each lease's slot
    docLeft,   \* time left of the scope document
    lease,     \* what each call does
    timer,     \* time left to the lease's next renewal
    renewal,   \* renewal in flight: unsent, sent, executed with an answer
    patience,  \* time left to wait for the renewal's answer
    late,      \* renewals given up on that the database may still execute
    release    \* removals of a slot that are on their way

concurrencyVars == <<policy, ceiling, slot, docLeft, lease, timer, renewal,
                     patience, late, release>>

LeaseState == {"idle", "claiming", "claimed", "confirming", "running", "free",
               "ended"}

-----------------------------------------------------------------------------
AtLeast(n, limit) == IF limit # Unlimited /\ limit > n THEN limit ELSE n

Held == {c \in Leases : slot[c] > 0}
Running == {c \in Leases : lease[c].pc = "running"}

(* Every variable has its type.                                            *)
ConcurrencyTypeOK ==
    /\ policy \in Policies
    /\ ceiling \in Nat
    /\ slot \in [Leases -> 0 .. TTL]
    /\ docLeft \in 0 .. TTL
    /\ lease \in [Leases -> [pc : LeaseState, limit : Nat]]
    /\ timer \in [Leases -> 0 .. RenewInterval]
    /\ renewal \in [Leases -> {"none", "sent", "renewed", "refused"}]
    /\ patience \in [Leases -> 0 .. RenewTimeout]
    /\ late \in [Leases -> BOOLEAN]
    /\ release \in [Leases -> BOOLEAN]

ConcurrencyInit ==
    /\ policy \in Policies
    /\ ceiling = AtLeast(0, EffectiveLimit(policy))
    /\ slot = [c \in Leases |-> 0]
    /\ docLeft = 0
    /\ lease = [c \in Leases |-> [pc |-> "idle", limit |-> 0]]
    /\ timer = [c \in Leases |-> 0]
    /\ renewal = [c \in Leases |-> "none"]
    /\ patience = [c \in Leases |-> 0]
    /\ late = [c \in Leases |-> FALSE]
    /\ release = [c \in Leases |-> FALSE]

-----------------------------------------------------------------------------
SetPolicy(p) ==
    /\ policy' = p
    /\ ceiling' = AtLeast(ceiling, EffectiveLimit(p))
    /\ UNCHANGED <<slot, docLeft, lease, timer, renewal, patience, late, release>>

(* A call without a limit takes no lease.                                  *)
Acquire(c) ==
    /\ lease[c].pc = "idle"
    /\ LET limit == EffectiveLimit(policy)
       IN  lease' = [lease EXCEPT ![c] =
             IF limit = Unlimited THEN [pc |-> "free", limit |-> 0]
             ELSE [pc |-> "claiming", limit |-> limit]]
    /\ UNCHANGED <<policy, ceiling, slot, docLeft, timer, renewal, patience,
                   late, release>>

\* slip: the slots are counted with one to spare
HasRoomOffByOne(c) == Cardinality(Held) <= lease[c].limit

HasRoom(c) == Cardinality(Held) < lease[c].limit

(* The transaction prunes expired slots, appends this lease's if there is   *)
(* room, and writes the document either way.                               *)
Claim(c) ==
    /\ lease[c].pc = "claiming"
    /\ docLeft' = TTL
    /\ slot' = IF HasRoom(c) THEN [slot EXCEPT ![c] = TTL] ELSE slot
    /\ lease' = [lease EXCEPT ![c].pc = IF HasRoom(c) THEN "claimed" ELSE "ended"]
    /\ UNCHANGED <<policy, ceiling, timer, renewal, patience, late, release>>

(* The claim fails before it commits, or nobody learns that it committed.  *)
ClaimFails(c) ==
    /\ lease[c].pc \in {"claiming", "claimed"}
    /\ lease' = [lease EXCEPT ![c].pc = "ended"]
    /\ UNCHANGED <<policy, ceiling, slot, docLeft, timer, renewal, patience,
                   late, release>>

(* The commit's answer arrives: the lease guard starts the renewal loop,   *)
(* and a first renewal is sent to confirm the slot.                        *)
Confirm(c) ==
    /\ lease[c].pc = "claimed"
    /\ lease' = [lease EXCEPT ![c].pc = "confirming"]
    /\ timer' = [timer EXCEPT ![c] = RenewInterval]
    /\ renewal' = [renewal EXCEPT ![c] = "sent"]
    /\ patience' = [patience EXCEPT ![c] = RenewTimeout]
    /\ UNCHANGED <<policy, ceiling, slot, docLeft, late, release>>

-----------------------------------------------------------------------------
(* Renewals.                                                               *)

\* slip: the loop goes on after the lease is dropped
LoopNeverStops(c) == lease[c].pc \in {"confirming", "running", "ended"}

(* The loop ends with the lease.                                           *)
LoopAlive(c) == lease[c].pc \in {"confirming", "running"}

RenewalDue(c) == LoopAlive(c) /\ timer[c] = 0 /\ renewal[c] = "none"

SendRenewal(c) ==
    /\ RenewalDue(c)
    /\ renewal' = [renewal EXCEPT ![c] = "sent"]
    /\ patience' = [patience EXCEPT ![c] = RenewTimeout]
    /\ UNCHANGED <<policy, ceiling, slot, docLeft, lease, timer, late, release>>

(* A renewal extends an unexpired slot and the document with it.           *)
Renew(c) ==
    /\ slot' = [slot EXCEPT ![c] = IF @ > 0 THEN TTL ELSE 0]
    /\ docLeft' = IF slot[c] > 0 THEN TTL ELSE docLeft

ExecuteRenewal(c) ==
    /\ renewal[c] = "sent"
    /\ Renew(c)
    /\ renewal' = [renewal EXCEPT ![c] = IF slot[c] > 0 THEN "renewed" ELSE "refused"]
    /\ UNCHANGED <<policy, ceiling, lease, timer, patience, late, release>>

(* The answer is good: the call may run, the loop sleeps again.            *)
RenewalAnswered(c) ==
    /\ LoopAlive(c)
    /\ renewal[c] = "renewed"
    /\ renewal' = [renewal EXCEPT ![c] = "none"]
    /\ timer' = [timer EXCEPT ![c] = IF lease[c].pc = "confirming" THEN @ ELSE RenewInterval]
    /\ lease' = [lease EXCEPT ![c].pc = "running"]
    /\ UNCHANGED <<policy, ceiling, slot, docLeft, patience, late, release>>

(* The lease is dropped: the loop stops, a renewal in flight is forgotten  *)
(* and the removal of the slot is sent.                                    *)
DropLease(c) ==
    /\ lease' = [lease EXCEPT ![c].pc = "ended"]
    /\ renewal' = [renewal EXCEPT ![c] = "none"]
    /\ late' = [late EXCEPT ![c] = @ \/ renewal[c] = "sent"]
    /\ release' = [release EXCEPT ![c] = TRUE]

(* A refusal, or no answer in time, is the loss of the lease: the work is  *)
(* cancelled.  A call that was not confirmed yet is not admitted.          *)
RenewalLost(c) ==
    /\ LoopAlive(c)
    /\ renewal[c] # "none"
    /\ renewal[c] = "refused" \/ patience[c] = 0
    /\ DropLease(c)
    /\ UNCHANGED <<policy, ceiling, slot, docLeft, timer, patience>>

(* The database executes a renewal nobody waits for.                       *)
LateRenewal(c) ==
    /\ late[c]
    /\ late' = [late EXCEPT ![c] = FALSE]
    /\ Renew(c)
    /\ UNCHANGED <<policy, ceiling, lease, timer, renewal, patience, release>>

-----------------------------------------------------------------------------
(* The work is done or the requester is gone.                              *)
Finish(c) ==
    /\ lease[c].pc = "running"
    /\ DropLease(c)
    /\ UNCHANGED <<policy, ceiling, slot, docLeft, timer, patience>>

FinishFree(c) ==
    /\ lease[c].pc = "free"
    /\ lease' = [lease EXCEPT ![c].pc = "ended"]
    /\ UNCHANGED <<policy, ceiling, slot, docLeft, timer, renewal, patience,
                   late, release>>

(* The replica stops: nothing is sent any more.                            *)
Crash(c) ==
    /\ lease[c].pc \in {"claiming", "claimed", "confirming", "running", "free"}
    /\ lease' = [lease EXCEPT ![c].pc = "ended"]
    /\ renewal' = [renewal EXCEPT ![c] = "none"]
    /\ late' = [late EXCEPT ![c] = @ \/ renewal[c] = "sent"]
    /\ UNCHANGED <<policy, ceiling, slot, docLeft, timer, patience, release>>

(* The removal of the slot is executed, or fails and is left to expiry.    *)
Release(c) ==
    /\ release[c]
    /\ release' = [release EXCEPT ![c] = FALSE]
    /\ \/ slot' = [slot EXCEPT ![c] = 0]
       \/ UNCHANGED slot
    /\ UNCHANGED <<policy, ceiling, docLeft, lease, timer, renewal, patience, late>>

(* The TTL index deletes the document and every slot in it.                *)
Reap ==
    /\ docLeft = 0
    /\ slot' = [c \in Leases |-> 0]
    /\ UNCHANGED <<policy, ceiling, docLeft, lease, timer, renewal, patience,
                   late, release>>

-----------------------------------------------------------------------------
Less(n) == IF n > 0 THEN n - 1 ELSE 0

(* A timer of the replica is due: the next renewal or its timeout.         *)
TimerDue(c) ==
    \/ RenewalDue(c)
    \/ LoopAlive(c) /\ renewal[c] # "none" /\ patience[c] = 0

Tick ==
    /\ \A c \in Leases : ~TimerDue(c)
    /\ slot' = [c \in Leases |-> Less(slot[c])]
    /\ docLeft' = Less(docLeft)
    /\ timer' = [c \in Leases |-> Less(timer[c])]
    /\ patience' = [c \in Leases |-> Less(patience[c])]
    /\ UNCHANGED <<policy, ceiling, lease, renewal, late, release>>

LeaseStep(c) ==
    \/ Acquire(c) \/ Claim(c) \/ ClaimFails(c) \/ Confirm(c)
    \/ SendRenewal(c) \/ ExecuteRenewal(c) \/ RenewalAnswered(c)
    \/ RenewalLost(c) \/ LateRenewal(c)
    \/ Finish(c) \/ FinishFree(c) \/ Crash(c) \/ Release(c)

ConcurrencyNext ==
    \/ \E p \in Policies : SetPolicy(p)
    \/ \E c \in Leases : LeaseStep(c)
    \/ Reap
    \/ Tick

ConcurrencySpec == ConcurrencyInit /\ [][ConcurrencyNext]_concurrencyVars

(* Time passes and due timers fire.  The database owes no answer.          *)
ConcurrencyFairness ==
    /\ WF_concurrencyVars(Tick)
    /\ \A c \in Leases : /\ WF_concurrencyVars(SendRenewal(c))
                        /\ WF_concurrencyVars(RenewalLost(c))

ConcurrencyFairSpec == ConcurrencySpec /\ ConcurrencyFairness

-----------------------------------------------------------------------------
(* Never more calls run than the greatest limit that was ever set, however *)
(* late the database answers: a call that may have lost its slot has       *)
(* stopped before the slot can go to another (Lease::new, claim_inner).    *)
ServiceCapacity == Cardinality(Running) <= ceiling

(* The scope document outlives its slots, so that deleting it when its own *)
(* expiry has passed frees no slot that is held (TTL index, renew).        *)
DocumentOutlivesSlots == \A c \in Leases : slot[c] <= docLeft

(* The slot of a call that is over becomes free, even if its removal was   *)
(* lost or its replica crashed.                                            *)
SlotIsReclaimed == \A c \in Leases : lease[c].pc = "ended" ~> slot[c] = 0
=============================================================================
