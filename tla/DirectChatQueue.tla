-------------------------- MODULE DirectChatQueue --------------------------
(***************************************************************************)
(* The cluster-wide capacity slots of services/coordination_service.rs and *)
(* services/cluster_slot_service.rs, used by the direct-chat limiter of    *)
(* mw/rate_limit.rs: one person may run a few replies at once, further     *)
(* NyxAgent turns wait in a bounded queue, first come first served, and    *)
(* every slot and every queue place is one MongoDB document that expires   *)
(* unless its guard's renewal task keeps it.                               *)
(*                                                                         *)
(* An expired document and a deleted one are equally claimable, unseen by  *)
(* every filter on expires_at and refused by renew, so both are Free, and  *)
(* the release of a lease whose document is gone changes nothing.          *)
(* Lease ids are UUIDv7 drawn on different replicas: within one tick of    *)
(* the clock their order is arbitrary, here the order of the turn numbers. *)
(***************************************************************************)
EXTENDS Naturals, FiniteSets

CONSTANTS QueueTurns,  \* turns that may wait: admit
          NowTurns,    \* turns that run now or are refused: try_acquire
          MaxInFlight, \* running slots of the person
          MaxQueued,   \* queue places of the person
          TTL,         \* life of a slot in ticks
          MaxNow,      \* bound: acquired_at is not told apart beyond this tick
          MaxFaults,   \* bound: crashes and database errors
          Timely       \* TRUE: renewal and cancellation beat the expiry

Turns == QueueTurns \cup NowTurns
Pools == {"run", "queue"}
Limit(ns) == IF ns = "queue" THEN MaxQueued ELSE MaxInFlight
Slots(ns) == 0 .. Limit(ns) - 1

ASSUME DirectChatAssumption ==
    /\ Turns \subseteq Nat \ {0}
    /\ QueueTurns \cap NowTurns = {}
    /\ MaxInFlight \in Nat \ {0} /\ MaxQueued \in Nat \ {0}
    /\ TTL \in Nat \ {0} /\ MaxNow \in Nat /\ MaxFaults \in Nat
    /\ Timely \in BOOLEAN

VARIABLES rows,   \* rows[ns][slot]: the slot documents of namespace and person
          guard,  \* guard[t][ns]: the turn's RenewableSlotGuard of that namespace
          probe,  \* probe[t]: where its SlotStore::acquire loop stands
          pc,     \* pc[t]: how far the turn's admission got
          claim,  \* claim[t]: its outstanding SlotClaim task
          now, faults,
          ahead   \* history: who was in line when t took its running slot

vars == <<rows, guard, probe, pc, claim, now, faults, ahead>>

\* A document is "kept" by the guard of its turn, "dropped" with its release
\* under way, or an "orphan" of a crash or of a write that reported an error.
Free == [turn |-> 0, owner |-> "none", at |-> 0, ttl |-> 0]
SlotRow == [turn: Turns, owner: {"kept", "dropped", "orphan"}, at: 0 .. MaxNow, ttl: 1 .. TTL]
           \cup {Free}
NoProbe == [slot |-> 0, left |-> 0]

Live(ns) == {s \in Slots(ns) : rows[ns][s].ttl > 0}
Kept(t, ns) == {s \in Slots(ns) : rows[ns][s].turn = t /\ rows[ns][s].owner = "kept"}
LiveGuard(t, ns) == guard[t][ns] # "none" /\ Kept(t, ns) # {}

\* The acquire loops under way on a pool.
Probing(u, ns) == \/ ns = "run" /\ (pc[u] = "slot" \/ claim[u] = "acquire")
                  \/ ns = "queue" /\ pc[u] = "place"

\* Types; the loop probes slots that exist; every kept document has its guard.
TypeOK ==
    /\ \A ns \in Pools : rows[ns] \in [Slots(ns) -> SlotRow]
    /\ guard \in [Turns -> [Pools -> {"none", "held", "lost"}]]
    /\ probe \in [Turns -> [slot: Nat, left: 0 .. MaxInFlight + MaxQueued]]
    /\ pc \in [Turns -> {"idle", "slot", "line", "place", "request", "waiting",
                         "running", "done"}]
    /\ claim \in [Turns -> {"none", "acquire", "got"}]
    /\ now \in 0 .. MaxNow /\ faults \in 0 .. MaxFaults
    /\ ahead \in [Turns -> SUBSET Turns]
    /\ \A t \in Turns, ns \in Pools :
          /\ Probing(t, ns) => probe[t].slot \in Slots(ns)
          /\ Cardinality(Kept(t, ns)) <= 1
          /\ Kept(t, ns) # {} => guard[t][ns] # "none"

Init ==
    /\ rows = [ns \in Pools |-> [s \in Slots(ns) |-> Free]]
    /\ guard = [t \in Turns |-> [ns \in Pools |-> "none"]]
    /\ probe = [t \in Turns |-> NoProbe]
    /\ pc = [t \in Turns |-> "idle"]
    /\ claim = [t \in Turns |-> "none"]
    /\ now = 0 /\ faults = 0
    /\ ahead = [t \in Turns |-> {}]

-----------------------------------------------------------------------------
(* SlotStore: any_live, is_oldest_live, and the acquire loop, which probes  *)
(* the slots one command at a time, starting anywhere.                      *)

AnyLive(ns) == Live(ns) # {}

\* slip: claims of one millisecond are not ordered
BeforeInTime(a, b) == a.at < b.at
\* Sorted by acquired_at, then by lease id.
Before(a, b) == a.at < b.at \/ (a.at = b.at /\ a.turn < b.turn)
OldestLive(t) ==
    \E s \in Kept(t, "queue") :
       \A u \in Live("queue") \ {s} : Before(rows["queue"][s], rows["queue"][u])

\* slot_start: a hash of the lease id modulo the limit.
SlotStart(ns) == Slots(ns)
StartProbe(t, ns) ==
    \E s \in SlotStart(ns) : probe' = [probe EXCEPT ![t] = [slot |-> s, left |-> Limit(ns)]]

Written(t, ns, owner) ==
    [rows EXCEPT ![ns][probe[t].slot] =
        [turn |-> t, owner |-> owner, at |-> IF ns = "queue" THEN now ELSE 0, ttl |-> TTL]]

\* slip: the document is overwritten whether or not it is still in force
HitLive(t, ns) ==
    /\ rows' = Written(t, ns, "kept")
    /\ guard' = [guard EXCEPT ![t][ns] = "held"]
    /\ probe' = [probe EXCEPT ![t] = NoProbe]
\* claimable_stage: the document is missing or expired and takes this lease.
Hit(t, ns) ==
    /\ probe[t].slot \notin Live(ns)
    /\ rows' = Written(t, ns, "kept")
    /\ guard' = [guard EXCEPT ![t][ns] = "held"]
    /\ probe' = [probe EXCEPT ![t] = NoProbe]

\* Another lease came back: go on to the next slot.
Miss(t, ns) ==
    /\ Probing(t, ns)
    /\ probe[t].slot \in Live(ns) /\ probe[t].left > 1
    /\ probe' = [probe EXCEPT ![t] = [slot |-> (@.slot + 1) % Limit(ns), left |-> @.left - 1]]
    /\ UNCHANGED <<rows, guard, pc, claim, now, faults, ahead>>

Exhausted(t, ns) == probe[t].slot \in Live(ns) /\ probe[t].left = 1

\* Dropping guards stops their renewal and spawns the release of their leases.
Drop(t, pools) ==
    /\ guard' = [guard EXCEPT ![t] = [ns \in Pools |-> IF ns \in pools THEN "none" ELSE @[ns]]]
    /\ rows' = [ns \in Pools |-> [s \in Slots(ns) |->
                  IF ns \in pools /\ s \in Kept(t, ns)
                  THEN [rows[ns][s] EXCEPT !.owner = "dropped"] ELSE rows[ns][s]]]

\* Whoever has a live place when t takes a running slot is ahead of t: of a
\* newcomer all of them, of a queued turn those that took theirs in an earlier
\* tick.
NoteAhead(t) ==
    ahead' = [ahead EXCEPT ![t] =
        {u \in Turns \ {t} :
           \E s \in Kept(u, "queue") :
              \/ guard[t]["queue"] = "none"
              \/ \E p \in Kept(t, "queue") : rows["queue"][s].at < rows["queue"][p].at}]

-----------------------------------------------------------------------------
(* Admission: try_acquire for NowTurns, admit for QueueTurns. *)

Arrive(t) ==
    /\ pc[t] = "idle"
    /\ pc' = [pc EXCEPT ![t] = "slot"]
    /\ StartProbe(t, "run")
    /\ UNCHANGED <<rows, guard, claim, now, faults, ahead>>

TakeFirst(t) ==
    /\ pc[t] = "slot"
    /\ Hit(t, "run")
    /\ NoteAhead(t)
    /\ pc' = [pc EXCEPT ![t] = IF t \in QueueTurns THEN "line" ELSE "request"]
    /\ UNCHANGED <<claim, now, faults>>

\* No running slot: a NyxAgent turn asks for a queue place.
AskPlace(t) ==
    /\ pc[t] = "slot" /\ t \in QueueTurns
    /\ Exhausted(t, "run")
    /\ pc' = [pc EXCEPT ![t] = "place"]
    /\ StartProbe(t, "queue")
    /\ UNCHANGED <<rows, guard, claim, now, faults, ahead>>

\* slip: the free slot is kept without looking at the line
CheckNothing(t) ==
    /\ pc[t] = "line"
    /\ pc' = [pc EXCEPT ![t] = "request"]
    /\ UNCHANGED <<rows, guard, probe, claim, now, faults, ahead>>
\* A slot was free, but somebody is waiting: give it back and queue.
CheckLine(t) ==
    /\ pc[t] = "line"
    /\ IF AnyLive("queue")
       THEN /\ Drop(t, {"run"})
            /\ ahead' = [ahead EXCEPT ![t] = {}]
            /\ pc' = [pc EXCEPT ![t] = "place"]
            /\ StartProbe(t, "queue")
       ELSE /\ pc' = [pc EXCEPT ![t] = "request"]
            /\ UNCHANGED <<rows, guard, ahead, probe>>
    /\ UNCHANGED <<claim, now, faults>>

TakePlace(t) ==
    /\ pc[t] = "place"
    /\ Hit(t, "queue")
    /\ pc' = [pc EXCEPT ![t] = "request"]
    /\ UNCHANGED <<claim, now, faults, ahead>>

\* The admission ends without a permit; what it holds is dropped.
EndAdmission(t) ==
    /\ pc' = [pc EXCEPT ![t] = "done"]
    /\ Drop(t, Pools)
    /\ probe' = [probe EXCEPT ![t] = NoProbe]
    /\ ahead' = [ahead EXCEPT ![t] = {}]
    /\ UNCHANGED <<claim, now, faults>>

\* Ok(None) from the last acquire: AppError::RateLimited.
Refuse(t) ==
    /\ \/ pc[t] = "slot" /\ t \in NowTurns /\ Exhausted(t, "run")
       \/ pc[t] = "place" /\ Exhausted(t, "queue")
    /\ EndAdmission(t)

\* admit_request: within the request window the turn runs, or waits in line.
AdmitRequest(t) ==
    /\ pc[t] = "request"
    /\ pc' = [pc EXCEPT ![t] = IF guard[t]["run"] # "none" THEN "running" ELSE "waiting"]
    /\ UNCHANGED <<rows, guard, probe, claim, now, faults, ahead>>

\* The window is used up, a command failed, or the caller went away.
Abort(t) == pc[t] \in {"line", "request"} /\ EndAdmission(t)

-----------------------------------------------------------------------------
(* Leaving the queue: wait_queued polls with claim_slot, a task of its own. *)

\* The oldest in line starts to claim; for anybody else nothing happens.
CheckOldest(t) ==
    /\ pc[t] = "waiting" /\ claim[t] = "none"
    /\ OldestLive(t)
    /\ claim' = [claim EXCEPT ![t] = "acquire"]
    /\ StartProbe(t, "run")
    /\ UNCHANGED <<rows, guard, pc, now, faults, ahead>>

ClaimHit(t) ==
    /\ claim[t] = "acquire"
    /\ Hit(t, "run")
    /\ NoteAhead(t)
    /\ claim' = [claim EXCEPT ![t] = "got"]
    /\ UNCHANGED <<pc, now, faults>>

ClaimNothing(t) ==
    /\ claim[t] = "acquire" /\ Exhausted(t, "run")
    /\ claim' = [claim EXCEPT ![t] = "none"]
    /\ probe' = [probe EXCEPT ![t] = NoProbe]
    /\ UNCHANGED <<rows, guard, pc, now, faults, ahead>>

\* take_slot: the place is traded for the slot unless it was lost meanwhile.
TakeSlot(t) ==
    /\ pc[t] = "waiting" /\ claim[t] = "got"
    /\ claim' = [claim EXCEPT ![t] = "none"]
    /\ IF guard[t]["queue"] = "held"
       THEN pc' = [pc EXCEPT ![t] = "running"] /\ Drop(t, {"queue"})
       ELSE UNCHANGED pc /\ Drop(t, {"run"})
    /\ UNCHANGED <<probe, now, faults, ahead>>

\* Stop, the deadline, or a failed queue mark.  A claim that has its answer is
\* dropped with its slot, a running one goes on without its waiter.
Leave(t) ==
    /\ pc[t] = "waiting"
    /\ pc' = [pc EXCEPT ![t] = "done"]
    /\ Drop(t, Pools)
    /\ claim' = [claim EXCEPT ![t] = IF @ = "got" THEN "none" ELSE @]
    /\ ahead' = [ahead EXCEPT ![t] = {}]
    /\ UNCHANGED <<probe, now, faults>>

\* permit.cancelled(): the renewal of the place failed.
LeaveLost(t) == guard[t]["queue"] = "lost" /\ Leave(t)

\* The waiter is gone: the slot its task claimed is released.
DropClaim(t) ==
    /\ pc[t] # "waiting" /\ claim[t] = "got"
    /\ Drop(t, {"run"})
    /\ claim' = [claim EXCEPT ![t] = "none"]
    /\ ahead' = [ahead EXCEPT ![t] = {}]
    /\ UNCHANGED <<probe, pc, now, faults>>

\* The reply ends, by itself or because its slot was lost.
Finish(t) ==
    /\ pc[t] = "running"
    /\ pc' = [pc EXCEPT ![t] = "done"]
    /\ Drop(t, Pools)
    /\ ahead' = [ahead EXCEPT ![t] = {}]
    /\ UNCHANGED <<probe, claim, now, faults>>

-----------------------------------------------------------------------------
(* The guard's renewal task, its spawned release, and what can go wrong. *)

Renewed(t, ns) == [rows EXCEPT ![ns] = [s \in Slots(ns) |->
                     IF s \in Kept(t, ns) THEN [@[s] EXCEPT !.ttl = TTL] ELSE @[s]]]

\* SlotStore::renew under active_lease_filter; Ok(false) cancels the holder.
Renew(t, ns) ==
    /\ guard[t][ns] = "held"
    /\ IF LiveGuard(t, ns)
       THEN rows' = Renewed(t, ns) /\ UNCHANGED guard
       ELSE guard' = [guard EXCEPT ![t][ns] = "lost"] /\ UNCHANGED rows
    /\ UNCHANGED <<probe, pc, claim, now, faults, ahead>>

\* The spawned SlotStore::release deletes exactly this lease.
Release(ns, s) ==
    /\ rows[ns][s].owner = "dropped"
    /\ rows' = [rows EXCEPT ![ns][s] = Free]
    /\ UNCHANGED <<guard, probe, pc, claim, now, faults, ahead>>

Fault == faults < MaxFaults /\ faults' = faults + 1

\* Err from renew, whether or not the command reached the document.
RenewFails(t, ns) ==
    /\ Fault /\ guard[t][ns] = "held"
    /\ guard' = [guard EXCEPT ![t][ns] = "lost"]
    /\ rows' \in {rows, Renewed(t, ns)}
    /\ UNCHANGED <<probe, pc, claim, now, ahead>>

\* Err from release: the document stays until it expires.
ReleaseFails(ns, s) ==
    /\ Fault /\ rows[ns][s].owner = "dropped"
    /\ rows' = [rows EXCEPT ![ns][s].owner = "orphan"]
    /\ UNCHANGED <<guard, probe, pc, claim, now, ahead>>

\* Err from a command of the acquire loop, or the caller goes away during it.
\* If the write took effect, nobody has the token of that document.
AcquireFails(t, ns) ==
    /\ Fault /\ Probing(t, ns)
    /\ \/ UNCHANGED rows
       \/ probe[t].slot \notin Live(ns) /\ rows' = Written(t, ns, "orphan")
    /\ probe' = [probe EXCEPT ![t] = NoProbe]
    /\ claim' = [claim EXCEPT ![t] = "none"]
    /\ pc' = [pc EXCEPT ![t] = IF @ \in {"slot", "place"} THEN "done" ELSE @]
    /\ UNCHANGED <<guard, now, ahead>>

\* The replica of t stops: no guard of it is dropped, nothing is released.
Crash(t) ==
    /\ Fault /\ pc[t] # "idle" /\ (pc[t] # "done" \/ claim[t] # "none")
    /\ pc' = [pc EXCEPT ![t] = "done"]
    /\ guard' = [guard EXCEPT ![t] = [ns \in Pools |-> "none"]]
    /\ rows' = [ns \in Pools |-> [s \in Slots(ns) |->
                  IF s \in Kept(t, ns) THEN [rows[ns][s] EXCEPT !.owner = "orphan"]
                  ELSE rows[ns][s]]]
    /\ probe' = [probe EXCEPT ![t] = NoProbe]
    /\ claim' = [claim EXCEPT ![t] = "none"]
    /\ ahead' = [ahead EXCEPT ![t] = {}]
    /\ UNCHANGED now

\* cluster_slot_renew_secs is a fraction of cluster_slot_ttl_secs.  On time
\* means that no guard in use lets its document run out.
OnTime == \A ns \in Pools : \A s \in Slots(ns) :
             rows[ns][s].owner = "kept" => rows[ns][s].ttl > 1

Aged(row) == IF row.ttl <= 1 THEN Free ELSE [row EXCEPT !.ttl = @ - 1]
Tick ==
    /\ Timely => OnTime
    /\ now' = IF now < MaxNow THEN now + 1 ELSE now
    /\ rows' = [ns \in Pools |-> [s \in Slots(ns) |-> Aged(rows[ns][s])]]
    /\ UNCHANGED <<guard, probe, pc, claim, faults, ahead>>

TurnStep(t) ==
    \/ TakeFirst(t) \/ AskPlace(t) \/ CheckLine(t) \/ TakePlace(t) \/ Refuse(t)
    \/ AdmitRequest(t) \/ CheckOldest(t) \/ ClaimHit(t) \/ ClaimNothing(t)
    \/ TakeSlot(t) \/ DropClaim(t) \/ Finish(t)
    \/ \E ns \in Pools : Miss(t, ns)

Next ==
    \/ \E t \in Turns : \/ Arrive(t) \/ TurnStep(t) \/ Abort(t) \/ Leave(t)
                        \/ Crash(t)
    \/ \E t \in Turns, ns \in Pools : \/ Renew(t, ns) \/ RenewFails(t, ns)
                                      \/ AcquireFails(t, ns)
    \/ \E ns \in Pools : \E s \in Slots(ns) : Release(ns, s) \/ ReleaseFails(ns, s)
    \/ Tick

Spec == Init /\ [][Next]_vars

\* Every task the runtime spawned keeps running; time passes; nothing forces a
\* person to stop a turn, a caller to go away or a replica to fail.
FairSpec ==
    /\ Spec
    /\ \A t \in Turns : /\ WF_vars(TurnStep(t))
                        /\ WF_vars(LeaveLost(t))
                        /\ \A ns \in Pools : WF_vars(Renew(t, ns))
    /\ \A ns \in Pools : \A s \in Slots(ns) : WF_vars(Release(ns, s))
    /\ WF_vars(Tick)

-----------------------------------------------------------------------------
(* Properties. *)

\* While renewals and cancellations are on time, a person never has more than
\* MaxInFlight replies running at once, across replicas, whatever releases were
\* lost, delayed or late, and however slots changed hands (rate_limit.rs,
\* DIRECT_CHAT_MAX_IN_FLIGHT).
Capacity == Timely => Cardinality({t \in Turns : pc[t] = "running"}) <= MaxInFlight

\* A turn that starts to run overtakes nobody that was in line, with a place
\* still live, when its running slot was taken: neither a newcomer that found
\* a free slot nor a queued turn whose claim was started long before.  Only
\* try_acquire, which never queues, may pass the line.
OvertakesNobody ==
    \A t \in QueueTurns :
       (pc[t] # "running" /\ pc'[t] = "running") => \A u \in ahead[t] : ~LiveGuard(u, "queue")

\* A turn waiting in line is served or leaves, though places and slots of
\* crashed replicas, lost releases and abandoned claims stand in its way.
EveryWaiterSettles == \A t \in QueueTurns : (pc[t] = "waiting") ~> (pc[t] # "waiting")
=============================================================================
