--------------------------- MODULE TriggerSchedule ---------------------------
(***************************************************************************)
(* Scheduled triggers (services/trigger_schedule.rs) and the scheduler     *)
(* every replica runs (handlers/trigger_scheduler.rs), for one trigger     *)
(* that delivers to an existing target.  Work documents are claimed under  *)
(* a lease; a schedule job turns a due time into a run and a job of its    *)
(* own, and a run job delivers the run.                                    *)
(*                                                                         *)
(* A run is known by the time it is scheduled for, as run_id is computed   *)
(* from it; the schedule job has the number 0.  A fence is a fresh value   *)
(* per claim; as a worker has one claim at a time, its name will do.       *)
(* The ways a run can end are not told apart.  Confirmations, coordinators *)
(* and the projection of the last run are left out.                        *)
(***************************************************************************)
EXTENDS Naturals, FiniteSets

CONSTANTS
    Schedulers,  \* scheduler tasks, each on a replica
    NoScheduler, \* the empty fence
    NoWork,      \* no work document
    NoRun,       \* no run document
    Period,      \* time between occurrences
    Grace,       \* a run waits this long for its turn
    JobLease,    \* LEASE_SECONDS
    RunLease,    \* ACTIVE_TURN_TTL_SECS
    Jitter,      \* bound of dispatch_offset
    MaxMinute,   \* bound on time, and the schedule's end
    MaxEdits,    \* bound on edits of the trigger
    MaxIncidents \* bound on runs besides the schedule and workers that stop, together

ASSUME ScheduleAssumption ==
    /\ Period \in Nat \ {0} /\ MaxMinute \in Nat /\ MaxEdits \in Nat
    /\ MaxIncidents \in Nat
    /\ Grace \in Nat /\ JobLease \in Nat \ {0} /\ RunLease \in Nat \ {0} /\ Jitter \in Nat

Minutes == 1 .. MaxMinute

VARIABLES
    minute,    \* the time
    trigger,   \* the trigger; due is 0 when nothing is due any more
    run,       \* run documents
    work,      \* work documents
    scheduler, \* what each scheduler is doing
    missed,    \* times covered by summaries of missed occurrences
    delivered, \* history: how often each run was delivered
    incidents  \* runs besides the schedule and workers stopped so far

scheduleVars == <<minute, trigger, run, work, scheduler, missed, delivered, incidents>>

Run(outcome, reason) == [outcome |-> outcome, reason |-> reason]
Work(at, fence) == [at |-> at, fence |-> fence]
Idle == [pc |-> "idle", id |-> 0, at |-> 0, version |-> 0]

Unfinished == {"pending", "started"}

RunDoc == [outcome : Unfinished \cup {"over"}, reason : {"none", "full"}]
WorkDoc == [at : 0 .. MaxMinute + RunLease + JobLease + Jitter,
            fence : Schedulers \cup {NoScheduler}]
TriggerDoc == [status : {"active", "disabled", "deleted"}, due : 0 .. MaxMinute,
               since : 0 .. MaxMinute, version : 0 .. MaxEdits, overlap : {"skip", "queue"}]
SchedulerDoc == [pc : {"idle", "occurrence", "claim", "job", "trigger", "admit", "deliver",
                       "defer", "skip", "finish", "record"},
                 id : 0 .. MaxMinute, at : 0 .. MaxMinute, version : 0 .. MaxEdits]

ASSUME NoDocumentAssumption == NoRun \notin RunDoc /\ NoWork \notin WorkDoc

(* Every variable has its type.                                            *)
ScheduleTypeOK ==
    /\ minute \in 0 .. MaxMinute
    /\ trigger \in TriggerDoc
    /\ run \in [Minutes -> RunDoc \cup {NoRun}]
    /\ work \in [0 .. MaxMinute -> WorkDoc \cup {NoWork}]
    /\ scheduler \in [Schedulers -> SchedulerDoc]
    /\ missed \subseteq Minutes
    /\ delivered \in [Minutes -> 0 .. 2]
    /\ incidents \in 0 .. MaxIncidents

-----------------------------------------------------------------------------
(* The schedule: compute.rs for a trigger that fires every Period.         *)

LatestDue(t) == (t \div Period) * Period

\* slip: the end of the schedule is not looked at
NextDueForEver(t) == LatestDue(t) + Period
(* The first occurrence after a time, up to the end.                       *)
NextDue(t) == LET n == LatestDue(t) + Period IN IF n <= MaxMinute THEN n ELSE 0

ScheduleJob(t) == IF t.status = "active" /\ t.due # 0 THEN Work(t.due, NoScheduler) ELSE NoWork

ScheduleInit ==
    /\ minute = 0
    /\ trigger \in [status : {"active"}, due : {NextDue(0)}, since : {NextDue(0)},
                    version : {0}, overlap : {"skip", "queue"}]
    /\ run = [t \in Minutes |-> NoRun]
    /\ work = [i \in 0 .. MaxMinute |-> IF i = 0 THEN ScheduleJob(trigger) ELSE NoWork]
    /\ scheduler = [w \in Schedulers |-> Idle]
    /\ missed = {}
    /\ delivered = [t \in Minutes |-> 0]
    /\ incidents = 0

-----------------------------------------------------------------------------
(* Work documents.                                                         *)

SchedulerAt(w, pc) ==
    scheduler' = [scheduler EXCEPT ![w] = [Idle EXCEPT !.pc = pc, !.id = scheduler[w].id]]
Done(w) == scheduler' = [scheduler EXCEPT ![w] = Idle]

DueWork(i) == work[i] # NoWork /\ work[i].at <= minute

HasFence(w, i) == work[i] # NoWork /\ work[i].fence = w

(* The worker's claim still stands at time t.                              *)
Holds(w, i, t) == HasFence(w, i) /\ work[i].at > t

(* claim: the lease ends JobLease from now.                                *)
ClaimWork(w, i) ==
    /\ scheduler[w].pc = "idle"
    /\ DueWork(i)
    /\ work' = [work EXCEPT ![i] = Work(minute + JobLease, w)]
    /\ scheduler' = [scheduler EXCEPT ![w] =
         [Idle EXCEPT !.pc = IF i = 0 THEN "occurrence" ELSE "job", !.id = i, !.at = IF i = 0 THEN minute ELSE 0]]
    /\ UNCHANGED <<minute, trigger, run, missed, delivered, incidents>>

-----------------------------------------------------------------------------
(* Runs.                                                                   *)

Outstanding == {t \in Minutes : run[t] # NoRun /\ run[t].outcome \in Unfinished
                                /\ run[t].reason # "full"}

\* slip: one more run may wait
NewRunRoomy ==
    Run("pending", IF \/ trigger.overlap = "skip" /\ Outstanding # {}
                      \/ Cardinality(Outstanding) > 2
                   THEN "full" ELSE "none")
(* insert_run: a run with no place is inserted to be skipped.              *)
NewRun ==
    Run("pending", IF \/ trigger.overlap = "skip" /\ Outstanding # {}
                      \/ Cardinality(Outstanding) >= 2
                   THEN "full" ELSE "none")

(* enqueue_now: a run besides the schedule, due at once.                   *)
RunNow ==
    /\ trigger.status = "active"
    /\ incidents < MaxIncidents
    /\ minute # 0
    /\ run[minute] = NoRun
    /\ run' = [run EXCEPT ![minute] = NewRun]
    /\ work' = [work EXCEPT ![minute] = Work(minute, NoScheduler)]
    /\ incidents' = incidents + 1
    /\ UNCHANGED <<minute, trigger, scheduler, missed, delivered>>

(* The trigger after an occurrence: its next due time.                     *)
Advanced(t) == [trigger EXCEPT !.due = NextDue(t)]

(* claim_occurrence, one transaction: the latest due time becomes a run,   *)
(* the due times before it a summary, and the schedule advances.  The time *)
(* t it works with was taken after the claim and may be past.              *)
TakenAt(t) == IF LatestDue(t) > trigger.due THEN LatestDue(t) ELSE trigger.due

Takes(w, t) ==
    /\ Holds(w, 0, t)
    /\ trigger.status = "active" /\ trigger.due # 0 /\ trigger.due <= t
    /\ run[trigger.due] = NoRun /\ run[TakenAt(t)] = NoRun

TakeOccurrence(w, t) ==
    /\ Takes(w, t)
    /\ run' = [run EXCEPT ![trigger.due] = Run("over", "none"), ![TakenAt(t)] = NewRun]
    /\ missed' = missed \cup {m \in trigger.due .. TakenAt(t) - 1 : m % Period = 0}
    /\ trigger' = Advanced(t)
    /\ \E jitter \in 0 .. Jitter :
         work' = [work EXCEPT ![TakenAt(t)] = Work(TakenAt(t) + jitter, NoScheduler),
                              ![0] = ScheduleJob(Advanced(t))]
    /\ scheduler' = [scheduler EXCEPT ![w] = [Idle EXCEPT !.pc = "claim", !.id = TakenAt(t)]]

(* A trigger that is not active loses its job.  Otherwise nothing is done; *)
(* so too, every time, when a run of one of the times is there already.    *)
LeaveOccurrence(w, t) ==
    /\ ~Takes(w, t)
    /\ work' = IF Holds(w, 0, t) /\ trigger.status # "active"
               THEN [work EXCEPT ![0] = NoWork] ELSE work
    /\ Done(w)
    /\ UNCHANGED <<trigger, run, missed>>

ClaimOccurrence(w) ==
    /\ scheduler[w].pc = "occurrence"
    /\ \E t \in scheduler[w].at .. minute : TakeOccurrence(w, t) \/ LeaveOccurrence(w, t)
    /\ UNCHANGED <<minute, delivered, incidents>>

(* The worker goes on with the run if it is due already.                   *)
ClaimOwnRun(w) ==
    /\ scheduler[w].pc = "claim"
    /\ IF DueWork(scheduler[w].id)
       THEN /\ work' = [work EXCEPT ![scheduler[w].id] = Work(minute + JobLease, w)]
            /\ SchedulerAt(w, "job")
       ELSE Done(w) /\ UNCHANGED work
    /\ UNCHANGED <<minute, trigger, run, missed, delivered, incidents>>

-----------------------------------------------------------------------------
(* run_job_once and deliver_existing.                                      *)

Deadline(i) == i + Grace

(* reschedule(None): the claimed work is dropped.                          *)
DropWork(w, i) == work' = IF HasFence(w, i) THEN [work EXCEPT ![i] = NoWork] ELSE work

(* The run is read: a started one was interrupted, a finished one has no   *)
(* work left.                                                              *)
ReadRun(w) ==
    /\ scheduler[w].pc = "job"
    /\ LET i == scheduler[w].id
       IN  CASE run[i].outcome = "started" -> SchedulerAt(w, "finish") /\ UNCHANGED work
             [] run[i].outcome = "over" -> Done(w) /\ DropWork(w, i)
             [] OTHER ->
                  /\ SchedulerAt(w, IF run[i].reason = "full" \/ minute > Deadline(i)
                                    THEN "skip" ELSE "trigger")
                  /\ UNCHANGED work
    /\ UNCHANGED <<minute, trigger, run, missed, delivered, incidents>>

ReadTrigger(w) ==
    /\ scheduler[w].pc = "trigger"
    /\ scheduler' = [scheduler EXCEPT ![w].pc = IF trigger.status = "active"
                                               THEN "admit" ELSE "skip",
                                     ![w].version = IF trigger.status = "active"
                                                    THEN trigger.version ELSE 0]
    /\ UNCHANGED <<minute, trigger, run, work, missed, delivered, incidents>>

(* No other run of the trigger has started.                                *)
NoneRunning(i) == \A t \in Minutes \ {i} : run[t] # NoRun => run[t].outcome # "started"

\* slip: neither the run's outcome nor whose claim it is is looked at again
AdmissibleByTrigger(w, i) ==
    /\ work[i] # NoWork
    /\ trigger.status = "active" /\ trigger.version = scheduler[w].version
    /\ NoneRunning(i)
(* admit_turn: what the transaction checks.                                *)
Admissible(w, i) ==
    /\ run[i].outcome = "pending" /\ minute <= Deadline(i)
    /\ Holds(w, i, minute)
    /\ trigger.status = "active" /\ trigger.version = scheduler[w].version
    /\ NoneRunning(i)
    /\ \A t \in Outstanding : run[t].outcome = "pending" => t >= i

Admit(w) ==
    /\ scheduler[w].pc = "admit"
    /\ Admissible(w, scheduler[w].id)
    /\ run' = [run EXCEPT ![scheduler[w].id] = Run("started", "none")]
    /\ work' = [work EXCEPT ![scheduler[w].id].at = minute + RunLease]
    /\ SchedulerAt(w, "deliver")
    /\ UNCHANGED <<minute, trigger, missed, delivered, incidents>>

(* The run has to wait, for an older one or for the owner's budget.        *)
AdmitRefused(w) ==
    /\ scheduler[w].pc = "admit"
    /\ SchedulerAt(w, "defer")
    /\ UNCHANGED <<minute, trigger, run, work, missed, delivered, incidents>>

\* slip: the run is set back to pending without a look at its outcome
DeferAnyRun(w) ==
    /\ scheduler[w].pc = "defer"
    /\ LET i == scheduler[w].id
           at == IF minute + 1 < Deadline(i) THEN minute + 1 ELSE Deadline(i)
       IN  /\ work' = IF HasFence(w, i) THEN [work EXCEPT ![i].at = at] ELSE work
           /\ run' = [run EXCEPT ![i] = Run("pending", "none")]
    /\ Done(w)
    /\ UNCHANGED <<minute, trigger, missed, delivered, incidents>>
(* defer: the work is put off under the fence; the run, if it is pending   *)
(* still, is given the reason whoever holds its work.  The second command  *)
(* changes nothing told apart here: a run that came so far has no other.   *)
Defer(w) ==
    /\ scheduler[w].pc = "defer"
    /\ LET i == scheduler[w].id
           at == IF minute + 1 < Deadline(i) THEN minute + 1 ELSE Deadline(i)
       IN  /\ work' = IF HasFence(w, i) THEN [work EXCEPT ![i].at = at] ELSE work
           /\ run' = IF run[i].outcome = "pending"
                     THEN [run EXCEPT ![i].reason = "none"] ELSE run
    /\ Done(w)
    /\ UNCHANGED <<minute, trigger, missed, delivered, incidents>>

(* deliver_event reaches the target, or fails having reached it or not.    *)
Deliver(w) ==
    /\ scheduler[w].pc = "deliver"
    /\ delivered' \in {delivered, [delivered EXCEPT ![scheduler[w].id] = @ + 1]}
    /\ SchedulerAt(w, "finish")
    /\ UNCHANGED <<minute, trigger, run, work, missed, incidents>>

(* finish_update, then finish_record; nothing more for a run that is over. *)
Settle(w) ==
    /\ run' = [run EXCEPT ![scheduler[w].id] = Run("over", "none")]
    /\ SchedulerAt(w, "record")

Finish(w) ==
    /\ scheduler[w].pc = "finish"
    /\ IF run[scheduler[w].id].outcome \in Unfinished THEN Settle(w)
       ELSE Done(w) /\ UNCHANGED run
    /\ UNCHANGED <<minute, trigger, work, missed, delivered, incidents>>

\* slip: the work is cleared away even when the run was not settled
FinishClaimedClears(w) ==
    /\ scheduler[w].pc = "skip"
    /\ IF Holds(w, scheduler[w].id, minute) /\ run[scheduler[w].id].outcome = "pending"
       THEN Settle(w)
       ELSE SchedulerAt(w, "record") /\ UNCHANGED run
    /\ UNCHANGED <<minute, trigger, work, missed, delivered, incidents>>
(* finish_claimed: only under the claim, and only a run not started yet.   *)
FinishClaimed(w) ==
    /\ scheduler[w].pc = "skip"
    /\ IF Holds(w, scheduler[w].id, minute) /\ run[scheduler[w].id].outcome = "pending"
       THEN Settle(w)
       ELSE Done(w) /\ UNCHANGED run
    /\ UNCHANGED <<minute, trigger, work, missed, delivered, incidents>>

FinishRecord(w) ==
    /\ scheduler[w].pc = "record"
    /\ work' = [work EXCEPT ![scheduler[w].id] = NoWork]
    /\ Done(w)
    /\ UNCHANGED <<minute, trigger, run, missed, delivered, incidents>>

(* A command fails or the replica dies: the work waits for its lease.      *)
Stop(w) ==
    /\ incidents < MaxIncidents
    /\ scheduler[w].pc # "idle"
    /\ Done(w)
    /\ incidents' = incidents + 1
    /\ UNCHANGED <<minute, trigger, run, work, missed, delivered>>

-----------------------------------------------------------------------------
(* Edits of the trigger: each gives it a new updated_at.                   *)

(* An update that changes the status or the schedule: set_schedule_job.    *)
Edited(t) ==
    /\ trigger.version < MaxEdits
    /\ trigger' = [t EXCEPT !.version = @ + 1]
    /\ work' = [work EXCEPT ![0] = ScheduleJob(t)]

(* Every such update starts the schedule over from now; one that changes   *)
(* the overlap policy alone leaves the schedule as it is.                  *)
UpdateTrigger ==
    /\ trigger.status # "deleted"
    /\ \/ \E status \in {"active", "disabled"} :
            Edited([trigger EXCEPT !.status = status, !.due = NextDue(minute),
                                   !.since = NextDue(minute)])
       \/ /\ trigger.version < MaxEdits
          /\ \E overlap \in {"skip", "queue"} :
               trigger' = [trigger EXCEPT !.overlap = overlap, !.version = @ + 1]
          /\ UNCHANGED work
    /\ UNCHANGED <<minute, run, scheduler, missed, delivered, incidents>>

(* pause_target: a scheduler that finds the owner or the target gone.      *)
PauseTarget(w) ==
    /\ scheduler[w].pc = "admit"
    /\ IF trigger.status = "active" /\ trigger.version = scheduler[w].version
       THEN Edited([trigger EXCEPT !.status = "disabled"])
       ELSE UNCHANGED <<trigger, work>>
    /\ SchedulerAt(w, "skip")
    /\ UNCHANGED <<minute, run, missed, delivered, incidents>>

(* delete, which may stop before the job is gone.                          *)
DeleteTrigger ==
    /\ trigger.status # "deleted"
    /\ trigger.version < MaxEdits
    /\ trigger' = [trigger EXCEPT !.status = "deleted", !.version = @ + 1]
    /\ work' \in {work, [work EXCEPT ![0] = NoWork]}
    /\ UNCHANGED <<minute, run, scheduler, missed, delivered, incidents>>

ScheduleTick ==
    /\ minute < MaxMinute
    /\ minute' = minute + 1
    /\ UNCHANGED <<trigger, run, work, scheduler, missed, delivered, incidents>>

-----------------------------------------------------------------------------
SchedulerStep(w) ==
    \/ \E i \in 0 .. MaxMinute : ClaimWork(w, i)
    \/ ClaimOccurrence(w) \/ ClaimOwnRun(w) \/ ReadRun(w) \/ ReadTrigger(w)
    \/ Admit(w) \/ AdmitRefused(w) \/ PauseTarget(w) \/ Defer(w) \/ Deliver(w)
    \/ Finish(w) \/ FinishClaimed(w) \/ FinishRecord(w)

ScheduleNext ==
    \/ \E w \in Schedulers : SchedulerStep(w) \/ Stop(w)
    \/ RunNow \/ UpdateTrigger \/ DeleteTrigger \/ ScheduleTick

ScheduleSpec == ScheduleInit /\ [][ScheduleNext]_scheduleVars

-----------------------------------------------------------------------------
(* A run reaches its target once at most, however leases run out, workers  *)
(* stop and others take over.                                              *)
DeliveredOnce == \A t \in Minutes : delivered[t] <= 1

(* At most one run of a trigger is under way, and at most one more waits,  *)
(* whatever the policy was when either was made; under the policy that     *)
(* skips, and has always skipped, none waits.                              *)
BacklogIsBounded ==
    /\ Cardinality({t \in Minutes : run[t] # NoRun /\ run[t].outcome = "started"}) <= 1
    /\ Cardinality(Outstanding) <=
           IF trigger.overlap = "skip" /\ trigger.version = 0 THEN 1 ELSE 2

(* Nothing is forgotten.  An active schedule has the job that will run it  *)
(* next; a run that is not over has the work that will settle it; every    *)
(* due time the schedule has passed is a run or counted as missed.         *)
NothingForgotten ==
    /\ trigger.status = "active" /\ trigger.due # 0 => work[0] # NoWork
    /\ \A t \in Minutes : run[t] # NoRun /\ run[t].outcome \in Unfinished => work[t] # NoWork
    /\ \A t \in Minutes :
         /\ t % Period = 0
         /\ trigger.status = "active" /\ trigger.since # 0 /\ trigger.since <= t
         /\ trigger.due = 0 \/ t < trigger.due
         => run[t] # NoRun \/ t \in missed

-----------------------------------------------------------------------------
(* Runs as jobs: the permit to deliver one is with the scheduler that      *)
(* admitted it, until it has tried or has stopped.                         *)
PhaseOf(d) == CASE d = NoRun -> "absent"
                [] d # NoRun /\ d.outcome = "pending" -> "waiting"
                [] d # NoRun /\ d.outcome = "started" -> "under way"
                [] OTHER -> "over"

RunJobs == INSTANCE JobQueue WITH
    Jobs <- Minutes,
    phase <- [t \in Minutes |-> PhaseOf(run[t])],
    permit <- [t \in Minutes |->
                 \E w \in Schedulers : scheduler[w].pc = "deliver" /\ scheduler[w].id = t],
    effects <- delivered,
    limit <- 1

(* Triggers implement the job queue, one run at a time: a run is delivered *)
(* only by the scheduler that started it and for that start only, and a    *)
(* run that is over is not revived by a scheduler that read it before      *)
(* (admit_turn, defer, finish_update).                                     *)
RunsAreJobs == RunJobs!Spec
=============================================================================
