---------------------------- MODULE OracleTasks ----------------------------
(***************************************************************************)
(* The task queue of an oracle pool (services/oracle_task_service.rs): one *)
(* person submits tasks, workers poll for them, and what a worker fails to *)
(* do another may do.  Every operation is one transaction that first       *)
(* writes the pool's document (oracle_mutation_service.rs), so each is one *)
(* step here.                                                              *)
(*                                                                         *)
(* Times are not counted: the lease of a dispatched task, the presence of  *)
(* a worker and the grace of a pinned task each run out when the steps     *)
(* Lapse, Fade and Age say so.  A dispatch_attempt_id is fresh per         *)
(* dispatch; the task's attempt_count will do, and 0 is a missing one.     *)
(* Tasks are numbered as created_at orders them, and are the turns of one  *)
(* conversation.  Tasks on their own, imported conversations, the closing  *)
(* of one, URLs, client references, enrolment of workers and changes of    *)
(* the pool itself are left out.                                           *)
(***************************************************************************)
EXTENDS Naturals, FiniteSets, Sequences

CONSTANTS
    OracleWorkers, \* worker labels of the pool
    Staying,       \* those that go on asking for tasks; others may disappear
    NoWorker,      \* no label
    OracleTaskIds, \* tasks of one submitter, 1 .. n
    PoolSizes,     \* values of max_workers
    MaxQueue,      \* max_queue_length
    MaxInFlightTasks, \* per_user_max_inflight
    MaxRetries,    \* max_retries
    MaxReroutes,   \* MAX_CAPACITY_REROUTES
    MaxChanges     \* bound on changes of what is known of a worker

ASSUME OracleAssumption ==
    /\ OracleTaskIds \subseteq Nat \ {0} /\ IsFiniteSet(OracleTaskIds)
    /\ NoWorker \notin OracleWorkers
    /\ Staying \subseteq OracleWorkers
    /\ PoolSizes \subseteq Nat /\ MaxQueue \in Nat /\ MaxInFlightTasks \in Nat
    /\ MaxRetries \in Nat /\ MaxReroutes \in Nat /\ MaxChanges \in Nat

VARIABLES
    poolSize,     \* the pool's max_workers
    task,         \* task documents
    conversation, \* the one session of the person
    presence,     \* worker documents
    handed,       \* handed[t][a]: the worker that attempt a of t was handed to
    changes       \* changes of what is known of a worker so far

oracleVars == <<poolSize, task, conversation, presence, handed, changes>>

NoAttempt == 0
InFlight == {"queued", "dispatched"}
Over == {"completed", "failed", "cancelled"}

NoTask == [status |-> "none", worker |-> NoWorker, attempt |-> NoAttempt, lapsed |-> FALSE,
           retries |-> 0, reroutes |-> 0, excluded |-> {}, reason |-> "none",
           required |-> NoWorker, aged |-> FALSE, answered |-> 0]

Labels == OracleWorkers \cup {NoWorker}
Attempts == 0 .. 1 + MaxRetries + MaxReroutes

(* Every variable has its type.                                            *)
OracleTypeOK ==
    /\ poolSize \in PoolSizes
    /\ task \in [OracleTaskIds ->
         [status : {"none"} \cup InFlight \cup Over, worker : Labels, attempt : Attempts,
          lapsed : BOOLEAN, retries : 0 .. MaxRetries, reroutes : 0 .. MaxReroutes,
          excluded : SUBSET OracleWorkers, reason : {"none", "capacity", "other"},
          required : Labels, aged : BOOLEAN, answered : 0 .. 2]]
    /\ conversation \in [owner : Labels, turns : 0 .. 2 * Cardinality(OracleTaskIds)]
    /\ presence \in [OracleWorkers ->
         [known : BOOLEAN, recent : BOOLEAN, able : BOOLEAN, drained : BOOLEAN,
          cooling : BOOLEAN]]
    /\ \A t \in OracleTaskIds : /\ Len(handed[t]) \in Attempts
                                /\ \A a \in DOMAIN handed[t] : handed[t][a] \in OracleWorkers
    /\ changes \in 0 .. MaxChanges

(* A worker nobody has heard of: there is no document.                     *)
Stranger == [known |-> FALSE, recent |-> FALSE, able |-> TRUE, drained |-> FALSE,
             cooling |-> FALSE]

OracleInit ==
    /\ poolSize \in PoolSizes
    /\ task = [t \in OracleTaskIds |-> NoTask]
    /\ conversation = [owner |-> NoWorker, turns |-> 0]
    /\ presence = [w \in OracleWorkers |-> Stranger]
    /\ handed = [t \in OracleTaskIds |-> <<>>]
    /\ changes = 0

-----------------------------------------------------------------------------
(* The queue.                                                              *)

Queued(T) == {t \in OracleTaskIds : T[t].status = "queued"}
Dispatched(T) == {t \in OracleTaskIds : T[t].status = "dispatched"}
DispatchedTo(T, w) == {t \in Dispatched(T) : T[t].worker = w}

(* upsert_worker_presence_in_session.                                      *)
Seen(w) == [presence EXCEPT ![w].known = TRUE, ![w].recent = TRUE]

(* accepts_new_tasks_in_session.                                           *)
AcceptsNewTasks(P, w) == ~P[w].drained /\ ~P[w].cooling

(* has_capacity_alternative_in_session.                                    *)
Alternative(P, excluded) ==
    \E w \in OracleWorkers \ excluded : P[w].recent /\ P[w].able /\ AcceptsNewTasks(P, w)

(* A task back in the queue, where its age puts it.                        *)
BackInQueue(d) == [d EXCEPT !.status = "queued", !.worker = NoWorker,
                            !.attempt = NoAttempt, !.lapsed = FALSE]
Retried(d) == [BackInQueue(d) EXCEPT !.retries = @ + 1]
GivenUp(d) == [BackInQueue(d) EXCEPT !.status = "failed", !.reason = "other"]

(* requeue_expired_leases_in_session.                                      *)
LeasesExpired(T) ==
    [t \in OracleTaskIds |->
       IF T[t].status # "dispatched" \/ ~T[t].lapsed THEN T[t]
       ELSE IF T[t].retries < MaxRetries THEN Retried(T[t]) ELSE GivenUp(T[t])]

(* A task any worker may have; its age matters no more.                    *)
Unpinned(d) == [d EXCEPT !.required = NoWorker, !.aged = FALSE]

(* release_stale_affinity_in_session.                                      *)
AffinityReleased(T) ==
    [t \in OracleTaskIds |->
       IF T[t].status = "queued" /\ T[t].aged THEN Unpinned(T[t]) ELSE T[t]]

(* settle_unroutable_capacity_tasks_in_session.                            *)
UnroutableSettled(T, P) ==
    [t \in OracleTaskIds |->
       IF /\ T[t].status = "queued" /\ T[t].reroutes > 0 /\ T[t].reason = "capacity"
          /\ ~Alternative(P, T[t].excluded)
       THEN [T[t] EXCEPT !.status = "failed"] ELSE T[t]]

-----------------------------------------------------------------------------
(* The submitter.                                                          *)

(* enforce_submit_quotas_in_session.                                       *)
WithinQuotas ==
    /\ Cardinality(Queued(task)) < MaxQueue
    /\ Cardinality({t \in OracleTaskIds : task[t].status \in InFlight}) < MaxInFlightTasks

(* submit_task: the first opens the conversation, the next are pinned to   *)
(* the account that owns it, if one does by then.                          *)
SubmitTask(t) ==
    /\ task[t].status = "none"
    /\ \A u \in OracleTaskIds : u < t => task[u].status # "none"
    /\ WithinQuotas
    /\ task' = [task EXCEPT ![t] = [NoTask EXCEPT !.status = "queued",
                                                 !.required = conversation.owner]]
    /\ UNCHANGED <<poolSize, conversation, presence, handed, changes>>

CancelTask(t) ==
    /\ task[t].status \in InFlight
    /\ task' = [task EXCEPT ![t].status = "cancelled", ![t].lapsed = FALSE]
    /\ UNCHANGED <<poolSize, conversation, presence, handed, changes>>

(* pool_status_with_retention tidies up before it counts.                  *)
PoolStatus ==
    /\ task' = UnroutableSettled(LeasesExpired(task), presence)
    /\ UNCHANGED <<poolSize, conversation, presence, handed, changes>>

-----------------------------------------------------------------------------
(* A worker's calls.                                                       *)

ClaimableBy(T, w) == {t \in Queued(T) : /\ w \notin T[t].excluded
                                        /\ T[t].required \in {NoWorker, w}}

\* slip: one worker too many
HasRoomForOneMore(T) == Cardinality(Dispatched(T)) <= poolSize
(* The pool's limit, and the worker's own readiness.                       *)
HasRoom(T) == Cardinality(Dispatched(T)) < poolSize

Dispatch(T, w, t) ==
    /\ task' = [T EXCEPT ![t] = [@ EXCEPT !.status = "dispatched", !.worker = w,
                                          !.attempt = Len(handed[t]) + 1, !.reason = "none"]]
    /\ handed' = [handed EXCEPT ![t] = Append(@, w)]

(* claim_task_with_retention: the queue is tidied; a worker that has a     *)
(* task is given it again, another the oldest task it may have.            *)
ClaimTask(w) ==
    LET tidied == AffinityReleased(LeasesExpired(task))
        routed == UnroutableSettled(tidied, Seen(w))
        mine == ClaimableBy(routed, w)
    IN  /\ presence' = Seen(w)
        /\ \/ \E t \in DispatchedTo(tidied, w) :
                task' = [tidied EXCEPT ![t].lapsed = FALSE] /\ UNCHANGED handed
           \/ /\ DispatchedTo(tidied, w) = {}
              /\ IF AcceptsNewTasks(presence, w) /\ HasRoom(routed) /\ mine # {}
                 THEN \E t \in mine : (\A u \in mine : t <= u) /\ Dispatch(routed, w, t)
                 ELSE task' = routed /\ UNCHANGED handed
        /\ UNCHANGED <<poolSize, conversation, changes>>

\* slip: a task that is over still counts as its last worker's
LiveDispatchEver(w, t, fence) ==
    task[t].worker = w /\ (fence # NoAttempt => task[t].attempt = fence)
(* live_dispatch: a worker that names no attempt is held to its label.     *)
LiveDispatch(w, t, fence) ==
    /\ task[t].status = "dispatched" /\ task[t].worker = w
    /\ fence # NoAttempt => task[t].attempt = fence

(* worker_ack_fenced.                                                      *)
WorkerAck(w, t) ==
    /\ presence' = Seen(w)
    /\ task' = [task EXCEPT ![t].lapsed = FALSE]
    /\ UNCHANGED <<poolSize, conversation, handed, changes>>

(* An ack or a result that is too late: it shows that the worker is there, *)
(* and nothing else (a late capacity failure not even that).               *)
TooLate(w) ==
    /\ presence' = Seen(w)
    /\ UNCHANGED <<poolSize, task, conversation, handed, changes>>

(* The end of a task by a result, and what its conversation learns.        *)
Settled(w, t, status, reason) ==
    /\ task' = [task EXCEPT ![t] = [task[t] EXCEPT !.status = status, !.reason = reason,
                                                   !.lapsed = FALSE, !.answered = @ + 1]]
    /\ conversation' = [conversation EXCEPT
         !.turns = @ + 1,
         !.owner = IF @ = NoWorker /\ status = "completed" THEN w ELSE @]

(* worker_submit_result_fenced, for an answer or a failure of the task.    *)
SubmitResult(w, t) ==
    /\ presence' = Seen(w)
    /\ Settled(w, t, "completed", "none") \/ Settled(w, t, "failed", "other")
    /\ UNCHANGED <<poolSize, handed, changes>>

(* The same, for a failure of the account's capacity: another worker shall *)
(* try, if there is one.                                                   *)
SubmitCapacityFailure(w, t) ==
    LET excluded == task[t].excluded \cup {w}
    IN  /\ presence' = Seen(w)
        /\ IF /\ task[t].required = NoWorker /\ task[t].reroutes < MaxReroutes
              /\ Alternative(presence, excluded)
           THEN /\ task' = [task EXCEPT ![t] =
                     [BackInQueue(task[t]) EXCEPT !.reroutes = @ + 1, !.excluded = excluded,
                                                  !.reason = "capacity"]]
                /\ UNCHANGED conversation
           ELSE Settled(w, t, "failed", "capacity")
        /\ UNCHANGED <<poolSize, handed, changes>>

\* slip: the retry is not counted
RetryOrFailUncounted(d) ==
    IF d.retries < MaxRetries THEN BackInQueue(d) ELSE GivenUp(d)
\* slip: nobody looks at max_retries
RetryOrFailForEver(d) == Retried(d)
(* A failure of the browser costs a retry.                                 *)
RetryOrFail(d) == IF d.retries < MaxRetries THEN Retried(d) ELSE GivenUp(d)

SubmitBrowserFailure(w, t) ==
    /\ presence' = Seen(w)
    /\ task' = [task EXCEPT ![t] = RetryOrFail(@)]
    /\ UNCHANGED <<poolSize, conversation, handed, changes>>

Changed == changes < MaxChanges /\ changes' = changes + 1

(* report_presence: the worker says whether it is logged in and alive, and *)
(* whether it cools down.                                                  *)
ReportPresence(w) ==
    /\ Changed
    /\ \E able, cooling \in BOOLEAN :
         presence' = [presence EXCEPT ![w] = [known |-> TRUE, recent |-> TRUE, able |-> able,
                                              drained |-> @.drained, cooling |-> cooling]]
    /\ UNCHANGED <<poolSize, task, conversation, handed>>

-----------------------------------------------------------------------------
(* The managers of the pool, and time.                                     *)

(* A worker is drained or is no more.                                      *)
SetDesiredState(w) ==
    /\ presence[w].known /\ Changed
    /\ presence' = [presence EXCEPT ![w].drained = ~@]
    /\ UNCHANGED <<poolSize, task, conversation, handed>>

(* forget_in_session, forced or not: what is pinned to the worker is free. *)
ForgetWorker(w) ==
    /\ presence[w].known /\ Changed
    /\ presence' = [presence EXCEPT ![w] = Stranger]
    /\ conversation' = IF conversation.owner = w THEN [conversation EXCEPT !.owner = NoWorker]
                       ELSE conversation
    /\ task' = [t \in OracleTaskIds |->
         IF task[t].status = "queued" /\ task[t].required = w
         THEN Unpinned(task[t]) ELSE task[t]]
    /\ UNCHANGED <<poolSize, handed>>

Lapse(t) ==
    /\ task[t].status = "dispatched" /\ ~task[t].lapsed
    /\ task' = [task EXCEPT ![t].lapsed = TRUE]
    /\ UNCHANGED <<poolSize, conversation, presence, handed, changes>>

Age(t) ==
    /\ task[t].status = "queued" /\ ~task[t].aged /\ task[t].required # NoWorker
    /\ task' = [task EXCEPT ![t].aged = TRUE]
    /\ UNCHANGED <<poolSize, conversation, presence, handed, changes>>

(* The worker's cooldown_until passes.                                     *)
CoolDown(w) ==
    /\ presence[w].cooling
    /\ presence' = [presence EXCEPT ![w].cooling = FALSE]
    /\ UNCHANGED <<poolSize, task, conversation, handed, changes>>

Fade(w) ==
    /\ presence[w].recent
    /\ presence' = [presence EXCEPT ![w].recent = FALSE]
    /\ UNCHANGED <<poolSize, task, conversation, handed, changes>>

-----------------------------------------------------------------------------
(* What worker w may still say of a task it was handed, however late; it   *)
(* names the attempt or none.                                              *)
Fences(w, t) == {a \in DOMAIN handed[t] : handed[t][a] = w}

WorkerCall(w, t) ==
    /\ Fences(w, t) # {}
    /\ \/ /\ \E fence \in Fences(w, t) \cup {NoAttempt} : LiveDispatch(w, t, fence)
          /\ \/ WorkerAck(w, t) \/ SubmitResult(w, t)
             \/ SubmitCapacityFailure(w, t) \/ SubmitBrowserFailure(w, t)
       \/ /\ \E fence \in Fences(w, t) \cup {NoAttempt} : ~LiveDispatch(w, t, fence)
          /\ TooLate(w)

OracleNext ==
    \/ \E t \in OracleTaskIds : SubmitTask(t) \/ CancelTask(t) \/ Lapse(t) \/ Age(t)
    \/ \E w \in OracleWorkers : \/ \E t \in OracleTaskIds : WorkerCall(w, t)
                                \/ ClaimTask(w) \/ ReportPresence(w) \/ SetDesiredState(w)
                                \/ ForgetWorker(w) \/ CoolDown(w) \/ Fade(w)
    \/ PoolStatus

OracleSpec == OracleInit /\ [][OracleNext]_oracleVars

(* Time passes for every lease and every presence, someone looks at the    *)
(* pool now and then, and the workers that stay go on asking for tasks.    *)
OracleFairSpec ==
    /\ OracleSpec
    /\ WF_oracleVars(PoolStatus)
    /\ \A w \in Staying : WF_oracleVars(ClaimTask(w))
    /\ \A w \in OracleWorkers : WF_oracleVars(Fade(w))
    /\ \A t \in OracleTaskIds : WF_oracleVars(Lapse(t))

-----------------------------------------------------------------------------
(* However leases lapse and workers fail, a task is handed out once, and   *)
(* once more for every retry and reroute it was charged; in the queue it   *)
(* has none to its credit.  A worker that lacked the capacity for it does  *)
(* not get it again.                                                       *)
HandedOutBounded ==
    \A t \in OracleTaskIds :
      /\ Len(handed[t]) <= 1 + task[t].retries + task[t].reroutes
      /\ task[t].status = "queued" => Len(handed[t]) = task[t].retries + task[t].reroutes
      /\ task[t].status = "dispatched" => task[t].worker \notin task[t].excluded

(* The pool hands out no more tasks than it has workers, a worker has one  *)
(* at a time however often it asks, and tasks that return to the queue     *)
(* never bring their submitter over the quota.                             *)
PoolCapacity ==
    /\ Cardinality(Dispatched(task)) <= poolSize
    /\ \A w \in OracleWorkers : Cardinality(DispatchedTo(task, w)) <= 1
    /\ Cardinality({t \in OracleTaskIds : task[t].status \in InFlight}) <= MaxInFlightTasks

(* A task takes one result, whoever sends how many and how late; the turns *)
(* of the conversation are the results of its tasks; and its owner is a    *)
(* worker that completed one of them.                                      *)
OneResultPerTask ==
    /\ \A t \in OracleTaskIds : task[t].answered <= IF task[t].status \in Over THEN 1 ELSE 0
    /\ conversation.turns = Cardinality({t \in OracleTaskIds : task[t].answered # 0})
    /\ conversation.owner # NoWorker =>
         \E t \in OracleTaskIds : task[t].status = "completed" /\ task[t].worker = conversation.owner

(* A queued reroute whose alternate has disappeared is settled by the next *)
(* claim or status, so that capacity failures never park: what the comment *)
(* on settle_unroutable_capacity_tasks_in_session says.                    *)
Parked(t) == /\ task[t].status = "queued" /\ task[t].reroutes > 0
             /\ ~Alternative(presence, task[t].excluded)

RerouteNeverParks == \A t \in OracleTaskIds : Parked(t) ~> ~Parked(t)

-----------------------------------------------------------------------------
(* Tasks as jobs: the permit to give the result goes with the dispatch.    *)
TaskJobs == INSTANCE JobQueue WITH
    Jobs <- OracleTaskIds,
    phase <- [t \in OracleTaskIds |->
                CASE task[t].status = "none" -> "absent"
                  [] task[t].status = "queued" -> "waiting"
                  [] task[t].status = "dispatched" -> "under way"
                  [] OTHER -> "over"],
    permit <- [t \in OracleTaskIds |-> task[t].status = "dispatched"],
    effects <- [t \in OracleTaskIds |-> task[t].answered],
    limit <- poolSize

(* The pool implements the job queue with max_workers tasks at a time: a   *)
(* task that was cancelled, failed or answered is neither put back into    *)
(* the queue nor answered by a worker that comes late, whatever it says of *)
(* the task (live_dispatch, worker_submit_result_fenced).                  *)
TasksAreJobs == TaskJobs!Spec
=============================================================================
