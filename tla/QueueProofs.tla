------------------------- MODULE QueueProofs -------------------------------
(***************************************************************************)
(* What the queue of an oracle pool keeps, for any number of tasks,        *)
(* workers, retries and reroutes.  Most steps only move tasks towards      *)
(* their end or back into the queue (Swept); three do more: a task is      *)
(* submitted, handed out, or takes its result.  Then the queues of the run *)
(* MCQueues together, with what ChatProofs shows of direct chat.           *)
(***************************************************************************)
EXTENDS MCQueues, ChatProofs, FiniteSetTheorems, TLAPS

TaskDoc == [status : {"none"} \cup InFlight \cup Over, worker : Labels, attempt : Attempts,
            lapsed : BOOLEAN, retries : 0 .. MaxRetries, reroutes : 0 .. MaxReroutes,
            excluded : SUBSET OracleWorkers, reason : {"none", "capacity", "other"},
            required : Labels, aged : BOOLEAN, answered : Nat]

OracleTyped ==
    /\ task \in [OracleTaskIds -> TaskDoc]
    /\ conversation \in [owner : Labels, turns : Nat]
    /\ handed \in [OracleTaskIds -> Seq(OracleWorkers)]
    /\ poolSize \in Nat

(* A document whose task was handed out n times.                           *)
Counted(d, n) ==
    /\ d.status = "none" => n = 0
    /\ d.status = "queued" => n = d.retries + d.reroutes
    /\ d.status = "dispatched" => n = 1 + d.retries + d.reroutes /\ d.worker \notin d.excluded
    /\ n <= 1 + d.retries + d.reroutes

AllCounted(T, H) == \A t \in OracleTaskIds : Counted(T[t], Len(H[t]))

InFlightTasks(T) == {t \in OracleTaskIds : T[t].status \in InFlight}

WithinLimits(T, size) ==
    /\ Cardinality(Dispatched(T)) <= size
    /\ \A t, u \in Dispatched(T) : T[t].worker = T[u].worker => t = u
    /\ Cardinality(InFlightTasks(T)) <= MaxInFlightTasks

Answered(T) == {t \in OracleTaskIds : T[t].answered # 0}

ResultsMatch(T, C) ==
    /\ \A t \in OracleTaskIds : T[t].answered <= IF T[t].status \in Over THEN 1 ELSE 0
    /\ C.turns = Cardinality(Answered(T))
    /\ C.owner # NoWorker =>
         \E t \in OracleTaskIds : T[t].status = "completed" /\ T[t].worker = C.owner

OracleInv == OracleTyped /\ AllCounted(task, handed) /\ WithinLimits(task, poolSize)
             /\ ResultsMatch(task, conversation)

(* What a document may become when it is neither handed out nor answered.  *)
Swept(d, e) ==
    /\ e \in TaskDoc /\ e.answered = d.answered
    /\ d.status \in Over \cup {"none"} => e = d
    /\ d.status \in InFlight => e.status # "none"
    /\ e.status = "dispatched" => d.status = "dispatched" /\ e.worker = d.worker
    /\ \A n \in Nat : Counted(d, n) => Counted(e, n)

AllSwept(T, U) ==
    /\ U \in [OracleTaskIds -> TaskDoc]
    /\ \A t \in OracleTaskIds : Swept(T[t], U[t])

-----------------------------------------------------------------------------
(* The single changes of a document.                                       *)

LEMMA SweptSame == \A d \in TaskDoc : Swept(d, d)
  BY DEF Swept, TaskDoc, InFlight, Over

LEMMA DocUpdates ==
    ASSUME NEW d \in TaskDoc, NEW X \in SUBSET OracleWorkers
    PROVE  /\ d.retries < MaxRetries => [d EXCEPT !.retries = @ + 1] \in TaskDoc
           /\ [d EXCEPT !.status = "failed", !.reason = "other"] \in TaskDoc
           /\ d.reroutes < MaxReroutes =>
                 [d EXCEPT !.reroutes = @ + 1, !.excluded = X, !.reason = "capacity"] \in TaskDoc
  <1>1. /\ d.retries < MaxRetries => d.retries + 1 \in 0 .. MaxRetries
        /\ d.reroutes < MaxReroutes => d.reroutes + 1 \in 0 .. MaxReroutes
    BY OracleAssumption DEF TaskDoc
  <1>2. "failed" \in Over
    BY DEF Over
  <1> QED BY <1>1, <1>2 DEF TaskDoc

LEMMA BackIsDoc == \A d \in TaskDoc : BackInQueue(d) \in TaskDoc
  <1>1. NoAttempt \in Attempts
    BY OracleAssumption DEF Attempts, NoAttempt
  <1> QED BY <1>1 DEF TaskDoc, BackInQueue, Labels, InFlight

LEMMA SweptBack ==
    ASSUME NEW d \in TaskDoc, d.status = "dispatched"
    PROVE  (d.retries < MaxRetries => Swept(d, Retried(d))) /\ Swept(d, GivenUp(d))
  <1>1. (d.retries < MaxRetries => Retried(d) \in TaskDoc) /\ GivenUp(d) \in TaskDoc
    <2>1. BackInQueue(d).retries = d.retries
      BY DEF TaskDoc, BackInQueue
    <2> QED BY <2>1, BackIsDoc, DocUpdates DEF Retried, GivenUp
  <1>2. ASSUME NEW n \in Nat, Counted(d, n)
        PROVE  Counted(Retried(d), n) /\ Counted(GivenUp(d), n)
    BY <1>2 DEF Counted, TaskDoc, Retried, GivenUp, BackInQueue
  <1> QED BY <1>1, <1>2 DEF Swept, TaskDoc, Retried, GivenUp, BackInQueue, InFlight, Over

LEMMA SweptUnpinned ==
    ASSUME NEW d \in TaskDoc, d.status = "queued"
    PROVE  Swept(d, Unpinned(d))
  <1>1. Unpinned(d) \in TaskDoc
    BY DEF TaskDoc, Unpinned, Labels
  <1> QED BY <1>1 DEF Swept, Counted, TaskDoc, Unpinned, InFlight, Over

LEMMA SweptEnded ==
    ASSUME NEW d \in TaskDoc, d.status \in InFlight
    PROVE  /\ Swept(d, [d EXCEPT !.status = "failed"])
           /\ Swept(d, [d EXCEPT !.status = "cancelled", !.lapsed = FALSE])
  BY DEF Swept, Counted, TaskDoc, InFlight, Over

LEMMA SweptMarked ==
    ASSUME NEW d \in TaskDoc, NEW b \in BOOLEAN, d.status \in InFlight
    PROVE  Swept(d, [d EXCEPT !.lapsed = b]) /\ Swept(d, [d EXCEPT !.aged = b])
  BY DEF Swept, Counted, TaskDoc, InFlight, Over

LEMMA SweptRerouted ==
    ASSUME NEW d \in TaskDoc, d.status = "dispatched", d.reroutes < MaxReroutes,
           NEW X \in SUBSET OracleWorkers
    PROVE  Swept(d, [BackInQueue(d) EXCEPT !.reroutes = @ + 1, !.excluded = X,
                                           !.reason = "capacity"])
  <1> DEFINE e == [BackInQueue(d) EXCEPT !.reroutes = @ + 1, !.excluded = X,
                                         !.reason = "capacity"]
  <1>1. e \in TaskDoc
    <2>1. BackInQueue(d).reroutes = d.reroutes
      BY DEF TaskDoc, BackInQueue
    <2> QED BY <2>1, BackIsDoc, DocUpdates
  <1>2. /\ e.status = "queued" /\ e.answered = d.answered
        /\ e.retries = d.retries /\ e.reroutes = d.reroutes + 1
    BY DEF TaskDoc, BackInQueue
  <1>3. ASSUME NEW n \in Nat, Counted(d, n) PROVE Counted(e, n)
    BY <1>2, <1>3 DEF Counted, TaskDoc
  <1> QED BY <1>1, <1>2, <1>3 DEF Swept, InFlight, Over

LEMMA SweptTwice ==
    ASSUME NEW c \in TaskDoc, NEW d \in TaskDoc, NEW e \in TaskDoc, Swept(c, d), Swept(d, e)
    PROVE  Swept(c, e)
  BY DEF Swept, TaskDoc, InFlight, Over

-----------------------------------------------------------------------------
(* The sweeps over all documents.                                          *)

LEMMA AllSweptTwice ==
    ASSUME NEW T \in [OracleTaskIds -> TaskDoc], NEW U, NEW V, AllSwept(T, U), AllSwept(U, V)
    PROVE  AllSwept(T, V)
  BY SweptTwice DEF AllSwept

LEMMA LeasesSwept ==
    ASSUME NEW T \in [OracleTaskIds -> TaskDoc]
    PROVE  AllSwept(T, LeasesExpired(T))
  <1>1. ASSUME NEW t \in OracleTaskIds
        PROVE  Swept(T[t], LeasesExpired(T)[t])
    BY SweptSame, SweptBack DEF LeasesExpired
  <1>2. LeasesExpired(T) \in [OracleTaskIds -> TaskDoc]
    BY <1>1 DEF LeasesExpired, Swept
  <1> QED BY <1>1, <1>2 DEF AllSwept

LEMMA AffinitySwept ==
    ASSUME NEW T \in [OracleTaskIds -> TaskDoc]
    PROVE  AllSwept(T, AffinityReleased(T))
  <1>1. ASSUME NEW t \in OracleTaskIds
        PROVE  Swept(T[t], AffinityReleased(T)[t])
    BY SweptSame, SweptUnpinned DEF AffinityReleased
  <1>2. AffinityReleased(T) \in [OracleTaskIds -> TaskDoc]
    BY <1>1 DEF AffinityReleased, Swept
  <1> QED BY <1>1, <1>2 DEF AllSwept

LEMMA UnroutableSwept ==
    ASSUME NEW T \in [OracleTaskIds -> TaskDoc], NEW P
    PROVE  AllSwept(T, UnroutableSettled(T, P))
  <1>1. ASSUME NEW t \in OracleTaskIds
        PROVE  Swept(T[t], UnroutableSettled(T, P)[t])
    BY SweptSame, SweptEnded DEF UnroutableSettled, InFlight
  <1>2. UnroutableSettled(T, P) \in [OracleTaskIds -> TaskDoc]
    BY <1>1 DEF UnroutableSettled, Swept
  <1> QED BY <1>1, <1>2 DEF AllSwept

(* One document changes.                                                   *)
LEMMA OneSwept ==
    ASSUME NEW T \in [OracleTaskIds -> TaskDoc], NEW t \in OracleTaskIds, NEW e,
           Swept(T[t], e)
    PROVE  AllSwept(T, [T EXCEPT ![t] = e])
  <1>1. e \in TaskDoc
    BY DEF Swept
  <1>2. ASSUME NEW u \in OracleTaskIds PROVE Swept(T[u], [T EXCEPT ![t] = e][u])
    BY SweptSame
  <1> QED BY <1>1, <1>2 DEF AllSwept

-----------------------------------------------------------------------------
(* What a sweep leaves true.                                               *)

LEMMA LenType == \A H \in [OracleTaskIds -> Seq(OracleWorkers)] :
                   \A t \in OracleTaskIds : Len(H[t]) \in Nat
  OBVIOUS

LEMMA SweptKeepsCounts ==
    ASSUME NEW T \in [OracleTaskIds -> TaskDoc], NEW U, AllSwept(T, U),
           NEW H \in [OracleTaskIds -> Seq(OracleWorkers)], AllCounted(T, H)
    PROVE  AllCounted(U, H)
  BY LenType DEF AllSwept, Swept, AllCounted

LEMMA FiniteTasks == \A S \in SUBSET OracleTaskIds : IsFiniteSet(S) /\ Cardinality(S) \in Nat
  BY FS_Subset, FS_CardinalityType, OracleAssumption

LEMMA SmallerSet ==
    ASSUME NEW S \in SUBSET OracleTaskIds, NEW R \in SUBSET S
    PROVE  Cardinality(R) <= Cardinality(S)
  BY FS_Subset, FiniteTasks

LEMMA SweptKeepsLimits ==
    ASSUME NEW T \in [OracleTaskIds -> TaskDoc], NEW U, AllSwept(T, U),
           NEW size \in Nat, WithinLimits(T, size)
    PROVE  WithinLimits(U, size)
  <1>1. Dispatched(U) \subseteq Dispatched(T)
    BY DEF Dispatched, AllSwept, Swept
  <1>2. InFlightTasks(U) \subseteq InFlightTasks(T)
    BY DEF InFlightTasks, AllSwept, Swept, TaskDoc, InFlight, Over
  <1>3. /\ Cardinality(Dispatched(U)) <= Cardinality(Dispatched(T))
        /\ Cardinality(InFlightTasks(U)) <= Cardinality(InFlightTasks(T))
    BY <1>1, <1>2, SmallerSet DEF Dispatched, InFlightTasks
  <1>4. \A S \in {Dispatched(T), Dispatched(U), InFlightTasks(T), InFlightTasks(U)} :
          Cardinality(S) \in Nat
    BY FiniteTasks DEF Dispatched, InFlightTasks
  <1>5. \A t, u \in Dispatched(U) : U[t].worker = U[u].worker => t = u
    <2> SUFFICES ASSUME NEW t \in Dispatched(U), NEW u \in Dispatched(U),
                        U[t].worker = U[u].worker
                 PROVE  t = u
      OBVIOUS
    <2>1. T[t].worker = U[t].worker /\ T[u].worker = U[u].worker
      BY DEF AllSwept, Swept, Dispatched
    <2> QED BY <1>1, <2>1 DEF WithinLimits
  <1> QED BY <1>3, <1>4, <1>5, OracleAssumption DEF WithinLimits

LEMMA SweptKeepsResults ==
    ASSUME NEW T \in [OracleTaskIds -> TaskDoc], NEW U, AllSwept(T, U), NEW C,
           ResultsMatch(T, C)
    PROVE  ResultsMatch(U, C)
  <1>1. Answered(U) = Answered(T)
    BY DEF Answered, AllSwept, Swept
  <1>2. ASSUME NEW t \in OracleTaskIds
        PROVE  U[t].answered <= IF U[t].status \in Over THEN 1 ELSE 0
    <2>1. CASE T[t].status \in Over \cup {"none"}
      BY <2>1 DEF AllSwept, Swept, ResultsMatch
    <2>2. CASE T[t].status \in InFlight
      <3>1. T[t].answered <= 0
        BY <2>2 DEF ResultsMatch, InFlight, Over
      <3>2. U[t].answered <= 0
        BY <3>1 DEF AllSwept, Swept
      <3> QED BY <3>2 DEF AllSwept, TaskDoc
    <2> QED BY <2>1, <2>2 DEF TaskDoc
  <1>3. \A t \in OracleTaskIds : T[t].status = "completed" => U[t] = T[t]
    BY DEF AllSwept, Swept, Over
  <1> QED BY <1>1, <1>2, <1>3 DEF ResultsMatch

LEMMA SweepStep ==
    ASSUME OracleInv, AllSwept(task, task'), UNCHANGED <<poolSize, conversation, handed>>
    PROVE  OracleInv'
  <1>1. OracleTyped'
    BY DEF OracleInv, OracleTyped, AllSwept
  <1>2. AllCounted(task', handed)
    BY SweptKeepsCounts DEF OracleInv, OracleTyped
  <1>3. WithinLimits(task', poolSize)
    BY SweptKeepsLimits DEF OracleInv, OracleTyped
  <1>4. ResultsMatch(task', conversation)
    BY SweptKeepsResults DEF OracleInv, OracleTyped
  <1> QED BY <1>1, <1>2, <1>3, <1>4 DEF OracleInv

-----------------------------------------------------------------------------
(* The three steps that do more.                                           *)

LEMMA OneMore ==
    ASSUME NEW S \in SUBSET OracleTaskIds, NEW t \in OracleTaskIds
    PROVE  /\ Cardinality(S) \in Nat /\ Cardinality(S \cup {t}) \in Nat
           /\ Cardinality(S \cup {t}) <= Cardinality(S) + 1
           /\ t \notin S => Cardinality(S \cup {t}) = Cardinality(S) + 1
  <1>1. IsFiniteSet(S) /\ Cardinality(S) \in Nat /\ Cardinality(S \cup {t}) \in Nat
    BY FiniteTasks
  <1>2. Cardinality(S \cup {t}) = IF t \in S THEN Cardinality(S) ELSE Cardinality(S) + 1
    BY <1>1, FS_AddElement
  <1> QED BY <1>1, <1>2

LEMMA NoTaskIsDoc == NoTask \in TaskDoc /\ NoTask.status = "none" /\ NoTask.answered = 0
  <1>1. NoAttempt \in Attempts /\ 0 \in 0 .. MaxRetries /\ 0 \in 0 .. MaxReroutes
    BY OracleAssumption DEF Attempts, NoAttempt
  <1> QED BY <1>1 DEF NoTask, TaskDoc, Labels

(* A task is submitted.                                                    *)
LEMMA SubmitKeepsInv ==
    ASSUME OracleInv, NEW t \in OracleTaskIds, SubmitTask(t)
    PROVE  OracleInv'
  <1> DEFINE d == [NoTask EXCEPT !.status = "queued", !.required = conversation.owner]
  <1>0. /\ task \in [OracleTaskIds -> TaskDoc] /\ poolSize \in Nat
        /\ task[t].status = "none" /\ task' = [task EXCEPT ![t] = d]
        /\ UNCHANGED <<poolSize, conversation, handed>>
        /\ conversation.owner \in Labels
    BY DEF OracleInv, OracleTyped, SubmitTask
  <1>1. d \in TaskDoc
    BY <1>0, NoTaskIsDoc DEF TaskDoc, InFlight
  <1>2. /\ d.status = "queued" /\ d.retries = 0 /\ d.reroutes = 0 /\ d.answered = 0
    BY DEF NoTask
  <1> HIDE DEF d
  <1>3. OracleTyped'
    BY <1>0, <1>1 DEF OracleInv, OracleTyped
  <1>4. AllCounted(task', handed)
    BY <1>0, <1>2 DEF OracleInv, AllCounted, Counted
  <1>5. Dispatched(task') = Dispatched(task)
    BY <1>0, <1>2 DEF Dispatched
  <1>6. InFlightTasks(task') = InFlightTasks(task) \cup {t}
    BY <1>0, <1>2 DEF InFlightTasks, InFlight
  <1>7. Cardinality(InFlightTasks(task)) < MaxInFlightTasks
    BY DEF SubmitTask, WithinQuotas, InFlightTasks
  <1>8. Cardinality(InFlightTasks(task')) <= MaxInFlightTasks
    <2>1. InFlightTasks(task) \in SUBSET OracleTaskIds
      BY DEF InFlightTasks
    <2> QED BY <1>6, <1>7, <2>1, OneMore, OracleAssumption
  <1>9. WithinLimits(task', poolSize)
    BY <1>0, <1>5, <1>8 DEF OracleInv, WithinLimits, Dispatched
  <1>10. task[t].answered = 0
    BY <1>0 DEF OracleInv, ResultsMatch, TaskDoc, Over
  <1>11. Answered(task') = Answered(task)
    BY <1>0, <1>2, <1>10 DEF Answered
  <1>12. ResultsMatch(task', conversation)
    BY <1>0, <1>2, <1>11 DEF OracleInv, ResultsMatch, Over
  <1> QED BY <1>0, <1>3, <1>4, <1>9, <1>12 DEF OracleInv

(* A task is handed out, after the sweeps that made T of the documents.    *)
LEMMA DispatchKeepsInv ==
    ASSUME OracleInv, NEW T, AllSwept(task, T), NEW t \in OracleTaskIds, NEW w \in OracleWorkers,
           Dispatch(T, w, t), HasRoom(T), DispatchedTo(T, w) = {}, t \in ClaimableBy(T, w),
           UNCHANGED <<poolSize, conversation>>
    PROVE  OracleInv'
  <1> DEFINE d == [T[t] EXCEPT !.status = "dispatched", !.worker = w,
                               !.attempt = Len(handed[t]) + 1, !.reason = "none"]
  <1>0. /\ task \in [OracleTaskIds -> TaskDoc] /\ T \in [OracleTaskIds -> TaskDoc]
        /\ handed \in [OracleTaskIds -> Seq(OracleWorkers)]
        /\ poolSize \in Nat /\ Len(handed[t]) \in Nat
    BY LenType DEF OracleInv, OracleTyped, AllSwept
  <1>1. /\ AllCounted(T, handed) /\ WithinLimits(T, poolSize)
        /\ ResultsMatch(T, conversation)
    BY <1>0, SweptKeepsCounts, SweptKeepsLimits, SweptKeepsResults DEF OracleInv
  <1>2. /\ T[t].status = "queued" /\ w \notin T[t].excluded
        /\ task' = [T EXCEPT ![t] = d]
        /\ handed' = [handed EXCEPT ![t] = Append(@, w)]
    BY DEF ClaimableBy, Queued, Dispatch
  <1>3. d \in TaskDoc
    <2>1. T[t] \in TaskDoc /\ w \in Labels /\ "dispatched" \in InFlight
      BY <1>0 DEF Labels, InFlight
    <2>2. /\ T[t].retries \in Nat /\ T[t].retries <= MaxRetries
          /\ T[t].reroutes \in Nat /\ T[t].reroutes <= MaxReroutes
      BY <2>1, OracleAssumption DEF TaskDoc
    <2>3. Len(handed[t]) = T[t].retries + T[t].reroutes
      BY <1>1, <1>2 DEF AllCounted, Counted
    <2>4. Len(handed[t]) + 1 \in Attempts
      BY <2>2, <2>3, OracleAssumption DEF Attempts
    <2> QED BY <2>1, <2>4 DEF TaskDoc
  <1>4. /\ d.status = "dispatched" /\ d.worker = w /\ d.answered = T[t].answered
        /\ d.retries = T[t].retries /\ d.reroutes = T[t].reroutes
        /\ d.excluded = T[t].excluded
    BY <1>0 DEF TaskDoc
  <1> HIDE DEF d
  <1>5. Len(handed'[t]) = Len(handed[t]) + 1
    BY <1>0, <1>2
  <1>6. OracleTyped'
    BY <1>0, <1>2, <1>3 DEF OracleInv, OracleTyped
  <1>7. AllCounted(task', handed')
    <2>1. Counted(d, Len(handed[t]) + 1)
      BY <1>0, <1>1, <1>2, <1>4 DEF AllCounted, Counted, TaskDoc
    <2> QED BY <1>0, <1>1, <1>2, <1>5, <2>1 DEF AllCounted
  <1>8. Dispatched(task') = Dispatched(T) \cup {t} /\ InFlightTasks(task') = InFlightTasks(T)
    BY <1>0, <1>2, <1>4 DEF Dispatched, InFlightTasks, InFlight
  <1>9. Cardinality(Dispatched(task')) <= poolSize
    <2>1. Dispatched(T) \in SUBSET OracleTaskIds
      BY DEF Dispatched
    <2> QED BY <1>0, <1>8, <2>1, OneMore DEF HasRoom
  <1>10. \A u, v \in Dispatched(task') : task'[u].worker = task'[v].worker => u = v
    <2>1. \A u \in Dispatched(T) : T[u].worker # w
      BY DEF DispatchedTo
    <2>2. \A u \in Dispatched(T) : u # t /\ task'[u] = T[u]
      BY <1>0, <1>2 DEF Dispatched
    <2> QED BY <1>0, <1>1, <1>2, <1>4, <1>8, <2>1, <2>2 DEF WithinLimits
  <1>11. WithinLimits(task', poolSize)
    BY <1>1, <1>8, <1>9, <1>10 DEF WithinLimits
  <1>12. Answered(task') = Answered(T)
    BY <1>0, <1>2, <1>4 DEF Answered
  <1>13. ResultsMatch(task', conversation)
    BY <1>0, <1>1, <1>2, <1>4, <1>12 DEF ResultsMatch, Over
  <1> QED BY <1>6, <1>7, <1>11, <1>13 DEF OracleInv

(* A task takes its result.                                                *)
LEMMA SettledKeepsInv ==
    ASSUME OracleInv, NEW t \in OracleTaskIds, NEW w \in OracleWorkers,
           NEW status \in {"completed", "failed"}, NEW reason \in {"none", "capacity", "other"},
           task[t].status = "dispatched", task[t].worker = w,
           Settled(w, t, status, reason), UNCHANGED <<poolSize, handed>>
    PROVE  OracleInv'
  <1> DEFINE d == [task[t] EXCEPT !.status = status, !.reason = reason,
                                  !.lapsed = FALSE, !.answered = @ + 1]
  <1>0. /\ task \in [OracleTaskIds -> TaskDoc] /\ poolSize \in Nat
        /\ handed \in [OracleTaskIds -> Seq(OracleWorkers)]
        /\ conversation \in [owner : Labels, turns : Nat]
    BY DEF OracleInv, OracleTyped
  <1>a. task' = [task EXCEPT ![t] = d]
    BY <1>0 DEF Settled
  <1>1. task[t].answered = 0
    <2>1. task[t].answered <= 0 /\ "dispatched" \notin Over
      BY DEF OracleInv, ResultsMatch, Over
    <2>2. task[t].answered \in Nat
      BY <1>0 DEF TaskDoc
    <2> QED BY <2>1, <2>2
  <1>2. d \in TaskDoc
    <2>1. task[t] \in TaskDoc /\ task[t].answered + 1 \in Nat /\ status \in Over
      BY <1>0, <1>1 DEF Over
    <2> QED BY <2>1 DEF TaskDoc
  <1>3. /\ d.status = status /\ d.worker = w /\ d.answered = 1
        /\ d.retries = task[t].retries /\ d.reroutes = task[t].reroutes
    BY <1>0, <1>1 DEF TaskDoc
  <1> HIDE DEF d
  <1>4. /\ conversation'.turns = conversation.turns + 1
        /\ conversation'.owner = IF conversation.owner = NoWorker /\ status = "completed"
                                 THEN w ELSE conversation.owner
        /\ conversation' \in [owner : Labels, turns : Nat]
    <2> DEFINE o == IF conversation.owner = NoWorker /\ status = "completed"
                    THEN w ELSE conversation.owner
    <2>1. conversation' = [conversation EXCEPT !.turns = conversation.turns + 1, !.owner = o]
      BY <1>0 DEF Settled
    <2>2. conversation.turns + 1 \in Nat /\ o \in Labels
      BY <1>0 DEF Labels
    <2> HIDE DEF o
    <2>3. /\ conversation'.turns = conversation.turns + 1 /\ conversation'.owner = o
          /\ conversation' \in [owner : Labels, turns : Nat]
      BY <1>0, <2>1, <2>2
    <2> QED BY <2>3 DEF o
  <1>5. OracleTyped'
    BY <1>0, <1>a, <1>2, <1>4 DEF OracleTyped
  <1>6. AllCounted(task', handed)
    BY <1>0, <1>a, <1>3 DEF OracleInv, AllCounted, Counted
  <1>7. Dispatched(task') \subseteq Dispatched(task)
        /\ InFlightTasks(task') \subseteq InFlightTasks(task)
    BY <1>0, <1>a, <1>3 DEF Dispatched, InFlightTasks, InFlight
  <1>8. WithinLimits(task', poolSize)
    <2>1. /\ Cardinality(Dispatched(task')) <= Cardinality(Dispatched(task))
          /\ Cardinality(InFlightTasks(task')) <= Cardinality(InFlightTasks(task))
      BY <1>7, SmallerSet DEF Dispatched, InFlightTasks
    <2>2. \A S \in {Dispatched(task), Dispatched(task'), InFlightTasks(task),
                    InFlightTasks(task')} : Cardinality(S) \in Nat
      BY FiniteTasks DEF Dispatched, InFlightTasks
    <2>3. \A u \in Dispatched(task') : task'[u] = task[u]
      BY <1>0, <1>a, <1>3 DEF Dispatched
    <2>4. \A u, v \in Dispatched(task') : task'[u].worker = task'[v].worker => u = v
      BY <1>7, <2>3 DEF OracleInv, WithinLimits
    <2>5. /\ Cardinality(Dispatched(task)) <= poolSize
          /\ Cardinality(InFlightTasks(task)) <= MaxInFlightTasks
      BY DEF OracleInv, WithinLimits
    <2>6. poolSize \in Nat /\ MaxInFlightTasks \in Nat
      BY <1>0, OracleAssumption
    <2>7. /\ Cardinality(Dispatched(task')) <= poolSize
          /\ Cardinality(InFlightTasks(task')) <= MaxInFlightTasks
      BY <2>1, <2>2, <2>5, <2>6
    <2> QED BY <2>4, <2>7 DEF WithinLimits
  <1>9. Cardinality(Answered(task')) = Cardinality(Answered(task)) + 1
    <2>1. Answered(task') = Answered(task) \cup {t} /\ t \notin Answered(task)
      BY <1>0, <1>a, <1>1, <1>3 DEF Answered
    <2>2. Answered(task) \in SUBSET OracleTaskIds
      BY DEF Answered
    <2> QED BY <2>1, <2>2, OneMore
  <1>10. ResultsMatch(task', conversation')
    <2>1. \A u \in OracleTaskIds :
            task'[u].answered <= IF task'[u].status \in Over THEN 1 ELSE 0
      BY <1>0, <1>a, <1>3 DEF OracleInv, ResultsMatch, Over
    <2>2. ASSUME conversation'.owner # NoWorker
          PROVE  \E u \in OracleTaskIds : /\ task'[u].status = "completed"
                                          /\ task'[u].worker = conversation'.owner
      <3>1. CASE conversation.owner # NoWorker
        <4>1. PICK u \in OracleTaskIds : /\ task[u].status = "completed"
                                         /\ task[u].worker = conversation.owner
          BY <3>1 DEF OracleInv, ResultsMatch
        <4> QED BY <1>0, <1>a, <1>4, <3>1, <4>1
      <3>2. CASE conversation.owner = NoWorker
        BY <1>0, <1>a, <1>3, <1>4, <2>2, <3>2
      <3> QED BY <3>1, <3>2
    <2> QED BY <1>4, <1>9, <2>1, <2>2 DEF OracleInv, ResultsMatch
  <1> QED BY <1>5, <1>6, <1>8, <1>10 DEF OracleInv

-----------------------------------------------------------------------------
(* Every step.                                                             *)

(* A claim sweeps the queue, and then hands out a task or does not.        *)
LEMMA ClaimSweeps ==
    ASSUME OracleInv, NEW w \in OracleWorkers, ClaimTask(w)
    PROVE  \/ AllSwept(task, task') /\ UNCHANGED handed
           \/ \E T \in [OracleTaskIds -> TaskDoc] :
                /\ AllSwept(task, T) /\ HasRoom(T) /\ DispatchedTo(T, w) = {}
                /\ \E t \in ClaimableBy(T, w) : Dispatch(T, w, t)
  <1> DEFINE tidied == AffinityReleased(LeasesExpired(task))
             routed == UnroutableSettled(tidied, Seen(w))
  <1>0. task \in [OracleTaskIds -> TaskDoc]
    BY DEF OracleInv, OracleTyped
  <1>1. AllSwept(task, tidied)
    <2>1. AllSwept(task, LeasesExpired(task))
      BY <1>0, LeasesSwept
    <2>2. AllSwept(LeasesExpired(task), tidied)
      BY <2>1, AffinitySwept DEF AllSwept
    <2> QED BY <1>0, <2>1, <2>2, AllSweptTwice
  <1>2. AllSwept(tidied, routed)
    BY <1>1, UnroutableSwept DEF AllSwept
  <1>3. AllSwept(task, routed) /\ routed \in [OracleTaskIds -> TaskDoc]
    BY <1>0, <1>1, <1>2, AllSweptTwice DEF AllSwept
  <1>4. \/ \E t \in DispatchedTo(tidied, w) :
             task' = [tidied EXCEPT ![t].lapsed = FALSE] /\ UNCHANGED handed
        \/ /\ DispatchedTo(tidied, w) = {}
           /\ \/ HasRoom(routed) /\ \E t \in ClaimableBy(routed, w) : Dispatch(routed, w, t)
              \/ task' = routed /\ UNCHANGED handed
    BY DEF ClaimTask
  <1>5. DispatchedTo(tidied, w) = {} => DispatchedTo(routed, w) = {}
    BY <1>2 DEF DispatchedTo, Dispatched, AllSwept, Swept
  <1> HIDE DEF tidied, routed
  <1>6. ASSUME NEW t \in DispatchedTo(tidied, w),
               task' = [tidied EXCEPT ![t].lapsed = FALSE]
        PROVE  AllSwept(task, task')
    <2>1. /\ t \in OracleTaskIds /\ tidied[t].status \in InFlight
          /\ tidied \in [OracleTaskIds -> TaskDoc]
      BY <1>1, <1>6 DEF DispatchedTo, Dispatched, InFlight, AllSwept
    <2>2. AllSwept(tidied, task')
      BY <1>6, <2>1, SweptMarked, OneSwept
    <2> QED BY <1>0, <1>1, <2>2, AllSweptTwice
  <1>7. task' = routed => AllSwept(task, task')
    BY <1>3
  <1> QED BY <1>3, <1>4, <1>5, <1>6, <1>7

LEMMA ClaimKeepsInv ==
    ASSUME OracleInv, NEW w \in OracleWorkers, ClaimTask(w)
    PROVE  OracleInv'
  <1>1. UNCHANGED <<poolSize, conversation>>
    BY DEF ClaimTask
  <1>2. CASE AllSwept(task, task') /\ UNCHANGED handed
    BY <1>1, <1>2, SweepStep
  <1>3. ASSUME NEW T \in [OracleTaskIds -> TaskDoc], AllSwept(task, T), HasRoom(T),
               DispatchedTo(T, w) = {}, NEW t \in ClaimableBy(T, w), Dispatch(T, w, t)
        PROVE  OracleInv'
    <2>1. t \in OracleTaskIds
      BY DEF ClaimableBy, Queued
    <2> QED BY <1>1, <1>3, <2>1, DispatchKeepsInv
  <1> QED BY <1>2, <1>3, ClaimSweeps

(* A call of a worker settles the task, or moves its document as a sweep   *)
(* would.                                                                  *)
LEMMA CallSweeps ==
    ASSUME OracleInv, NEW w \in OracleWorkers, NEW t \in OracleTaskIds, WorkerCall(w, t)
    PROVE  /\ UNCHANGED <<poolSize, handed>>
           /\ \/ AllSwept(task, task') /\ UNCHANGED conversation
              \/ /\ task[t].status = "dispatched" /\ task[t].worker = w
                 /\ \E status \in {"completed", "failed"},
                       reason \in {"none", "capacity", "other"} : Settled(w, t, status, reason)
  <1> DEFINE Answers == \E status \in {"completed", "failed"},
                           reason \in {"none", "capacity", "other"} : Settled(w, t, status, reason)
             Sweeps == AllSwept(task, task') /\ UNCHANGED <<poolSize, conversation, handed>>
  <1> HIDE DEF Answers, Sweeps
  <1>0. task \in [OracleTaskIds -> TaskDoc] /\ task[t] \in TaskDoc
    BY DEF OracleInv, OracleTyped
  <1>1. ASSUME TooLate(w) PROVE Sweeps
    <2>1. AllSwept(task, task)
      BY <1>0, SweptSame DEF AllSwept
    <2> QED BY <1>1, <2>1 DEF TooLate, Sweeps
  <1>2. ASSUME task[t].status = "dispatched", WorkerAck(w, t)
        PROVE  Sweeps
    <2>1. Swept(task[t], [task[t] EXCEPT !.lapsed = FALSE])
      BY <1>0, <1>2, SweptMarked DEF InFlight
    <2>2. AllSwept(task, [task EXCEPT ![t] = [task[t] EXCEPT !.lapsed = FALSE]])
      BY <1>0, <2>1, OneSwept
    <2>3. /\ task' = [task EXCEPT ![t] = [task[t] EXCEPT !.lapsed = FALSE]]
          /\ UNCHANGED <<poolSize, conversation, handed>>
      BY <1>0, <1>2 DEF WorkerAck
    <2> QED BY <2>2, <2>3 DEF Sweeps
  <1>3. ASSUME SubmitResult(w, t)
        PROVE  Answers /\ UNCHANGED <<poolSize, handed>>
    BY <1>3 DEF SubmitResult, Answers
  <1>4. ASSUME task[t].status = "dispatched", SubmitCapacityFailure(w, t)
        PROVE  (Answers \/ Sweeps) /\ UNCHANGED <<poolSize, handed>>
    <2> DEFINE X == task[t].excluded \cup {w}
               e == [BackInQueue(task[t]) EXCEPT !.reroutes = @ + 1, !.excluded = X,
                                                 !.reason = "capacity"]
    <2>1. X \in SUBSET OracleWorkers
      BY <1>0 DEF TaskDoc
    <2>2. \/ /\ task' = [task EXCEPT ![t] = e] /\ UNCHANGED conversation
             /\ task[t].reroutes < MaxReroutes
          \/ Settled(w, t, "failed", "capacity")
      BY <1>0, <1>4 DEF SubmitCapacityFailure
    <2>3. UNCHANGED <<poolSize, handed>>
      BY <1>4 DEF SubmitCapacityFailure
    <2>4. task[t].reroutes < MaxReroutes => Swept(task[t], e)
      BY <1>0, <1>4, <2>1, SweptRerouted
    <2> HIDE DEF e, X
    <2>5. task[t].reroutes < MaxReroutes => AllSwept(task, [task EXCEPT ![t] = e])
      BY <1>0, <2>4, OneSwept
    <2> QED BY <2>2, <2>3, <2>5 DEF Answers, Sweeps
  <1>5. ASSUME task[t].status = "dispatched", SubmitBrowserFailure(w, t)
        PROVE  Sweeps
    <2>1. Swept(task[t], RetryOrFail(task[t]))
      BY <1>0, <1>5, SweptBack DEF RetryOrFail
    <2>2. AllSwept(task, [task EXCEPT ![t] = RetryOrFail(task[t])])
      BY <1>0, <2>1, OneSwept
    <2>3. /\ task' = [task EXCEPT ![t] = RetryOrFail(task[t])]
          /\ UNCHANGED <<poolSize, conversation, handed>>
      BY <1>0, <1>5 DEF SubmitBrowserFailure
    <2> QED BY <2>2, <2>3 DEF Sweeps
  <1>6. \/ TooLate(w)
        \/ /\ task[t].status = "dispatched" /\ task[t].worker = w
           /\ \/ WorkerAck(w, t) \/ SubmitResult(w, t)
              \/ SubmitCapacityFailure(w, t) \/ SubmitBrowserFailure(w, t)
    BY DEF WorkerCall, LiveDispatch
  <1> QED BY <1>1, <1>2, <1>3, <1>4, <1>5, <1>6 DEF Answers, Sweeps

LEMMA CallKeepsInv ==
    ASSUME OracleInv, NEW w \in OracleWorkers, NEW t \in OracleTaskIds, WorkerCall(w, t)
    PROVE  OracleInv'
  <1>1. UNCHANGED <<poolSize, handed>>
    BY CallSweeps
  <1>2. CASE AllSwept(task, task') /\ UNCHANGED conversation
    BY <1>1, <1>2, SweepStep
  <1>3. ASSUME task[t].status = "dispatched", task[t].worker = w,
               NEW status \in {"completed", "failed"}, NEW reason \in {"none", "capacity", "other"},
               Settled(w, t, status, reason)
        PROVE  OracleInv'
    BY <1>1, <1>3, SettledKeepsInv
  <1> QED BY <1>2, <1>3, CallSweeps

(* What the submitter and time do to one document.                         *)
LEMMA DocumentSweeps ==
    ASSUME OracleInv, NEW t \in OracleTaskIds, CancelTask(t) \/ Lapse(t) \/ Age(t)
    PROVE  AllSwept(task, task') /\ UNCHANGED <<poolSize, conversation, handed>>
  <1>0. task \in [OracleTaskIds -> TaskDoc] /\ task[t] \in TaskDoc
    BY DEF OracleInv, OracleTyped
  <1>1. task[t].status \in InFlight /\ UNCHANGED <<poolSize, conversation, handed>>
    BY DEF CancelTask, Lapse, Age, InFlight
  <1>2. PICK e : Swept(task[t], e) /\ task' = [task EXCEPT ![t] = e]
    <2>1. CASE CancelTask(t)
      <3>1. task' = [task EXCEPT ![t] = [task[t] EXCEPT !.status = "cancelled",
                                                       !.lapsed = FALSE]]
        BY <1>0, <2>1 DEF CancelTask
      <3> QED BY <1>0, <1>1, <3>1, SweptEnded
    <2>2. CASE Lapse(t)
      <3>1. task' = [task EXCEPT ![t] = [task[t] EXCEPT !.lapsed = TRUE]]
        BY <1>0, <2>2 DEF Lapse
      <3> QED BY <1>0, <1>1, <3>1, SweptMarked
    <2>3. CASE Age(t)
      <3>1. task' = [task EXCEPT ![t] = [task[t] EXCEPT !.aged = TRUE]]
        BY <1>0, <2>3 DEF Age
      <3> QED BY <1>0, <1>1, <3>1, SweptMarked
    <2> QED BY <2>1, <2>2, <2>3
  <1> QED BY <1>0, <1>1, <1>2, OneSwept

(* A look at the pool.                                                     *)
LEMMA StatusSweeps ==
    ASSUME OracleInv, PoolStatus
    PROVE  AllSwept(task, task') /\ UNCHANGED <<poolSize, conversation, handed>>
  <1>0. task \in [OracleTaskIds -> TaskDoc]
    BY DEF OracleInv, OracleTyped
  <1>1. AllSwept(task, LeasesExpired(task))
    BY <1>0, LeasesSwept
  <1>2. AllSwept(LeasesExpired(task), UnroutableSettled(LeasesExpired(task), presence))
    BY <1>1, UnroutableSwept DEF AllSwept
  <1> QED BY <1>0, <1>1, <1>2, AllSweptTwice DEF PoolStatus

LEMMA ForgetSweeps ==
    ASSUME OracleInv, NEW w \in OracleWorkers, ForgetWorker(w)
    PROVE  AllSwept(task, task')
  <1>0. task \in [OracleTaskIds -> TaskDoc]
    BY DEF OracleInv, OracleTyped
  <1>1. ASSUME NEW t \in OracleTaskIds
        PROVE  Swept(task[t], task'[t])
    BY <1>0, SweptSame, SweptUnpinned DEF ForgetWorker
  <1>2. task' \in [OracleTaskIds -> TaskDoc]
    BY <1>1 DEF ForgetWorker, Swept
  <1> QED BY <1>1, <1>2 DEF AllSwept

(* A worker is forgotten: the conversation may lose its owner.             *)
LEMMA ForgetKeepsInv ==
    ASSUME OracleInv, NEW w \in OracleWorkers, ForgetWorker(w)
    PROVE  OracleInv'
  <1>0. /\ task \in [OracleTaskIds -> TaskDoc] /\ poolSize \in Nat
        /\ handed \in [OracleTaskIds -> Seq(OracleWorkers)]
        /\ conversation \in [owner : Labels, turns : Nat]
        /\ UNCHANGED <<poolSize, handed>>
    BY DEF OracleInv, OracleTyped, ForgetWorker
  <1>2. AllSwept(task, task')
    BY ForgetSweeps
  <1>3. /\ conversation' \in [owner : Labels, turns : Nat]
        /\ conversation'.turns = conversation.turns
        /\ conversation'.owner \in {conversation.owner, NoWorker}
    BY <1>0 DEF ForgetWorker, Labels
  <1>4. OracleTyped'
    BY <1>0, <1>2, <1>3 DEF OracleTyped, AllSwept
  <1>5. AllCounted(task', handed) /\ WithinLimits(task', poolSize)
    BY <1>0, <1>2, SweptKeepsCounts, SweptKeepsLimits DEF OracleInv
  <1>6. ResultsMatch(task', conversation)
    BY <1>0, <1>2, SweptKeepsResults DEF OracleInv
  <1>7. ResultsMatch(task', conversation')
    BY <1>3, <1>6 DEF ResultsMatch
  <1> QED BY <1>0, <1>4, <1>5, <1>7 DEF OracleInv

LEMMA OracleInitInv == OracleInit => OracleInv
  <1> SUFFICES ASSUME OracleInit PROVE OracleInv
    OBVIOUS
  <1>1. NoTask \in TaskDoc /\ NoTask.status = "none" /\ NoTask.answered = 0
    BY NoTaskIsDoc
  <1>2. OracleTyped
    BY <1>1, OracleAssumption DEF OracleInit, OracleTyped, Labels
  <1>3. \A t \in OracleTaskIds : task[t] = NoTask /\ handed[t] = <<>>
    BY DEF OracleInit
  <1>4. AllCounted(task, handed)
    BY <1>3 DEF AllCounted, Counted, NoTask
  <1>5. Dispatched(task) = {} /\ InFlightTasks(task) = {} /\ Answered(task) = {}
    BY <1>1, <1>3 DEF Dispatched, InFlightTasks, Answered, InFlight
  <1>6. Cardinality({}) = 0
    BY FS_EmptySet
  <1>7. WithinLimits(task, poolSize)
    BY <1>2, <1>5, <1>6, OracleAssumption DEF WithinLimits, OracleTyped
  <1>8. conversation.owner = NoWorker /\ conversation.turns = 0
    BY DEF OracleInit
  <1>9. ResultsMatch(task, conversation)
    BY <1>1, <1>3, <1>5, <1>6, <1>8 DEF ResultsMatch, Over
  <1> QED BY <1>2, <1>4, <1>7, <1>9 DEF OracleInv

LEMMA OracleNextInv == OracleInv /\ [OracleNext]_oracleVars => OracleInv'
  <1> SUFFICES ASSUME OracleInv, [OracleNext]_oracleVars PROVE OracleInv'
    OBVIOUS
  <1>1. ASSUME UNCHANGED <<poolSize, task, conversation, handed>> PROVE OracleInv'
    <2>1. AllSwept(task, task)
      BY SweptSame DEF AllSwept, OracleInv, OracleTyped
    <2> QED BY <1>1, <2>1, SweepStep
  <1>2. CASE UNCHANGED oracleVars
    BY <1>1, <1>2 DEF oracleVars
  <1>3. ASSUME NEW t \in OracleTaskIds, SubmitTask(t) \/ CancelTask(t) \/ Lapse(t) \/ Age(t)
        PROVE  OracleInv'
    BY <1>3, SubmitKeepsInv, DocumentSweeps, SweepStep
  <1>4. ASSUME NEW w \in OracleWorkers, NEW t \in OracleTaskIds, WorkerCall(w, t)
        PROVE  OracleInv'
    BY <1>4, CallKeepsInv
  <1>5. ASSUME NEW w \in OracleWorkers, ClaimTask(w) \/ ForgetWorker(w)
        PROVE  OracleInv'
    BY <1>5, ClaimKeepsInv, ForgetKeepsInv
  <1>6. ASSUME NEW w \in OracleWorkers,
               ReportPresence(w) \/ SetDesiredState(w) \/ CoolDown(w) \/ Fade(w)
        PROVE  OracleInv'
    BY <1>1, <1>6 DEF ReportPresence, SetDesiredState, CoolDown, Fade
  <1>7. CASE PoolStatus
    BY <1>7, StatusSweeps, SweepStep
  <1> QED BY <1>2, <1>3, <1>4, <1>5, <1>6, <1>7 DEF OracleNext

(* The counts, the limits and the results of an oracle pool hold together, *)
(* whatever the submitter, the workers, the managers and time do           *)
(* (claim_task_with_retention, worker_submit_result_fenced).               *)
THEOREM OracleInvariant == OracleSpec => []OracleInv
  BY OracleInitInv, OracleNextInv, PTL DEF OracleSpec

(* A task is handed out at most once more than it was charged retries and  *)
(* reroutes, and never to a worker it excludes, for any max_retries and    *)
(* any number of workers and late calls.                                   *)
THEOREM HandOutsAreCharged == OracleSpec => []HandedOutBounded
  <1>1. OracleInv => HandedOutBounded
    BY DEF OracleInv, AllCounted, Counted, HandedOutBounded
  <1> QED BY <1>1, OracleInvariant, PTL

(* A worker holds one task at most, since no two tasks that are out name   *)
(* the same worker.                                                        *)
LEMMA OracleCapacity == OracleInv => PoolCapacity
  <1>1. ASSUME OracleInv, NEW w \in OracleWorkers
        PROVE  Cardinality(DispatchedTo(task, w)) <= 1
    <2>1. \A t, u \in DispatchedTo(task, w) : t = u
      BY <1>1 DEF OracleInv, WithinLimits, DispatchedTo
    <2>2. CASE DispatchedTo(task, w) = {}
      BY <2>2, FS_EmptySet
    <2>3. CASE DispatchedTo(task, w) # {}
      <3>1. PICK t : DispatchedTo(task, w) = {t}
        BY <2>1, <2>3
      <3>2. Cardinality({t}) = 1
        BY FS_Singleton
      <3> QED BY <3>1, <3>2
    <2> QED BY <2>2, <2>3
  <1> QED BY <1>1 DEF OracleInv, WithinLimits, InFlightTasks, PoolCapacity

(* A pool of any size hands out no more tasks than max_workers, a worker   *)
(* holds at most one, and the submitter stays within per_user_max_inflight.*)
THEOREM PoolStaysWithinCapacity == OracleSpec => []PoolCapacity
  BY OracleCapacity, OracleInvariant, PTL

(* A task takes one result however many are sent; the conversation counts  *)
(* as many turns as tasks were answered, and its owner completed one.      *)
THEOREM ResultsAreTakenOnce == OracleSpec => []OneResultPerTask
  <1>1. OracleInv => OneResultPerTask
    BY DEF OracleInv, ResultsMatch, Answered, OneResultPerTask
  <1> QED BY <1>1, OracleInvariant, PTL

-----------------------------------------------------------------------------
(* Tasks are jobs.                                                         *)

(* What may become of a document as the job it is.                         *)
Lawful(d, e) ==
    \/ e.answered = d.answered
       /\ \/ d.status = e.status
          \/ d.status = "none" /\ e.status = "queued"
          \/ d.status = "queued" /\ e.status = "dispatched"
          \/ d.status = "dispatched" /\ e.status = "queued" /\ d.answered = 0
          \/ d.status \in InFlight /\ e.status \in Over
    \/ e.answered = d.answered + 1 /\ d.status = "dispatched" /\ e.status \in Over

LEMMA LawfulMoves ==
    ASSUME NEW t \in OracleTaskIds, task[t] \in TaskDoc, task'[t] \in TaskDoc,
           Lawful(task[t], task'[t])
    PROVE  TaskJobs!Move(t)
  BY DEF Lawful, TaskDoc, InFlight, Over, TaskJobs!Move, TaskJobs!Rests, TaskJobs!Enters,
         TaskJobs!Starts, TaskJobs!TakesEffect, TaskJobs!Returns, TaskJobs!Ends

(* A sweep returns only tasks that have no result to the queue.            *)
LEMMA SweptIsLawful ==
    ASSUME OracleInv, NEW T, AllSwept(task, T), NEW t \in OracleTaskIds
    PROVE  Lawful(task[t], T[t])
  <1>1. task[t] \in TaskDoc /\ T[t] \in TaskDoc /\ Swept(task[t], T[t])
    BY DEF OracleInv, OracleTyped, AllSwept
  <1>2. task[t].status \notin Over => task[t].answered = 0
    BY <1>1 DEF OracleInv, ResultsMatch, TaskDoc
  <1> QED BY <1>1, <1>2 DEF Swept, Lawful, TaskDoc, InFlight, Over

(* A task handed out was waiting, or had just been returned to the queue.  *)
LEMMA DispatchIsLawful ==
    ASSUME OracleInv, NEW T \in [OracleTaskIds -> TaskDoc], AllSwept(task, T),
           NEW w \in OracleWorkers, NEW u \in ClaimableBy(T, w), Dispatch(T, w, u),
           NEW t \in OracleTaskIds
    PROVE  Lawful(task[t], task'[t])
  <1>1. Lawful(task[t], T[t])
    BY SweptIsLawful
  <1>2. t # u => task'[t] = T[t]
    BY DEF Dispatch
  <1>3. /\ u \in OracleTaskIds /\ T[u].status = "queued" /\ T[u] \in TaskDoc
        /\ task'[u].status = "dispatched" /\ task'[u].answered = T[u].answered
    BY DEF Dispatch, ClaimableBy, Queued, TaskDoc
  <1>4. task[u].status \in {"queued", "dispatched"} /\ T[u].answered = task[u].answered
    BY <1>3 DEF AllSwept, Swept, OracleInv, OracleTyped, TaskDoc, InFlight, Over
  <1> QED BY <1>1, <1>2, <1>3, <1>4 DEF Lawful

LEMMA SettledIsLawful ==
    ASSUME OracleInv, NEW u \in OracleTaskIds, NEW w, NEW status \in {"completed", "failed"},
           NEW reason, task[u].status = "dispatched", Settled(w, u, status, reason),
           NEW t \in OracleTaskIds
    PROVE  Lawful(task[t], task'[t])
  <1>1. t # u => task'[t] = task[t]
    BY DEF Settled, OracleInv, OracleTyped
  <1>2. task'[u].status = status /\ task'[u].answered = task[u].answered + 1
    BY DEF Settled, OracleInv, OracleTyped, TaskDoc
  <1> QED BY <1>1, <1>2 DEF Lawful, Over

LEMMA StepIsLawful ==
    ASSUME OracleInv, [OracleNext]_oracleVars, NEW t \in OracleTaskIds
    PROVE  Lawful(task[t], task'[t])
  <1>1. ASSUME UNCHANGED task PROVE Lawful(task[t], task'[t])
    BY <1>1 DEF Lawful
  <1>2. CASE UNCHANGED oracleVars
    BY <1>1, <1>2 DEF oracleVars
  <1>3. ASSUME NEW u \in OracleTaskIds, SubmitTask(u)
        PROVE  Lawful(task[t], task'[t])
    <2>1. t # u => task'[t] = task[t]
      BY <1>3 DEF SubmitTask, OracleInv, OracleTyped
    <2>2. task[u] \in TaskDoc /\ task[u].status = "none"
      BY <1>3 DEF SubmitTask, OracleInv, OracleTyped
    <2>4. task[u].answered = 0
      BY <2>2 DEF OracleInv, ResultsMatch, TaskDoc, Over
    <2>3. task'[u].answered = 0 /\ task'[u].status = "queued"
      BY <1>3 DEF SubmitTask, NoTask, OracleInv, OracleTyped
    <2> QED BY <2>1, <2>2, <2>3, <2>4 DEF Lawful
  <1>4. ASSUME NEW u \in OracleTaskIds, CancelTask(u) \/ Lapse(u) \/ Age(u)
        PROVE  Lawful(task[t], task'[t])
    BY <1>4, DocumentSweeps, SweptIsLawful
  <1>5. ASSUME NEW w \in OracleWorkers, NEW u \in OracleTaskIds, WorkerCall(w, u)
        PROVE  Lawful(task[t], task'[t])
    <2>1. CASE AllSwept(task, task')
      BY <2>1, SweptIsLawful
    <2>2. ASSUME task[u].status = "dispatched", NEW status \in {"completed", "failed"},
                 NEW reason, Settled(w, u, status, reason)
          PROVE  Lawful(task[t], task'[t])
      BY <2>2, SettledIsLawful
    <2> QED BY <1>5, <2>1, <2>2, CallSweeps
  <1>6. ASSUME NEW w \in OracleWorkers, ClaimTask(w)
        PROVE  Lawful(task[t], task'[t])
    BY <1>6, ClaimSweeps, SweptIsLawful, DispatchIsLawful
  <1>7. ASSUME NEW w \in OracleWorkers, ForgetWorker(w)
        PROVE  Lawful(task[t], task'[t])
    BY <1>7, ForgetSweeps, SweptIsLawful
  <1>8. ASSUME NEW w \in OracleWorkers,
               ReportPresence(w) \/ SetDesiredState(w) \/ CoolDown(w) \/ Fade(w)
        PROVE  Lawful(task[t], task'[t])
    BY <1>1, <1>8 DEF ReportPresence, SetDesiredState, CoolDown, Fade
  <1>9. CASE PoolStatus
    BY <1>9, StatusSweeps, SweptIsLawful
  <1> QED BY <1>2, <1>3, <1>4, <1>5, <1>6, <1>7, <1>8, <1>9 DEF OracleNext

(* An oracle pool of any size, with any number of retries and reroutes,    *)
(* implements the job queue: a claim's sweeps may move many tasks at once, *)
(* each of them along the way of a job, and never beyond max_workers       *)
(* (claim_task_with_retention, worker_submit_result_fenced).               *)
THEOREM PoolImplementsJobQueue == OracleSpec => TasksAreJobs
  <1>1. OracleInit => TaskJobs!Init
    <2> SUFFICES ASSUME OracleInit PROVE TaskJobs!Init
      OBVIOUS
    <2>1. \A t \in OracleTaskIds : task[t].status = "none" /\ task[t].answered = 0
      BY NoTaskIsDoc DEF OracleInit
    <2> QED BY <2>1 DEF TaskJobs!Init
  <1>2. OracleInv /\ OracleInv' /\ [OracleNext]_oracleVars
            => [TaskJobs!Next]_(TaskJobs!jobVars)
    <2> SUFFICES ASSUME OracleInv, OracleInv', [OracleNext]_oracleVars
                 PROVE  TaskJobs!Next
      OBVIOUS
    <2>1. ASSUME NEW t \in OracleTaskIds PROVE TaskJobs!Move(t)
      <3>1. task[t] \in TaskDoc /\ task'[t] \in TaskDoc
        BY DEF OracleInv, OracleTyped
      <3> QED BY <3>1, StepIsLawful, LawfulMoves
    <2>2. UNCHANGED poolSize
      BY DEF OracleNext, oracleVars, SubmitTask, CancelTask, Lapse, Age, WorkerCall, WorkerAck,
             SubmitResult, SubmitCapacityFailure, SubmitBrowserFailure, TooLate, ClaimTask,
             ReportPresence, SetDesiredState, ForgetWorker, CoolDown, Fade, PoolStatus
    <2>3. TaskJobs!Cardinality(TaskJobs!UnderWay') <= poolSize
      <3>1. TaskJobs!UnderWay' = Dispatched(task')
        BY DEF TaskJobs!UnderWay, Dispatched
      <3>2. TaskJobs!Cardinality(Dispatched(task')) = Cardinality(Dispatched(task'))
        BY Zenon DEF TaskJobs!Cardinality, Cardinality
      <3> QED BY <2>2, <3>1, <3>2 DEF OracleInv, WithinLimits
    <2> QED BY <2>1, <2>2, <2>3 DEF TaskJobs!Next
  <1> QED BY <1>1, <1>2, OracleInvariant, PTL DEF OracleSpec, TasksAreJobs, TaskJobs!Spec

-----------------------------------------------------------------------------
(* The types of the run.                                                   *)

PresenceDoc == [known : BOOLEAN, recent : BOOLEAN, able : BOOLEAN, drained : BOOLEAN,
                cooling : BOOLEAN]

Staffed == /\ poolSize \in PoolSizes /\ changes \in 0 .. MaxChanges
           /\ presence \in [OracleWorkers -> PresenceDoc]

(* What is known of one worker changes.                                    *)
LEMMA WorkerChanges ==
    ASSUME Staffed, NEW w \in OracleWorkers, NEW d \in PresenceDoc,
           presence' = [presence EXCEPT ![w] = d],
           UNCHANGED poolSize, UNCHANGED changes \/ Changed
    PROVE  Staffed'
  BY OracleAssumption DEF Staffed, Changed

LEMMA SeenStaffs ==
    ASSUME Staffed, NEW w \in OracleWorkers, presence' = Seen(w),
           UNCHANGED <<poolSize, changes>>
    PROVE  Staffed'
  <1> DEFINE d == [presence[w] EXCEPT !.known = TRUE, !.recent = TRUE]
  <1>1. d \in PresenceDoc
    BY DEF Staffed, PresenceDoc
  <1>2. presence' = [presence EXCEPT ![w] = d]
    BY DEF Staffed, Seen
  <1> QED BY <1>1, <1>2, WorkerChanges

LEMMA StaffStep == Staffed /\ [OracleNext]_oracleVars => Staffed'
  <1> SUFFICES ASSUME Staffed, [OracleNext]_oracleVars PROVE Staffed'
    OBVIOUS
  <1>0. \A w \in OracleWorkers : presence[w] \in PresenceDoc
    BY DEF Staffed
  <1>1. ASSUME UNCHANGED <<poolSize, presence, changes>> PROVE Staffed'
    BY <1>1 DEF Staffed
  <1>2. ASSUME NEW t \in OracleTaskIds, SubmitTask(t) \/ CancelTask(t) \/ Lapse(t) \/ Age(t)
        PROVE  Staffed'
    BY <1>1, <1>2 DEF SubmitTask, CancelTask, Lapse, Age
  <1>3. ASSUME NEW w \in OracleWorkers, NEW t \in OracleTaskIds, WorkerCall(w, t)
        PROVE  Staffed'
    BY <1>3, SeenStaffs DEF WorkerCall, WorkerAck, SubmitResult, SubmitCapacityFailure,
       SubmitBrowserFailure, TooLate
  <1>4. ASSUME NEW w \in OracleWorkers, ClaimTask(w) PROVE Staffed'
    BY <1>4, SeenStaffs DEF ClaimTask
  <1>5. ASSUME NEW w \in OracleWorkers, ReportPresence(w) PROVE Staffed'
    <2>1. PICK able \in BOOLEAN, cooling \in BOOLEAN :
            presence' = [presence EXCEPT ![w] = [known |-> TRUE, recent |-> TRUE, able |-> able,
                           drained |-> presence[w].drained, cooling |-> cooling]]
      BY <1>5 DEF ReportPresence, Staffed
    <2>2. [known |-> TRUE, recent |-> TRUE, able |-> able, drained |-> presence[w].drained,
           cooling |-> cooling] \in PresenceDoc
      BY <1>0 DEF PresenceDoc
    <2> QED BY <1>5, <2>1, <2>2, WorkerChanges DEF ReportPresence
  <1>6. ASSUME NEW w \in OracleWorkers, SetDesiredState(w) PROVE Staffed'
    <2> DEFINE d == [presence[w] EXCEPT !.drained = ~presence[w].drained]
    <2>1. presence' = [presence EXCEPT ![w] = d]
      BY <1>6 DEF SetDesiredState, Staffed
    <2>2. d \in PresenceDoc
      BY <1>0 DEF PresenceDoc
    <2> QED BY <1>6, <2>1, <2>2, WorkerChanges DEF SetDesiredState
  <1>7. ASSUME NEW w \in OracleWorkers, ForgetWorker(w) PROVE Staffed'
    <2>1. Stranger \in PresenceDoc
      BY DEF Stranger, PresenceDoc
    <2> QED BY <1>7, <2>1, WorkerChanges DEF ForgetWorker
  <1>8. ASSUME NEW w \in OracleWorkers, CoolDown(w) \/ Fade(w) PROVE Staffed'
    <2>1. PICK d \in PresenceDoc : presence' = [presence EXCEPT ![w] = d]
      <3>1. /\ [presence[w] EXCEPT !.cooling = FALSE] \in PresenceDoc
            /\ [presence[w] EXCEPT !.recent = FALSE] \in PresenceDoc
        BY <1>0 DEF PresenceDoc
      <3>2. \/ presence' = [presence EXCEPT ![w] = [presence[w] EXCEPT !.cooling = FALSE]]
            \/ presence' = [presence EXCEPT ![w] = [presence[w] EXCEPT !.recent = FALSE]]
        BY <1>8 DEF CoolDown, Fade, Staffed
      <3> QED BY <3>1, <3>2
    <2> QED BY <1>8, <2>1, WorkerChanges DEF CoolDown, Fade
  <1>9. CASE PoolStatus
    BY <1>1, <1>9 DEF PoolStatus
  <1>10. CASE UNCHANGED oracleVars
    BY <1>1, <1>10 DEF oracleVars
  <1> QED BY <1>2, <1>3, <1>4, <1>5, <1>6, <1>7, <1>8, <1>9, <1>10 DEF OracleNext

(* The documents of a pool keep their types and their bounds: retries,     *)
(* reroutes and hand-outs stay within max_retries and                      *)
(* MAX_CAPACITY_REROUTES, whoever fails how often.                         *)
THEOREM OracleIsTyped == OracleSpec => []OracleTypeOK
  <1>1. OracleInit => Staffed
    <2>1. Stranger \in PresenceDoc
      BY DEF Stranger, PresenceDoc
    <2> QED BY <2>1, OracleAssumption DEF OracleInit, Staffed
  <1>2. OracleInv /\ Staffed => OracleTypeOK
    <2> SUFFICES ASSUME OracleInv, Staffed PROVE OracleTypeOK
      OBVIOUS
    <2>1. task \in [OracleTaskIds -> TaskDoc] /\ OracleTyped
      BY DEF OracleInv, OracleTyped
    <2>2. ASSUME NEW t \in OracleTaskIds
          PROVE  task[t] \in [status : {"none"} \cup InFlight \cup Over, worker : Labels,
                   attempt : Attempts, lapsed : BOOLEAN, retries : 0 .. MaxRetries,
                   reroutes : 0 .. MaxReroutes, excluded : SUBSET OracleWorkers,
                   reason : {"none", "capacity", "other"}, required : Labels, aged : BOOLEAN,
                   answered : 0 .. 2]
      <3>1. task[t] \in TaskDoc /\ task[t].answered \in Nat
        BY <2>1 DEF TaskDoc
      <3>2. task[t].answered <= IF task[t].status \in Over THEN 1 ELSE 0
        BY DEF OracleInv, ResultsMatch
      <3>3. task[t].answered \in 0 .. 2
        BY <3>1, <3>2
      <3> QED BY <3>1, <3>3 DEF TaskDoc
    <2>3. conversation \in [owner : Labels, turns : 0 .. 2 * Cardinality(OracleTaskIds)]
      <3>1. conversation.turns = Cardinality(Answered(task))
        BY DEF OracleInv, ResultsMatch
      <3>2. Answered(task) \in SUBSET OracleTaskIds
        BY DEF Answered
      <3>3. /\ Cardinality(Answered(task)) <= Cardinality(OracleTaskIds)
            /\ Cardinality(Answered(task)) \in Nat /\ Cardinality(OracleTaskIds) \in Nat
        BY <3>2, SmallerSet, FiniteTasks
      <3>4. conversation.turns \in 0 .. 2 * Cardinality(OracleTaskIds)
        BY <3>1, <3>3
      <3> QED BY <2>1, <3>4 DEF OracleTyped
    <2>4. ASSUME NEW t \in OracleTaskIds
          PROVE  /\ Len(handed[t]) \in Attempts
                 /\ \A a \in DOMAIN handed[t] : handed[t][a] \in OracleWorkers
      <3>1. handed[t] \in Seq(OracleWorkers) /\ Len(handed[t]) \in Nat
        BY <2>1 DEF OracleTyped
      <3>2. /\ task[t].retries \in Nat /\ task[t].retries <= MaxRetries
            /\ task[t].reroutes \in Nat /\ task[t].reroutes <= MaxReroutes
        BY <2>1, OracleAssumption DEF TaskDoc
      <3>3. Len(handed[t]) <= 1 + task[t].retries + task[t].reroutes
        BY DEF OracleInv, AllCounted, Counted
      <3>4. Len(handed[t]) \in Attempts
        BY <3>1, <3>2, <3>3, OracleAssumption DEF Attempts
      <3> QED BY <3>1, <3>4
    <2> QED BY <2>1, <2>2, <2>3, <2>4 DEF OracleTypeOK, Staffed, PresenceDoc
  <1> QED BY <1>1, <1>2, OracleInitInv, OracleNextInv, StaffStep, PTL DEF OracleSpec

-----------------------------------------------------------------------------
(* The queues of the run, side by side.  The pair of turns that queue and  *)
(* the one that does not are an instance of the limiter, and its theorems  *)
(* hold of them.                                                           *)

PairProofs == INSTANCE ChatProofs WITH
    QueueTurns <- {1, 2}, NowTurns <- {3}, MaxInFlight <- 2, MaxQueued <- 1,
    TTL <- 2, MaxNow <- 0, MaxFaults <- 1, Timely <- TRUE

LEMMA PairAssumption == PairProofs!DirectChatAssumption
  BY DEF PairProofs!Turns

LEMMA PairIsAnInstance ==
    /\ Pair!Init => PairProofs!Init
    /\ [Pair!Next]_vars => [PairProofs!Next]_PairProofs!vars
    /\ PairProofs!Capacity => Pair!Capacity
  <1>1. Pair!Init => PairProofs!Init
    BY Zenon DEF Pair!Turns, PairProofs!Turns, Pair!Pools, PairProofs!Pools, Pair!Limit,
       PairProofs!Limit, Pair!Slots, PairProofs!Slots, Pair!Free, PairProofs!Free, Pair!NoProbe,
       PairProofs!NoProbe, Pair!Init, PairProofs!Init
  <1>2. Pair!Next => PairProofs!Next
    BY Zenon DEF Pair!Turns, PairProofs!Turns, Pair!Pools, PairProofs!Pools, Pair!Limit,
       PairProofs!Limit, Pair!Slots, PairProofs!Slots, Pair!Free, PairProofs!Free, Pair!NoProbe,
       PairProofs!NoProbe, Pair!Live, PairProofs!Live, Pair!Kept, PairProofs!Kept,
       Pair!LiveGuard, PairProofs!LiveGuard, Pair!Probing, PairProofs!Probing, Pair!AnyLive,
       PairProofs!AnyLive, Pair!Before, PairProofs!Before, Pair!OldestLive,
       PairProofs!OldestLive, Pair!SlotStart, PairProofs!SlotStart, Pair!StartProbe,
       PairProofs!StartProbe, Pair!Written, PairProofs!Written, Pair!Hit, PairProofs!Hit,
       Pair!Miss, PairProofs!Miss, Pair!Exhausted, PairProofs!Exhausted, Pair!Drop,
       PairProofs!Drop, Pair!NoteAhead, PairProofs!NoteAhead, Pair!Arrive, PairProofs!Arrive,
       Pair!TakeFirst, PairProofs!TakeFirst, Pair!AskPlace, PairProofs!AskPlace, Pair!CheckLine,
       PairProofs!CheckLine, Pair!TakePlace, PairProofs!TakePlace, Pair!EndAdmission,
       PairProofs!EndAdmission, Pair!Refuse, PairProofs!Refuse, Pair!AdmitRequest,
       PairProofs!AdmitRequest, Pair!Abort, PairProofs!Abort, Pair!CheckOldest,
       PairProofs!CheckOldest, Pair!ClaimHit, PairProofs!ClaimHit, Pair!ClaimNothing,
       PairProofs!ClaimNothing, Pair!TakeSlot, PairProofs!TakeSlot, Pair!Leave,
       PairProofs!Leave, Pair!DropClaim, PairProofs!DropClaim, Pair!Finish, PairProofs!Finish,
       Pair!Renewed, PairProofs!Renewed, Pair!Renew, PairProofs!Renew, Pair!Release,
       PairProofs!Release, Pair!Fault, PairProofs!Fault, Pair!RenewFails, PairProofs!RenewFails,
       Pair!ReleaseFails, PairProofs!ReleaseFails, Pair!AcquireFails, PairProofs!AcquireFails,
       Pair!Crash, PairProofs!Crash, Pair!OnTime, PairProofs!OnTime, Pair!Aged, PairProofs!Aged,
       Pair!Tick, PairProofs!Tick, Pair!TurnStep, PairProofs!TurnStep, Pair!Next,
       PairProofs!Next
  <1>3. vars' = vars => PairProofs!vars' = PairProofs!vars
    BY DEF vars, PairProofs!vars
  <1>4. PairProofs!Capacity => Pair!Capacity
    BY Zenon DEF Pair!Capacity, PairProofs!Capacity, Pair!Turns, PairProofs!Turns,
       Pair!Cardinality, PairProofs!Cardinality
  <1> QED BY <1>1, <1>2, <1>3, <1>4

(* What holds while one of the queues is used.                             *)
QueuesInv ==
    /\ OracleInv
    /\ part = "line" => ChatInv
    /\ part = "pair" => PairProofs!ChatInv

LEMMA QueuesInitially == QueuesInit => QueuesInv
  <1>1. Init => ChatInv
    BY ChatInitially
  <1>2. Pair!Init => PairProofs!ChatInv
    BY PairAssumption, PairIsAnInstance, PairProofs!ChatInitially
  <1> QED BY <1>1, <1>2, OracleInitInv DEF QueuesInit, QueuesInv

LEMMA QueuesStep == QueuesInv /\ [QueuesNext]_<<part, vars, oracleVars>> => QueuesInv'
  <1> SUFFICES ASSUME QueuesInv, [QueuesNext]_<<part, vars, oracleVars>> PROVE QueuesInv'
    OBVIOUS
  <1>1. part' = part /\ [OracleNext]_oracleVars
    BY DEF QueuesNext
  <1>2. OracleInv'
    BY <1>1, OracleNextInv DEF QueuesInv
  <1>3. part = "line" => ChatInv'
    <2>1. part = "line" => [Next]_vars
      BY DEF QueuesNext
    <2> QED BY <2>1, ChatStep DEF QueuesInv
  <1>4. part = "pair" => PairProofs!ChatInv'
    <2>1. part = "pair" => [Pair!Next]_vars
      BY DEF QueuesNext
    <2> QED BY <2>1, PairAssumption, PairIsAnInstance, PairProofs!ChatStep DEF QueuesInv
  <1> QED BY <1>1, <1>2, <1>3, <1>4 DEF QueuesInv

(* No queue lets through more than its limit: neither the direct chat of   *)
(* the run while its renewals are on time, nor a pool of any size          *)
(* (rate_limit.rs, oracle_task_service.rs).                                *)
THEOREM QueuesWithinLimits == QueuesSpec => []LimitsHold
  <1>1. QueuesInv => LimitsHold
    BY OracleCapacity, PairAssumption, PairIsAnInstance, PairProofs!ChatCapacity
       DEF QueuesInv, LimitsHold
  <1> QED BY <1>1, QueuesInitially, QueuesStep, PTL DEF QueuesSpec

(* Nobody in line for a reply is overtaken, for any number of turns, slots *)
(* and places, and although slots and places may expire under their guards *)
(* (admit, claim_slot, take_slot).                                         *)
THEOREM LineIsKept == QueuesSpec => NobodyIsOvertaken
  <1>1. QueuesInv /\ [QueuesNext]_<<part, vars, oracleVars>>
          => [part = "line" => OvertakesNobody]_vars
    <2> SUFFICES ASSUME QueuesInv, [QueuesNext]_<<part, vars, oracleVars>>, part = "line"
                 PROVE  OvertakesNobody
      OBVIOUS
    <2>1. [Next]_vars /\ ChatInv
      BY DEF QueuesNext, QueuesInv
    <2> QED BY <2>1, ChatLineKept
  <1> QED BY <1>1, QueuesInitially, QueuesStep, PTL DEF QueuesSpec, NobodyIsOvertaken
=============================================================================
