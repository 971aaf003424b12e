--------------------------- MODULE InboundProofs ---------------------------
(***************************************************************************)
(* What comes in is handled once, for any number of deliveries, requests,  *)
(* lease changes and faults.                                               *)
(***************************************************************************)
EXTENDS MCInbound, FiniteSetTheorems, TLAPS

-----------------------------------------------------------------------------
(* The admission of a message.  What the transaction locked when it began  *)
(* stays true until it ends, and a committed record stands for a stored    *)
(* row.                                                                    *)

\* An open transaction keeps the owner and, of a gateway, the fence it saw.
LockInv == \A d \in Deliveries :
              pc[d] = "end" => owner = "active" /\ (d \in Gateways => fence[d] = lease)
\* Committed state and metadata are one.
RowInv == /\ IsCommitted(record) => stored > 0
          /\ \A d \in Deliveries : answer[d] = "stored" => stored > 0

Inv == TypeOK /\ OneRow /\ LockInv /\ RowInv /\ GatewayAckIsStored

\* The operations of the store on well-formed documents.
LEMMA RecordOps ==
    /\ NoRecord \notin Record
    /\ \A c \in Claims : Claimed(c) \in Record /\ Claimed(c).state = "claimed"
    /\ \A r \in Record : Committed(r) \in Record /\ Committed(r).state = "committed"
    /\ \A r \in Record : \/ Aged(r) = NoRecord
                         \/ Aged(r) \in Record /\ Aged(r).state = r.state
<1>1. NoRecord \notin Record
  BY EventDedupAssumption DEF Record
<1>2. ASSUME NEW c \in Claims PROVE Claimed(c) \in Record /\ Claimed(c).state = "claimed"
  BY EventDedupAssumption DEF Claimed, Record
<1>3. ASSUME NEW r \in Record
      PROVE  Committed(r) \in Record /\ Committed(r).state = "committed"
  BY EventDedupAssumption DEF Committed, Record
<1>4. ASSUME NEW r \in Record
      PROVE  \/ Aged(r) = NoRecord
             \/ Aged(r) \in Record /\ Aged(r).state = r.state
  <2>1. r.ttl \in Nat \ {0} /\ r # NoRecord
    BY <1>1 DEF Record
  <2>2. CASE r.ttl = 1
    BY <2>2 DEF Aged
  <2>3. CASE r.ttl # 1
    <3>1. Aged(r) = [r EXCEPT !.ttl = @ - 1] /\ r.ttl - 1 \in Nat \ {0}
      BY <2>1, <2>3 DEF Aged
    <3> QED BY <3>1 DEF Record
  <2> QED BY <2>2, <2>3
<1> QED BY <1>1, <1>2, <1>3, <1>4

\* A row is inserted at most once, and committing leaves one.
LEMMA InsertedOnce ==
    ASSUME NEW n \in Nat, n <= 1
    PROVE  Inserted(n) = 1
BY DEF Inserted

\* Every step of the code preserves the invariant.
LEMMA InvInductive ==
    ASSUME Inv, [Next]_vars
    PROVE  Inv'
<1> USE RecordOps, ChannelAdmissionAssumption
    DEF Inv, TypeOK, OneRow, LockInv, RowInv, GatewayAckIsStored
<1>1. ASSUME NEW d \in Deliveries, Claim(d) PROVE Inv'
  BY <1>1 DEF Claim, Go, Answer, IsCommitted, Deliveries
<1>2. ASSUME NEW d \in Deliveries, Begin(d) PROVE Inv'
  BY <1>2 DEF Begin, NotAdmitted, FenceHolds, Go, Answer, Deliveries
<1>3. ASSUME NEW d \in Deliveries, End(d) PROVE Inv'
  <2>1. CASE ClaimedBy(record, d)
    <3>1. stored' = 1 /\ record' \in Record
      BY <1>3, <2>1, InsertedOnce DEF End, ClaimedBy
    <3> QED BY <1>3, <2>1, <3>1 DEF End, NotAdmitted, Go, Answer, Deliveries
  <2>2. CASE ~ClaimedBy(record, d)
    BY <1>3, <2>2 DEF End, NotAdmitted, Go, Answer, Deliveries
  <2> QED BY <2>1, <2>2
<1>4. ASSUME NEW d \in Deliveries, CheckCommitted(d) PROVE Inv'
  BY <1>4 DEF CheckCommitted, Go, Answer, Deliveries
<1>5. ASSUME NEW d \in Deliveries, Release(d) PROVE Inv'
  BY <1>5 DEF Release, Released, IsCommitted, Go, Answer, Deliveries
<1>6. ASSUME NEW d \in Deliveries, TransactionFails(d) PROVE Inv'
  <2>1. CASE UNCHANGED <<record, stored>>
    BY <1>6, <2>1 DEF TransactionFails, Fault, Go, Deliveries
  <2>2. CASE ~UNCHANGED <<record, stored>>
    <3>1. stored' = 1 /\ record' \in Record
      BY <1>6, <2>2, InsertedOnce DEF TransactionFails, ClaimedBy
    <3> QED BY <1>6, <3>1 DEF TransactionFails, Fault, Go, Deliveries
  <2> QED BY <2>1, <2>2
<1>7. ASSUME NEW d \in Deliveries, CommandFails(d) PROVE Inv'
  BY <1>7 DEF CommandFails, Fault, IsCommitted, Go, Answer, Deliveries
<1>8. ASSUME NEW d \in Deliveries, Crash(d) PROVE Inv'
  BY <1>8 DEF Crash, Fault, Go, Deliveries
<1>9. ASSUME Erase PROVE Inv'
  BY <1>9 DEF Erase, OwnerLocked, Deliveries
<1>10. ASSUME MoveLease PROVE Inv'
  BY <1>10 DEF MoveLease, LeaseLocked, Deliveries
<1>11. ASSUME Tick PROVE Inv'
  BY <1>11 DEF Tick, IsCommitted, Deliveries
<1>12. ASSUME UNCHANGED vars PROVE Inv'
  BY <1>12 DEF vars, IsCommitted
<1> QED
  BY <1>1, <1>2, <1>3, <1>4, <1>5, <1>6, <1>7, <1>8, <1>9, <1>10, <1>11, <1>12 DEF Next

LEMMA InitInv == Init => Inv
<1> SUFFICES ASSUME Init PROVE Inv
  OBVIOUS
<1> USE DEF Init
<1>1. TypeOK
  BY ChannelAdmissionAssumption DEF TypeOK
<1>2. OneRow /\ LockInv
  BY DEF OneRow, LockInv
<1>3. RowInv
  BY DEF RowInv, IsCommitted
<1>4. GatewayAckIsStored
  BY DEF GatewayAckIsStored, Deliveries
<1> QED BY <1>1, <1>2, <1>3, <1>4 DEF Inv

\* In every reachable state a message has at most one row, and an acknowledged
\* gateway delivery has one (store, store_discord, admit_fenced).
THEOREM Safety == Spec => []Inv
<1>1. Inv /\ [Next]_vars => Inv'
  BY InvInductive
<1> QED BY <1>1, InitInv, PTL DEF Spec

\* However often a message is delivered, it is stored once.
THEOREM StoredOnce == Spec => []OneRow
<1>1. Inv => OneRow
  BY DEF Inv
<1> QED BY <1>1, Safety, PTL

\* store_discord lets the gateway's cursor pass a message only when stored.
THEOREM GatewayAcksAreSound == Spec => []GatewayAckIsStored
<1>1. Inv => GatewayAckIsStored
  BY DEF Inv
<1> QED BY <1>1, Safety, PTL

\* Both at once: stored before it is acknowledged, and stored once.
THEOREM StoredAndAcknowledged == Spec => []StoredExactlyOnce
<1>1. OneRow /\ GatewayAckIsStored => StoredExactlyOnce
  BY DEF StoredExactlyOnce
<1> QED BY <1>1, StoredOnce, GatewayAcksAreSound, PTL

\* The write to the owner in the transaction keeps rows out after an erasure.
THEOREM ErasureIsFinal == Spec => NothingAfterErasure
<1>1. Inv /\ [Next]_vars => [stored' # stored => owner = "active"]_vars
  <2> SUFFICES ASSUME Inv, Next, stored' # stored PROVE owner = "active"
    OBVIOUS
  <2>1. \E d \in Deliveries : pc[d] = "end"
    BY DEF Next, Claim, Begin, End, CheckCommitted, Release, TransactionFails,
           CommandFails, Crash, Erase, MoveLease, Tick
  <2> QED BY <2>1 DEF Inv, LockInv
<1> QED BY <1>1, Safety, PTL DEF Spec, NothingAfterErasure

\* The write to lease and bot keeps a replaced gateway connection out.
THEOREM StaleGatewaysAreFenced == Spec => StaleGatewayStoresNothing
<1>1. ASSUME Inv, Next, NEW d \in Gateways, answer[d] # "stored", answer'[d] = "stored"
      PROVE  fence[d] = lease
  <2> USE <1>1 DEF Inv, TypeOK
  <2>1. \E e \in Deliveries : End(e)
    <3>1. ASSUME NEW e \in Deliveries,
                 Claim(e) \/ Begin(e) \/ CheckCommitted(e) \/ Release(e)
                   \/ TransactionFails(e) \/ CommandFails(e) \/ Crash(e)
          PROVE  FALSE
      BY <3>1 DEF Claim, Begin, NotAdmitted, CheckCommitted, Release, TransactionFails,
                  CommandFails, Crash, Answer, Deliveries
    <3>2. ~Erase /\ ~MoveLease /\ ~Tick
      BY DEF Erase, MoveLease, Tick
    <3> QED BY <3>1, <3>2 DEF Next
  <2>2. PICK e \in Deliveries : End(e)
    BY <2>1
  <2>3. e = d /\ pc[d] = "end"
    BY <2>2 DEF End, NotAdmitted, Answer, Deliveries
  <2> QED BY <2>3 DEF LockInv, Deliveries
<1>2. Inv /\ [Next]_vars =>
        [\A d \in Gateways :
            (answer[d] # "stored" /\ answer'[d] = "stored") => fence[d] = lease]_vars
  BY <1>1
<1> QED BY <1>2, Safety, PTL DEF Spec, StaleGatewayStoresNothing

\* The two writes of Fence::touch together keep out who lost its right.
THEOREM FencesHold == Spec => FencedOutStoresNothing
<1>1. NothingAfterErasure /\ StaleGatewayStoresNothing => FencedOutStoresNothing
  BY PTL DEF NothingAfterErasure, StaleGatewayStoresNothing, FencedOutStoresNothing
<1> QED BY <1>1, ErasureIsFinal, StaleGatewaysAreFenced

-----------------------------------------------------------------------------
(* The forwarding of an event.  The invariant says whose the dedup document *)
(* is: as long as it has not expired, it belongs to the request that is at *)
(* work or that succeeded, so that no two of those can exist.              *)

AtWork == {"prepare", "forward", "commit", "release"}
InForce(r) == event # NoRecord /\ event.claim = r

\* A request at work, or one that succeeded, owns the document until it lapses.
OwnerInv == \A r \in Requests : (post[r] \in AtWork \/ r \in ok) /\ r \notin lapsed => InForce(r)
\* Success is followed by the commit only; a commit follows success only.
OkInv == \A r \in Requests : /\ r \in ok => post[r] \in {"commit", "end"}
                             /\ post[r] = "commit" => r \in ok
\* Whose document a retry can meet.
MetInv == event # NoRecord =>
             /\ post[event.claim] # "idle"
             /\ post[event.claim] # "end" \/ event.claim \in ok \cup faulty
             /\ event.state = "committed" => event.claim \in ok

ForwardInv == ForwardTypeOK /\ OwnerInv /\ OkInv /\ MetInv

\* The operations of the store on well-formed documents.
LEMMA ForwardRecordOps ==
    /\ NoRecord \notin Record
    /\ \A c \in Claims : Claimed(c) \in Record /\ Claimed(c).claim = c /\ Claimed(c).state = "claimed"
    /\ \A r \in Record : /\ Committed(r) \in Record
                         /\ Committed(r).claim = r.claim
                         /\ Committed(r).state = "committed"
    /\ \A r \in Record : \/ r.ttl = 1 /\ Aged(r) = NoRecord
                         \/ /\ r.ttl # 1 /\ Aged(r) \in Record
                            /\ Aged(r).claim = r.claim /\ Aged(r).state = r.state
<1>1. NoRecord \notin Record
  BY EventDedupAssumption DEF Record
<1>2. ASSUME NEW c \in Claims
      PROVE  Claimed(c) \in Record /\ Claimed(c).claim = c /\ Claimed(c).state = "claimed"
  BY EventDedupAssumption DEF Claimed, Record
<1>3. ASSUME NEW r \in Record
      PROVE  Committed(r) \in Record /\ Committed(r).claim = r.claim
             /\ Committed(r).state = "committed"
  BY EventDedupAssumption DEF Committed, Record
<1>4. ASSUME NEW r \in Record
      PROVE  \/ r.ttl = 1 /\ Aged(r) = NoRecord
             \/ /\ r.ttl # 1 /\ Aged(r) \in Record
                /\ Aged(r).claim = r.claim /\ Aged(r).state = r.state
  <2>1. r.ttl \in Nat \ {0} /\ r # NoRecord
    BY <1>1 DEF Record
  <2>2. CASE r.ttl = 1
    BY <2>2 DEF Aged
  <2>3. CASE r.ttl # 1
    <3>1. Aged(r) = [r EXCEPT !.ttl = @ - 1] /\ r.ttl - 1 \in Nat \ {0}
      BY <2>1, <2>3 DEF Aged
    <3> QED BY <2>3, <3>1 DEF Record
  <2> QED BY <2>2, <2>3
<1> QED BY <1>1, <1>2, <1>3, <1>4

\* The type invariant is preserved by every step.
LEMMA ForwardTypePreserved ==
    ASSUME ForwardTypeOK, [ForwardNext]_forwardVars
    PROVE  ForwardTypeOK'
<1> USE ForwardRecordOps, EventForwardingAssumption DEF ForwardTypeOK
<1>1. ASSUME NEW r \in Requests, ClaimEvent(r) PROVE ForwardTypeOK'
  BY <1>1 DEF ClaimEvent, PostAt, AnswerPost
<1>2. ASSUME NEW r \in Requests, Prepare(r) PROVE ForwardTypeOK'
  BY <1>2 DEF Prepare, PostAt
<1>3. ASSUME NEW r \in Requests, Forward(r) PROVE ForwardTypeOK'
  BY <1>3 DEF Forward, PostAt
<1>4. ASSUME NEW r \in Requests, Commit(r) PROVE ForwardTypeOK'
  BY <1>4 DEF Commit, PostAt, AnswerPost, ClaimedBy
<1>5. ASSUME NEW r \in Requests, ReleaseEvent(r) PROVE ForwardTypeOK'
  BY <1>5 DEF ReleaseEvent, Released, PostAt, AnswerPost
<1>6. ASSUME NEW r \in Requests, PostCommandFails(r) PROVE ForwardTypeOK'
  BY <1>6 DEF PostCommandFails, PostFault, PostAt, AnswerPost, ClaimedBy
<1>7. ASSUME NEW r \in Requests, PostCrash(r) PROVE ForwardTypeOK'
  BY <1>7 DEF PostCrash, PostFault, PostAt
<1>8. ASSUME EventTick PROVE ForwardTypeOK'
  <2>1. event \in Record /\ event' \in Record \cup {NoRecord}
    BY <1>8 DEF EventTick
  <2>2. lapsed' \in SUBSET Requests
    BY <1>8, <2>1 DEF EventTick, Record
  <2> QED BY <1>8, <2>1, <2>2 DEF EventTick
<1>9. ASSUME UNCHANGED forwardVars PROVE ForwardTypeOK'
  BY <1>9 DEF forwardVars
<1> QED BY <1>1, <1>2, <1>3, <1>4, <1>5, <1>6, <1>7, <1>8, <1>9 DEF ForwardNext

\* Ownership of the document is preserved by every step.
LEMMA OwnershipPreserved ==
    ASSUME ForwardInv, [ForwardNext]_forwardVars
    PROVE  OwnerInv' /\ OkInv' /\ MetInv'
<1> USE ForwardRecordOps, EventForwardingAssumption
    DEF ForwardInv, ForwardTypeOK, OwnerInv, OkInv, MetInv, InForce, AtWork
<1>0. event # NoRecord => event \in Record /\ event.claim \in Requests
  BY DEF Record
<1>1. ASSUME NEW r \in Requests, ClaimEvent(r) PROVE OwnerInv' /\ OkInv' /\ MetInv'
  BY <1>0, <1>1 DEF ClaimEvent, PostAt, AnswerPost
<1>2. ASSUME NEW r \in Requests, Prepare(r) PROVE OwnerInv' /\ OkInv' /\ MetInv'
  BY <1>0, <1>2 DEF Prepare, PostAt
<1>3. ASSUME NEW r \in Requests, Forward(r) PROVE OwnerInv' /\ OkInv' /\ MetInv'
  BY <1>0, <1>3 DEF Forward, PostAt
<1>4. ASSUME NEW r \in Requests, Commit(r) PROVE OwnerInv' /\ OkInv' /\ MetInv'
  BY <1>0, <1>4 DEF Commit, PostAt, AnswerPost, ClaimedBy
<1>5. ASSUME NEW r \in Requests, ReleaseEvent(r) PROVE OwnerInv' /\ OkInv' /\ MetInv'
  BY <1>0, <1>5 DEF ReleaseEvent, Released, PostAt, AnswerPost, ClaimedBy, Record
<1>6. ASSUME NEW r \in Requests, PostCommandFails(r) PROVE OwnerInv' /\ OkInv' /\ MetInv'
  BY <1>0, <1>6 DEF PostCommandFails, PostFault, PostAt, AnswerPost, ClaimedBy
<1>7. ASSUME NEW r \in Requests, PostCrash(r) PROVE OwnerInv' /\ OkInv' /\ MetInv'
  BY <1>0, <1>7 DEF PostCrash, PostFault, PostAt
<1>8. ASSUME EventTick PROVE OwnerInv' /\ OkInv' /\ MetInv'
  BY <1>0, <1>8 DEF EventTick
<1>9. ASSUME UNCHANGED forwardVars PROVE OwnerInv' /\ OkInv' /\ MetInv'
  BY <1>9 DEF forwardVars
<1> QED BY <1>1, <1>2, <1>3, <1>4, <1>5, <1>6, <1>7, <1>8, <1>9 DEF ForwardNext

LEMMA ForwardInitInv == ForwardInit => ForwardInv
BY EventForwardingAssumption
DEF ForwardInit, ForwardInv, ForwardTypeOK, OwnerInv, OkInv, MetInv, InForce, AtWork

LEMMA ForwardInductive == ForwardInv /\ [ForwardNext]_forwardVars => ForwardInv'
BY ForwardTypePreserved, OwnershipPreserved DEF ForwardInv

\* Every reachable state is well typed and the document has its owner.
THEOREM ForwardSafety == ForwardSpec => []ForwardInv
BY ForwardInitInv, ForwardInductive, PTL DEF ForwardSpec

\* The callback of one event succeeds for two requests only if the document of
\* one of them had expired (claim, commit and release of forward_event).
THEOREM DeliveredOncePerWindow == ForwardSpec => []NoDoubleDelivery
<1>1. ForwardInv => NoDoubleDelivery
  BY DEF ForwardInv, ForwardTypeOK, OwnerInv, InForce, NoDoubleDelivery
<1> QED BY <1>1, ForwardSafety, PTL

\* A device is told of a duplicate only while another request is at work on the
\* event, after one succeeded, or after a fault: a failed forward that could
\* release its claim never suppresses a retry.
THEOREM FailureDoesNotSuppressRetries == ForwardSpec => RetryNotSuppressed
<1>1. ASSUME ForwardInv, [ForwardNext]_forwardVars, NEW r \in Requests,
             told[r] # "deduped", told'[r] = "deduped"
      PROVE  /\ event # NoRecord
             /\ post[event.claim] # "end" \/ event.claim \in ok \cup faulty
  <2>1. \E q \in Requests : ClaimEvent(q) /\ event # NoRecord
    <3> USE <1>1 DEF ForwardInv, ForwardTypeOK
    <3>1. ASSUME NEW q \in Requests, ClaimEvent(q) PROVE event # NoRecord
      BY <3>1 DEF ClaimEvent, AnswerPost
    <3>2. ASSUME NEW q \in Requests,
                 Prepare(q) \/ Forward(q) \/ Commit(q) \/ ReleaseEvent(q)
                   \/ PostCommandFails(q) \/ PostCrash(q)
          PROVE  FALSE
      BY <3>2 DEF Prepare, Forward, Commit, ReleaseEvent, PostCommandFails, PostCrash, AnswerPost
    <3>3. ~EventTick /\ ~UNCHANGED forwardVars
      BY DEF EventTick, forwardVars
    <3> QED BY <3>1, <3>2, <3>3 DEF ForwardNext
  <2> QED BY <1>1, <2>1 DEF ForwardInv, MetInv
<1>2. ForwardInv /\ [ForwardNext]_forwardVars =>
        [\A r \in Requests :
            (told[r] # "deduped" /\ told'[r] = "deduped") =>
               /\ event # NoRecord
               /\ \/ post[event.claim] # "end"
                  \/ event.claim \in ok \cup faulty]_forwardVars
  BY <1>1
<1> QED BY <1>2, ForwardSafety, PTL DEF ForwardSpec, RetryNotSuppressed

-----------------------------------------------------------------------------
(* Scheduled triggers.  A run goes from pending to started to over and     *)
(* never back, whoever writes it; its work document outlives it; and what  *)
(* a scheduler read of a run before a pause is of the kind that stays      *)
(* true.                                                                   *)

(* Work and runs: a work document other than the schedule job is for a     *)
(* run, and a run that is not over has its work document.                  *)
WorkInv == \A t \in Minutes :
    /\ work[t] # NoWork => run[t] # NoRun
    /\ run[t] # NoRun /\ run[t].outcome \in Unfinished => work[t] # NoWork

(* What a scheduler knows of the run it works on.                          *)
OnRun == {"claim", "job", "trigger", "admit", "deliver", "defer", "skip", "finish", "record"}

SchedulerInv == \A w \in Schedulers :
    /\ scheduler[w].pc \in OnRun => scheduler[w].id \in Minutes /\ run[scheduler[w].id] # NoRun
    /\ scheduler[w].pc \in {"trigger", "admit", "defer"} => run[scheduler[w].id].reason = "none"
    /\ scheduler[w].pc = "record" => run[scheduler[w].id].outcome = "over"

(* A run is delivered by the scheduler that admitted it, which is one.     *)
DeliveryInv ==
    /\ \A t \in Minutes : delivered[t] # 0 =>
          delivered[t] = 1 /\ run[t] # NoRun /\ run[t].outcome # "pending"
    /\ \A w \in Schedulers : scheduler[w].pc = "deliver" =>
          delivered[scheduler[w].id] = 0 /\ run[scheduler[w].id].outcome # "pending"
    /\ \A v, w \in Schedulers :
          scheduler[v].pc = "deliver" /\ scheduler[w].pc = "deliver"
             /\ scheduler[v].id = scheduler[w].id => v = w

(* Only one run is started.                                                *)
StartedInv == \A t, u \in Minutes :
    /\ run[t] # NoRun /\ run[t].outcome = "started"
    /\ run[u] # NoRun /\ run[u].outcome = "started"
    => t = u

(* The runs that have a place, the schedule job and the due times passed.  *)
OutstandingInv ==
    Cardinality(Outstanding) <= IF trigger.overlap = "skip" /\ trigger.version = 0 THEN 1 ELSE 2

JobInv == trigger.status = "active" /\ trigger.due # 0 => work[0] # NoWork

PassedTime(t) ==
    /\ t % Period = 0
    /\ trigger.status = "active" /\ trigger.since # 0 /\ trigger.since <= t
    /\ trigger.due = 0 \/ t < trigger.due

CoverInv == \A t \in Minutes : PassedTime(t) => run[t] # NoRun \/ t \in missed

ScheduleInv == /\ ScheduleTypeOK /\ WorkInv /\ SchedulerInv /\ DeliveryInv /\ StartedInv
               /\ OutstandingInv /\ JobInv /\ CoverInv

\* compute.rs: the last due time up to t is a multiple of the period, and no
\* multiple lies between it and the next.
LEMMA LatestDueFacts ==
    ASSUME NEW t \in Nat
    PROVE  /\ LatestDue(t) \in Nat
           /\ LatestDue(t) <= t
           /\ \A m \in Nat : m % Period = 0 /\ m < LatestDue(t) + Period => m <= LatestDue(t)
<1> DEFINE q == t \div Period
           r == t % Period
<1>0. Period \in Nat /\ Period > 0
  BY ScheduleAssumption
<1>1. /\ q \in Int /\ r \in 0 .. (Period - 1) /\ t = Period * q + r
  BY <1>0, SMT
<1>2. LatestDue(t) = q * Period
  BY DEF LatestDue
<1> HIDE DEF q, r
<1>3. q >= 0
  BY <1>0, <1>1, SMT
<1>4. q * Period \in Nat /\ q * Period <= t
  BY <1>0, <1>1, <1>3, SMT
<1>5. ASSUME NEW m \in Nat, m % Period = 0, m < q * Period + Period
      PROVE  m <= q * Period
  <2> DEFINE e == m \div Period
  <2>1. e \in Int /\ m = Period * e
    BY <1>0, <1>5, SMT
  <2> HIDE DEF e
  <2>2. e < q + 1
    BY <1>0, <1>1, <1>5, <2>1, SMT
  <2>3. e <= q
    BY <1>1, <2>1, <2>2
  <2> QED BY <1>0, <1>1, <2>1, <2>3, SMT
<1> QED BY <1>2, <1>4, <1>5

\* The next due time is a time of the schedule, or none.
LEMMA NextDueFacts ==
    ASSUME NEW t \in Nat
    PROVE  /\ NextDue(t) \in 0 .. MaxMinute
           /\ NextDue(t) # 0 => NextDue(t) = LatestDue(t) + Period
           /\ NextDue(t) = 0 => LatestDue(t) + Period > MaxMinute
BY LatestDueFacts, ScheduleAssumption DEF NextDue

\* Times, and what is a set of times, are finite.
LEMMA MinutesFinite ==
    ASSUME NEW S \in SUBSET Minutes
    PROVE  IsFiniteSet(S) /\ Cardinality(S) \in Nat
<1>1. IsFiniteSet(Minutes)
  BY FS_Interval, ScheduleAssumption DEF Minutes
<1>2. IsFiniteSet(S)
  BY <1>1, FS_Subset
<1> QED BY <1>2, FS_CardinalityType

\* The documents the operations write.
LEMMA WrittenRuns ==
    /\ Run("over", "none") \in RunDoc /\ Run("over", "none") # NoRun
    /\ Run("started", "none") \in RunDoc /\ Run("started", "none") # NoRun
    /\ NewRun \in RunDoc /\ NewRun # NoRun /\ NewRun.outcome = "pending"
    /\ NewRun.reason = "full" \/ Cardinality(Outstanding) < 2
    /\ NewRun.reason = "full" \/ trigger.overlap # "skip" \/ Outstanding = {}
<1>1. Run("over", "none") \in RunDoc /\ Run("started", "none") \in RunDoc
  BY DEF Run, RunDoc, Unfinished
<1> DEFINE f == IF \/ trigger.overlap = "skip" /\ Outstanding # {}
                   \/ Cardinality(Outstanding) >= 2
                THEN "full" ELSE "none"
<1>2. f \in {"none", "full"} /\ NewRun = Run("pending", f)
  BY DEF NewRun
<1>3. f = "full" \/ ~(Cardinality(Outstanding) >= 2)
  OBVIOUS
<1>4. f = "full" \/ trigger.overlap # "skip" \/ Outstanding = {}
  OBVIOUS
<1> HIDE DEF f
<1>5. NewRun \in RunDoc /\ NewRun.outcome = "pending" /\ NewRun.reason = f
  BY <1>2 DEF Run, RunDoc, Unfinished
<1>6. Cardinality(Outstanding) \in Nat
  BY MinutesFinite DEF Outstanding
<1>7. f = "full" \/ Cardinality(Outstanding) < 2
  BY <1>3, <1>6
<1> QED BY <1>1, <1>4, <1>5, <1>7, NoDocumentAssumption

LEMMA WrittenWork ==
    ASSUME NEW n \in 0 .. MaxMinute + RunLease + JobLease + Jitter,
           NEW f \in Schedulers \cup {NoScheduler}
    PROVE  Work(n, f) \in WorkDoc /\ Work(n, f) # NoWork
BY NoDocumentAssumption DEF Work, WorkDoc

LEMMA WrittenJob ==
    ASSUME NEW t \in TriggerDoc
    PROVE  /\ ScheduleJob(t) \in WorkDoc \cup {NoWork}
           /\ t.status = "active" /\ t.due # 0 => ScheduleJob(t) # NoWork
<1>1. t.due \in 0 .. MaxMinute + RunLease + JobLease + Jitter
  BY ScheduleAssumption DEF TriggerDoc
<1> QED BY <1>1, WrittenWork DEF ScheduleJob

-----------------------------------------------------------------------------
(* A run document is never removed, never pending again, never full again, *)
(* and once over it stays over.                                            *)
Later(t) ==
    run[t] # NoRun =>
        /\ run'[t] # NoRun
        /\ run[t].reason = "none" => run'[t].reason = "none"
        /\ run[t].outcome # "pending" => run'[t].outcome # "pending"
        /\ run[t].outcome = "over" => run'[t].outcome = "over"

(* No run is started or given a place.                                     *)
Quiet(t) ==
    /\ Later(t)
    /\ run'[t] # NoRun /\ run'[t].outcome = "started" =>
           run[t] # NoRun /\ run[t].outcome = "started"
    /\ t \in Outstanding' => t \in Outstanding

(* The trigger rests, or was edited: its schedule starts over, stops or    *)
(* goes on as it was.                                                      *)
TriggerRests ==
    \/ trigger' = trigger
    \/ /\ trigger'.version # 0
       /\ \/ trigger'.status # "active"
          \/ trigger'.since = trigger'.due
          \/ /\ trigger'.status = trigger.status
             /\ trigger'.due = trigger.due
             /\ trigger'.since = trigger.since

\* No run is given a place.
LEMMA PlacesKept ==
    ASSUME ScheduleInv, Outstanding' \subseteq Outstanding, TriggerRests
    PROVE  OutstandingInv'
<1>1. IsFiniteSet(Outstanding) /\ Cardinality(Outstanding) \in Nat
  BY MinutesFinite DEF Outstanding
<1>2. Outstanding' \in SUBSET Minutes
  BY DEF Outstanding
<1>3. Cardinality(Outstanding') \in Nat /\ Cardinality(Outstanding') <= Cardinality(Outstanding)
  BY <1>1, <1>2, MinutesFinite, FS_Subset
<1>4. Cardinality(Outstanding) <= 2
  BY <1>1 DEF ScheduleInv, OutstandingInv
<1>5. CASE trigger' = trigger
  BY <1>1, <1>3, <1>5 DEF ScheduleInv, OutstandingInv
<1>6. CASE trigger'.version # 0
  BY <1>1, <1>3, <1>4, <1>6 DEF OutstandingInv
<1> QED BY <1>5, <1>6 DEF TriggerRests

\* One run is, if insert_run found a place for it.
LEMMA PlaceTaken ==
    ASSUME ScheduleInv, NEW n,
           Outstanding' \subseteq Outstanding \cup {n},
           NewRun.reason = "full" => Outstanding' \subseteq Outstanding,
           trigger'.overlap = trigger.overlap, trigger'.version = trigger.version
    PROVE  OutstandingInv'
<1>1. IsFiniteSet(Outstanding) /\ Cardinality(Outstanding) \in Nat
  BY MinutesFinite DEF Outstanding
<1>2. Cardinality(Outstanding') \in Nat
  BY MinutesFinite DEF Outstanding
<1>3. CASE NewRun.reason = "full"
  <2>1. Cardinality(Outstanding') <= Cardinality(Outstanding)
    BY <1>1, <1>3, FS_Subset
  <2> QED BY <1>1, <1>2, <2>1 DEF ScheduleInv, OutstandingInv
<1>4. CASE NewRun.reason # "full"
  <2>1. /\ IsFiniteSet(Outstanding \cup {n})
        /\ Cardinality(Outstanding \cup {n}) \in Nat
        /\ Cardinality(Outstanding \cup {n}) <= Cardinality(Outstanding) + 1
    <3>1. /\ IsFiniteSet(Outstanding \cup {n})
          /\ Cardinality(Outstanding \cup {n}) =
                IF n \in Outstanding THEN Cardinality(Outstanding) ELSE Cardinality(Outstanding) + 1
      BY <1>1, FS_AddElement, Zenon
    <3>2. \/ Cardinality(Outstanding \cup {n}) = Cardinality(Outstanding)
          \/ Cardinality(Outstanding \cup {n}) = Cardinality(Outstanding) + 1
      BY <3>1, Zenon
    <3> QED BY <1>1, <3>1, <3>2
  <2>2. Cardinality(Outstanding') <= Cardinality(Outstanding \cup {n})
    BY <2>1, FS_Subset
  <2>3. Cardinality(Outstanding) < 2 /\ (trigger.overlap # "skip" \/ Outstanding = {})
    BY <1>4, WrittenRuns
  <2>4. Outstanding = {} => Cardinality(Outstanding) = 0
    BY FS_EmptySet
  <2> QED BY <1>1, <1>2, <2>1, <2>2, <2>3, <2>4 DEF OutstandingInv
<1> QED BY <1>3, <1>4

\* No due time is forgotten by a step that leaves the schedule to itself.
LEMMA CoverKept ==
    ASSUME ScheduleInv, trigger' \in TriggerDoc, \A t \in Minutes : Later(t),
           TriggerRests, missed' = missed
    PROVE  CoverInv'
<1> SUFFICES ASSUME NEW t \in Minutes, PassedTime(t)'
             PROVE  run'[t] # NoRun \/ t \in missed'
  BY DEF CoverInv
<1>1. t \in Nat /\ trigger'.due \in Nat /\ trigger'.since \in Nat
  BY DEF Minutes, TriggerDoc
<1>2. trigger'.since # trigger'.due
  BY <1>1 DEF PassedTime
<1>3. PassedTime(t)
  BY <1>2 DEF PassedTime, TriggerRests
<1> QED BY <1>3 DEF ScheduleInv, CoverInv, Later

\* Such a step keeps the bounds on runs and forgets no due time.
LEMMA QuietKeeps ==
    ASSUME ScheduleInv, ScheduleTypeOK', \A t \in Minutes : Quiet(t),
           TriggerRests, missed' = missed
    PROVE  StartedInv' /\ OutstandingInv' /\ CoverInv'
<1>1. StartedInv'
  BY DEF ScheduleInv, StartedInv, Quiet
<1>2. Outstanding' \subseteq Outstanding
  BY DEF Quiet, Outstanding
<1>3. CoverInv'
  BY CoverKept DEF Quiet, ScheduleTypeOK
<1> QED BY <1>1, <1>2, <1>3, PlacesKept

\* Schedulers that rest know what they knew.
LEMMA SchedulersRest ==
    ASSUME ScheduleInv, \A t \in Minutes : Later(t), UNCHANGED <<scheduler, delivered>>
    PROVE  SchedulerInv' /\ DeliveryInv'
<1>1. \A w \in Schedulers : scheduler[w].pc \in OnRun =>
        /\ scheduler[w].id \in Minutes /\ run[scheduler[w].id] # NoRun /\ Later(scheduler[w].id)
  BY DEF ScheduleInv, SchedulerInv
<1>2. SchedulerInv'
  BY <1>1 DEF ScheduleInv, SchedulerInv, Later, OnRun
<1>3. DeliveryInv'
  BY <1>1 DEF ScheduleInv, DeliveryInv, Later, OnRun
<1> QED BY <1>2, <1>3

\* One scheduler moves: the others know what they knew.
LEMMA SchedulerMoves ==
    ASSUME ScheduleInv, \A t \in Minutes : Later(t),
           NEW w \in Schedulers, NEW k \in SchedulerDoc,
           scheduler' = [scheduler EXCEPT ![w] = k],
           /\ k.pc \in OnRun => k.id \in Minutes /\ run'[k.id] # NoRun
           /\ k.pc \in {"trigger", "admit", "defer"} => run'[k.id].reason = "none"
           /\ k.pc = "record" => run'[k.id].outcome = "over"
    PROVE  /\ scheduler' \in [Schedulers -> SchedulerDoc]
           /\ scheduler'[w] = k
           /\ \A v \in Schedulers : v # w => scheduler'[v] = scheduler[v]
           /\ SchedulerInv'
<1>1. scheduler \in [Schedulers -> SchedulerDoc]
  BY DEF ScheduleInv, ScheduleTypeOK
<1>2. /\ scheduler' \in [Schedulers -> SchedulerDoc]
      /\ scheduler'[w] = k
      /\ \A v \in Schedulers : v # w => scheduler'[v] = scheduler[v]
  BY <1>1
<1>3. \A v \in Schedulers : scheduler[v].pc \in OnRun =>
        /\ scheduler[v].id \in Minutes /\ run[scheduler[v].id] # NoRun /\ Later(scheduler[v].id)
  BY DEF ScheduleInv, SchedulerInv
<1>4. ASSUME NEW v \in Schedulers
      PROVE  /\ scheduler'[v].pc \in OnRun =>
                    scheduler'[v].id \in Minutes /\ run'[scheduler'[v].id] # NoRun
             /\ scheduler'[v].pc \in {"trigger", "admit", "defer"} =>
                    run'[scheduler'[v].id].reason = "none"
             /\ scheduler'[v].pc = "record" => run'[scheduler'[v].id].outcome = "over"
  <2>1. CASE v = w
    BY <1>2, <2>1
  <2>2. CASE v # w
    BY <1>2, <1>3, <2>2 DEF ScheduleInv, SchedulerInv, Later, OnRun
  <2> QED BY <2>1, <2>2
<1>5. SchedulerInv'
  BY <1>4 DEF SchedulerInv
<1> QED BY <1>2, <1>5

\* A scheduler that does not go on to deliver disturbs no delivery.
LEMMA NoDelivery ==
    ASSUME ScheduleInv, \A t \in Minutes : Later(t),
           NEW w \in Schedulers, scheduler'[w].pc # "deliver",
           \A v \in Schedulers : v # w => scheduler'[v] = scheduler[v],
           delivered' = delivered
    PROVE  DeliveryInv'
<1>1. \A v \in Schedulers : scheduler[v].pc = "deliver" =>
        /\ scheduler[v].id \in Minutes /\ run[scheduler[v].id] # NoRun /\ Later(scheduler[v].id)
  BY DEF ScheduleInv, SchedulerInv, OnRun
<1>2. \A t \in Minutes : delivered'[t] # 0 =>
          delivered'[t] = 1 /\ run'[t] # NoRun /\ run'[t].outcome # "pending"
  BY DEF ScheduleInv, DeliveryInv, Later
<1>3. \A v \in Schedulers : scheduler'[v].pc = "deliver" =>
          /\ v # w /\ scheduler'[v] = scheduler[v]
          /\ delivered'[scheduler'[v].id] = 0 /\ run'[scheduler'[v].id].outcome # "pending"
  BY <1>1 DEF ScheduleInv, DeliveryInv, Later
<1> QED BY <1>2, <1>3 DEF ScheduleInv, DeliveryInv

-----------------------------------------------------------------------------
SchedulerPC == {"idle", "occurrence", "claim", "job", "trigger", "admit", "deliver",
                "defer", "skip", "finish", "record"}

\* The documents of schedulers that move.
LEMMA IdleDoc == Idle \in SchedulerDoc /\ Idle.pc = "idle"
BY ScheduleAssumption DEF Idle, SchedulerDoc

Moved(p, n) == [Idle EXCEPT !.pc = p, !.id = n]

LEMMA MovedTo ==
    ASSUME NEW p \in SchedulerPC, NEW n \in 0 .. MaxMinute
    PROVE  Moved(p, n) \in SchedulerDoc /\ Moved(p, n).pc = p /\ Moved(p, n).id = n
BY IdleDoc DEF Moved, SchedulerDoc, SchedulerPC

\* Runs at rest.
LEMMA RunsRest ==
    ASSUME run' = run
    PROVE  \A t \in Minutes : Quiet(t)
BY DEF Quiet, Later, Outstanding

\* Work documents at rest, or rewritten where they stand.
LEMMA WorkRewritten ==
    ASSUME ScheduleInv, UNCHANGED <<run, trigger>>,
           \/ work' = work
           \/ \E i \in 0 .. MaxMinute, d \in WorkDoc :
                 work[i] # NoWork /\ work' = [work EXCEPT ![i] = d]
    PROVE  /\ work' \in [0 .. MaxMinute -> WorkDoc \cup {NoWork}]
           /\ WorkInv' /\ JobInv'
<1>1. work \in [0 .. MaxMinute -> WorkDoc \cup {NoWork}] /\ NoWork \notin WorkDoc
  BY NoDocumentAssumption DEF ScheduleInv, ScheduleTypeOK
<1>2. /\ work' \in [0 .. MaxMinute -> WorkDoc \cup {NoWork}]
      /\ \A i \in 0 .. MaxMinute : work'[i] = NoWork <=> work[i] = NoWork
  BY <1>1
<1>3. Minutes \subseteq 0 .. MaxMinute /\ 0 \in 0 .. MaxMinute
  BY ScheduleAssumption DEF Minutes
<1> QED BY <1>2, <1>3 DEF ScheduleInv, WorkInv, JobInv

\* The work document of a run that is over is cleared away.
LEMMA WorkCleared ==
    ASSUME ScheduleInv, UNCHANGED <<run, trigger>>,
           NEW i \in Minutes, run[i] # NoRun, run[i].outcome = "over",
           work' = [work EXCEPT ![i] = NoWork]
    PROVE  /\ work' \in [0 .. MaxMinute -> WorkDoc \cup {NoWork}]
           /\ WorkInv' /\ JobInv'
<1>1. work \in [0 .. MaxMinute -> WorkDoc \cup {NoWork}]
  BY DEF ScheduleInv, ScheduleTypeOK
<1>2. i \in 0 .. MaxMinute /\ i # 0 /\ 0 \in 0 .. MaxMinute /\ Minutes \subseteq 0 .. MaxMinute
  BY ScheduleAssumption DEF Minutes
<1>3. /\ work' \in [0 .. MaxMinute -> WorkDoc \cup {NoWork}]
      /\ work'[0] = work[0] /\ work'[i] = NoWork
      /\ \A t \in Minutes : t # i => work'[t] = work[t]
  BY <1>1, <1>2
<1> QED BY <1>3 DEF ScheduleInv, WorkInv, JobInv, Unfinished

\* A step of one scheduler that starts no run, places none and delivers none.
LEMMA QuietStep ==
    ASSUME ScheduleInv, NEW w \in Schedulers, NEW k \in SchedulerDoc,
           scheduler' = [scheduler EXCEPT ![w] = k],
           k.pc # "deliver",
           /\ k.pc \in OnRun => k.id \in Minutes /\ run'[k.id] # NoRun
           /\ k.pc \in {"trigger", "admit", "defer"} => run'[k.id].reason = "none"
           /\ k.pc = "record" => run'[k.id].outcome = "over",
           \A t \in Minutes : Quiet(t),
           run' \in [Minutes -> RunDoc \cup {NoRun}],
           work' \in [0 .. MaxMinute -> WorkDoc \cup {NoWork}],
           trigger' \in TriggerDoc, TriggerRests, WorkInv', JobInv',
           UNCHANGED <<minute, missed, delivered>>, incidents' \in 0 .. MaxIncidents
    PROVE  ScheduleInv'
<1>1. \A t \in Minutes : Later(t)
  BY DEF Quiet
<1>2. /\ scheduler' \in [Schedulers -> SchedulerDoc]
      /\ scheduler'[w] = k
      /\ \A v \in Schedulers : v # w => scheduler'[v] = scheduler[v]
      /\ SchedulerInv'
  BY <1>1, SchedulerMoves
<1>3. DeliveryInv'
  BY <1>1, <1>2, NoDelivery
<1>4. ScheduleTypeOK'
  BY <1>2 DEF ScheduleInv, ScheduleTypeOK
<1>5. StartedInv' /\ OutstandingInv' /\ CoverInv'
  BY <1>4, QuietKeeps
<1> QED BY <1>2, <1>3, <1>4, <1>5 DEF ScheduleInv

\* A scheduler step that writes neither a run nor the trigger.
LEMMA ReadingStep ==
    ASSUME ScheduleInv, NEW w \in Schedulers, NEW k \in SchedulerDoc,
           scheduler' = [scheduler EXCEPT ![w] = k],
           k.pc # "deliver",
           k.pc \in OnRun => k.id \in Minutes /\ run[k.id] # NoRun,
           k.pc \in {"trigger", "admit", "defer"} => run[k.id].reason = "none",
           k.pc = "record" => run[k.id].outcome = "over",
           work' \in [0 .. MaxMinute -> WorkDoc \cup {NoWork}], WorkInv', JobInv',
           UNCHANGED <<minute, trigger, run, missed, delivered>>, incidents' \in 0 .. MaxIncidents
    PROVE  ScheduleInv'
<1>1. /\ run' \in [Minutes -> RunDoc \cup {NoRun}] /\ trigger' \in TriggerDoc
      /\ TriggerRests
  BY DEF ScheduleInv, ScheduleTypeOK, TriggerRests
<1>2. \A t \in Minutes : Quiet(t)
  BY RunsRest
<1> QED BY <1>1, <1>2, QuietStep

-----------------------------------------------------------------------------
\* What the type invariant says of the parts a scheduler step reads.
LEMMA ScheduleTypes ==
    ASSUME ScheduleInv
    PROVE  /\ minute \in 0 .. MaxMinute /\ trigger \in TriggerDoc
           /\ run \in [Minutes -> RunDoc \cup {NoRun}]
           /\ work \in [0 .. MaxMinute -> WorkDoc \cup {NoWork}]
           /\ scheduler \in [Schedulers -> SchedulerDoc]
           /\ missed \subseteq Minutes /\ delivered \in [Minutes -> 0 .. 2]
           /\ incidents \in 0 .. MaxIncidents
           /\ Minutes \subseteq 0 .. MaxMinute /\ 0 \in 0 .. MaxMinute /\ 0 \notin Minutes
BY ScheduleAssumption DEF ScheduleInv, ScheduleTypeOK, Minutes

LEMMA ClaimWorkKeeps ==
    ASSUME ScheduleInv, NEW w \in Schedulers, NEW i \in 0 .. MaxMinute, ClaimWork(w, i)
    PROVE  ScheduleInv'
<1> DEFINE p == IF i = 0 THEN "occurrence" ELSE "job"
           n == IF i = 0 THEN minute ELSE 0
           k == [Idle EXCEPT !.pc = p, !.id = i, !.at = n]
           d == Work(minute + JobLease, w)
<1>0. p \in SchedulerPC /\ n \in 0 .. MaxMinute /\ ((p = "job" /\ i # 0) \/ p = "occurrence")
  BY ScheduleTypes DEF SchedulerPC
<1>1. scheduler' = [scheduler EXCEPT ![w] = k] /\ work' = [work EXCEPT ![i] = d]
  BY DEF ClaimWork
<1> HIDE DEF p, n
<1>2. k \in SchedulerDoc /\ k.pc = p /\ k.id = i
  BY <1>0, IdleDoc DEF SchedulerDoc, SchedulerPC
<1>3. d \in WorkDoc
  BY ScheduleTypes, ScheduleAssumption, WrittenWork
<1>4. work[i] # NoWork /\ UNCHANGED <<minute, trigger, run, missed, delivered, incidents>>
  BY DEF ClaimWork, DueWork
<1> HIDE DEF k, d
<1>5. work' \in [0 .. MaxMinute -> WorkDoc \cup {NoWork}] /\ WorkInv' /\ JobInv'
  BY <1>1, <1>3, <1>4, WorkRewritten
<1>6. p = "job" => i \in Minutes /\ run[i] # NoRun
  <2> SUFFICES ASSUME i # 0 PROVE i \in Minutes /\ run[i] # NoRun
    BY <1>0 DEF p
  <2>1. i \in Minutes
    BY ScheduleAssumption DEF Minutes
  <2> QED BY <1>4, <2>1 DEF ScheduleInv, WorkInv
<1> QED BY <1>0, <1>1, <1>2, <1>4, <1>5, <1>6, ScheduleTypes, ReadingStep DEF OnRun

LEMMA ClaimOwnRunKeeps ==
    ASSUME ScheduleInv, NEW w \in Schedulers, ClaimOwnRun(w)
    PROVE  ScheduleInv'
<1> DEFINE i == scheduler[w].id
<1>1. i \in Minutes /\ run[i] # NoRun /\ i \in 0 .. MaxMinute
  BY ScheduleTypes DEF ClaimOwnRun, ScheduleInv, SchedulerInv, OnRun
<1>2. UNCHANGED <<minute, trigger, run, missed, delivered, incidents>>
  BY DEF ClaimOwnRun
<1>3. CASE DueWork(i)
  <2> DEFINE k == Moved("job", i)
             d == Work(minute + JobLease, w)
  <2>1. scheduler' = [scheduler EXCEPT ![w] = k] /\ work' = [work EXCEPT ![i] = d]
    BY <1>3 DEF ClaimOwnRun, SchedulerAt, Moved
  <2>2. k \in SchedulerDoc /\ k.pc = "job" /\ k.id = i
    BY <1>1, MovedTo DEF SchedulerPC
  <2>3. d \in WorkDoc
    BY ScheduleTypes, ScheduleAssumption, WrittenWork
  <2> HIDE DEF k, d
  <2>4. work' \in [0 .. MaxMinute -> WorkDoc \cup {NoWork}] /\ WorkInv' /\ JobInv'
    BY <1>1, <1>2, <1>3, <2>1, <2>3, WorkRewritten DEF DueWork
  <2> QED BY <1>1, <1>2, <2>1, <2>2, <2>4, ScheduleTypes, ReadingStep DEF OnRun
<1>4. CASE ~DueWork(i)
  <2>1. scheduler' = [scheduler EXCEPT ![w] = Idle] /\ work' = work
    BY <1>4 DEF ClaimOwnRun, Done
  <2>2. work' \in [0 .. MaxMinute -> WorkDoc \cup {NoWork}] /\ WorkInv' /\ JobInv'
    BY <1>2, <2>1, WorkRewritten
  <2> QED BY <1>2, <2>1, <2>2, IdleDoc, ScheduleTypes, ReadingStep DEF OnRun
<1> QED BY <1>3, <1>4

\* A scheduler that gives up, writing nothing.
LEMMA GivesUp ==
    ASSUME ScheduleInv, NEW w \in Schedulers, Done(w),
           UNCHANGED <<minute, trigger, run, work, missed, delivered>>,
           incidents' \in 0 .. MaxIncidents
    PROVE  ScheduleInv'
<1>1. work' \in [0 .. MaxMinute -> WorkDoc \cup {NoWork}] /\ WorkInv' /\ JobInv'
  BY WorkRewritten
<1> QED BY <1>1, IdleDoc, ReadingStep DEF Done, OnRun

LEMMA LeaveOccurrenceKeeps ==
    ASSUME ScheduleInv, NEW w \in Schedulers, NEW t, LeaveOccurrence(w, t),
           UNCHANGED <<minute, delivered, incidents>>
    PROVE  ScheduleInv'
<1>1. CASE work' = work
  BY <1>1, GivesUp, ScheduleTypes DEF LeaveOccurrence
<1>2. CASE trigger.status # "active" /\ work' = [work EXCEPT ![0] = NoWork]
  <2>1. UNCHANGED <<trigger, run, missed>> /\ scheduler' = [scheduler EXCEPT ![w] = Idle]
    BY DEF LeaveOccurrence, Done
  <2>2. /\ work' \in [0 .. MaxMinute -> WorkDoc \cup {NoWork}]
        /\ \A u \in Minutes : work'[u] = work[u]
    BY <1>2, ScheduleTypes
  <2>3. WorkInv' /\ JobInv'
    BY <1>2, <2>1, <2>2 DEF ScheduleInv, WorkInv, JobInv
  <2> QED BY <2>1, <2>2, <2>3, IdleDoc, ScheduleTypes, ReadingStep DEF OnRun
<1> QED BY <1>1, <1>2 DEF LeaveOccurrence

LEMMA ReadRunKeeps ==
    ASSUME ScheduleInv, NEW w \in Schedulers, ReadRun(w)
    PROVE  ScheduleInv'
<1> DEFINE i == scheduler[w].id
           k(p) == Moved(p, i)
<1>1. i \in Minutes /\ run[i] # NoRun /\ i \in 0 .. MaxMinute /\ run[i] \in RunDoc
  BY ScheduleTypes DEF ReadRun, ScheduleInv, SchedulerInv, OnRun
<1>2. UNCHANGED <<minute, trigger, run, missed, delivered, incidents>>
  BY DEF ReadRun
<1>3. ASSUME NEW p \in {"finish", "skip", "trigger"},
             scheduler' = [scheduler EXCEPT ![w] = k(p)], work' = work,
             p = "trigger" => run[i].reason = "none"
      PROVE  ScheduleInv'
  <2>1. k(p) \in SchedulerDoc /\ k(p).pc = p /\ k(p).id = i
    BY <1>1, MovedTo DEF SchedulerPC
  <2> HIDE DEF k
  <2>2. work' \in [0 .. MaxMinute -> WorkDoc \cup {NoWork}] /\ WorkInv' /\ JobInv'
    BY <1>2, <1>3, WorkRewritten
  <2> QED BY <1>1, <1>2, <1>3, <2>1, <2>2, ScheduleTypes, ReadingStep DEF OnRun
<1>4. CASE run[i].outcome = "started"
  <2>1. scheduler' = [scheduler EXCEPT ![w] = k("finish")] /\ work' = work
    BY <1>4 DEF ReadRun, SchedulerAt, Moved
  <2> QED BY <1>3, <2>1
<1>5. CASE run[i].outcome = "over"
  <2>1. Done(w) /\ DropWork(w, i)
    BY <1>5 DEF ReadRun
  <2>2. CASE work' = work
    BY <1>2, <2>1, <2>2, GivesUp, ScheduleTypes
  <2>3. CASE work' = [work EXCEPT ![i] = NoWork]
    <3>1. work' \in [0 .. MaxMinute -> WorkDoc \cup {NoWork}] /\ WorkInv' /\ JobInv'
      BY <1>1, <1>2, <1>5, <2>3, WorkCleared
    <3> QED BY <1>2, <2>1, <3>1, IdleDoc, ScheduleTypes, ReadingStep DEF OnRun, Done
  <2> QED BY <2>1, <2>2, <2>3 DEF DropWork
<1>6. CASE run[i].outcome \notin {"started", "over"}
  <2> DEFINE p == IF run[i].reason = "full" \/ minute > Deadline(i) THEN "skip" ELSE "trigger"
  <2>1. scheduler' = [scheduler EXCEPT ![w] = k(p)] /\ work' = work
    BY <1>6 DEF ReadRun, SchedulerAt, Moved
  <2>2. p \in {"finish", "skip", "trigger"} /\ (p = "trigger" => run[i].reason = "none")
    BY <1>1 DEF RunDoc
  <2> HIDE DEF p, k
  <2> QED BY <1>3, <2>1, <2>2
<1> QED BY <1>4, <1>5, <1>6

\* An edit writes the trigger with its schedule job.
LEMMA EditedFacts ==
    ASSUME ScheduleInv, NEW t \in TriggerDoc, t.version = trigger.version, Edited(t), run' = run
    PROVE  /\ trigger' \in TriggerDoc /\ trigger'.version # 0
           /\ trigger'.status = t.status /\ trigger'.due = t.due /\ trigger'.since = t.since
           /\ work' \in [0 .. MaxMinute -> WorkDoc \cup {NoWork}]
           /\ WorkInv' /\ JobInv'
<1>1. /\ t.version \in 0 .. MaxEdits /\ t.version < MaxEdits
      /\ trigger' = [t EXCEPT !.version = t.version + 1]
      /\ work' = [work EXCEPT ![0] = ScheduleJob(t)]
  BY DEF Edited, TriggerDoc
<1>2. t.version + 1 \in 0 .. MaxEdits /\ t.version + 1 # 0
  BY <1>1, ScheduleAssumption
<1>3. /\ trigger' \in TriggerDoc /\ trigger'.version # 0
      /\ trigger'.status = t.status /\ trigger'.due = t.due /\ trigger'.since = t.since
  BY <1>1, <1>2 DEF TriggerDoc
<1>4. /\ ScheduleJob(t) \in WorkDoc \cup {NoWork}
      /\ t.status = "active" /\ t.due # 0 => ScheduleJob(t) # NoWork
  BY WrittenJob
<1>5. /\ work' \in [0 .. MaxMinute -> WorkDoc \cup {NoWork}]
      /\ work'[0] = ScheduleJob(t)
      /\ \A u \in Minutes : work'[u] = work[u]
  BY <1>1, <1>4, ScheduleTypes
<1>6. WorkInv' /\ JobInv'
  BY <1>3, <1>4, <1>5 DEF ScheduleInv, WorkInv, JobInv
<1> QED BY <1>3, <1>5, <1>6

LEMMA ReadTriggerKeeps ==
    ASSUME ScheduleInv, NEW w \in Schedulers, ReadTrigger(w)
    PROVE  ScheduleInv'
<1> DEFINE p == IF trigger.status = "active" THEN "admit" ELSE "skip"
           n == IF trigger.status = "active" THEN trigger.version ELSE 0
           k == [scheduler[w] EXCEPT !.pc = p, !.version = n]
<1>1. scheduler[w] \in SchedulerDoc /\ scheduler[w].pc = "trigger"
  BY ScheduleTypes DEF ReadTrigger
<1>2. p \in {"admit", "skip"} /\ n \in 0 .. MaxEdits
  BY ScheduleTypes, ScheduleAssumption DEF TriggerDoc
<1>3. scheduler' = [scheduler EXCEPT ![w] = k] /\ work' = work
  BY ScheduleTypes DEF ReadTrigger
<1> HIDE DEF p, n
<1>4. k \in SchedulerDoc /\ k.pc = p /\ k.id = scheduler[w].id
  BY <1>1, <1>2 DEF SchedulerDoc
<1> HIDE DEF k
<1>5. UNCHANGED <<minute, trigger, run, missed, delivered, incidents>>
  BY DEF ReadTrigger
<1>6. work' \in [0 .. MaxMinute -> WorkDoc \cup {NoWork}] /\ WorkInv' /\ JobInv'
  BY <1>3, <1>5, WorkRewritten
<1>7. /\ k.id \in Minutes /\ run[k.id] # NoRun /\ run[k.id].reason = "none"
  BY <1>1, <1>4 DEF ScheduleInv, SchedulerInv, OnRun
<1> QED BY <1>2, <1>3, <1>4, <1>5, <1>6, <1>7, ScheduleTypes, ReadingStep

LEMMA AdmitRefusedKeeps ==
    ASSUME ScheduleInv, NEW w \in Schedulers, AdmitRefused(w)
    PROVE  ScheduleInv'
<1> DEFINE i == scheduler[w].id
           k == Moved("defer", i)
<1>1. i \in Minutes /\ run[i] # NoRun /\ run[i].reason = "none" /\ i \in 0 .. MaxMinute
  BY ScheduleTypes DEF AdmitRefused, ScheduleInv, SchedulerInv, OnRun
<1>2. UNCHANGED <<minute, trigger, run, work, missed, delivered, incidents>>
      /\ scheduler' = [scheduler EXCEPT ![w] = k]
  BY DEF AdmitRefused, SchedulerAt, Moved
<1>3. k \in SchedulerDoc /\ k.pc = "defer" /\ k.id = i
  BY <1>1, MovedTo DEF SchedulerPC
<1> HIDE DEF k
<1>4. work' \in [0 .. MaxMinute -> WorkDoc \cup {NoWork}] /\ WorkInv' /\ JobInv'
  BY <1>2, WorkRewritten
<1> QED BY <1>1, <1>2, <1>3, <1>4, ScheduleTypes, ReadingStep

LEMMA PauseTargetKeeps ==
    ASSUME ScheduleInv, NEW w \in Schedulers, PauseTarget(w)
    PROVE  ScheduleInv'
<1> DEFINE i == scheduler[w].id
           k == Moved("skip", i)
<1>1. i \in Minutes /\ run[i] # NoRun /\ i \in 0 .. MaxMinute
  BY ScheduleTypes DEF PauseTarget, ScheduleInv, SchedulerInv, OnRun
<1>2. UNCHANGED <<minute, run, missed, delivered, incidents>>
      /\ scheduler' = [scheduler EXCEPT ![w] = k]
  BY DEF PauseTarget, SchedulerAt, Moved
<1>3. k \in SchedulerDoc /\ k.pc = "skip" /\ k.id = i
  BY <1>1, MovedTo DEF SchedulerPC
<1> HIDE DEF k
<1>4. /\ trigger' \in TriggerDoc /\ TriggerRests
      /\ work' \in [0 .. MaxMinute -> WorkDoc \cup {NoWork}] /\ WorkInv' /\ JobInv'
  <2>1. CASE UNCHANGED <<trigger, work>>
    BY <1>2, <2>1, ScheduleTypes, WorkRewritten DEF TriggerRests
  <2>2. CASE Edited([trigger EXCEPT !.status = "disabled"])
    <3> DEFINE d == [trigger EXCEPT !.status = "disabled"]
    <3>1. d \in TriggerDoc /\ d.version = trigger.version /\ d.status = "disabled"
      BY ScheduleTypes DEF TriggerDoc
    <3>2. Edited(d)
      BY <2>2
    <3> HIDE DEF d
    <3> QED BY <1>2, <3>1, <3>2, EditedFacts DEF TriggerRests
  <2> QED BY <2>1, <2>2 DEF PauseTarget
<1>5. \A t \in Minutes : Quiet(t)
  BY <1>2, RunsRest
<1> QED BY <1>1, <1>2, <1>3, <1>4, <1>5, ScheduleTypes, QuietStep

\* The run a scheduler works on is put off, settled or left.
LEMMA DeferKeeps ==
    ASSUME ScheduleInv, NEW w \in Schedulers, Defer(w)
    PROVE  ScheduleInv'
<1> DEFINE i == scheduler[w].id
           at == IF minute + 1 < Deadline(i) THEN minute + 1 ELSE Deadline(i)
<1>1. i \in Minutes /\ run[i] # NoRun /\ run[i].reason = "none" /\ i \in 0 .. MaxMinute
      /\ run[i] \in RunDoc
  BY ScheduleTypes DEF Defer, ScheduleInv, SchedulerInv, OnRun
<1>2. UNCHANGED <<minute, trigger, missed, delivered, incidents>>
      /\ scheduler' = [scheduler EXCEPT ![w] = Idle]
  BY DEF Defer, Done
<1>3. at \in 0 .. MaxMinute + RunLease + JobLease + Jitter
  <2>1. i \in Nat /\ minute \in Nat /\ minute <= MaxMinute
    BY <1>1, ScheduleTypes, ScheduleAssumption
  <2> HIDE DEF i
  <2>2. at \in Nat /\ at <= minute + 1
    BY <2>1, ScheduleAssumption DEF Deadline
  <2> HIDE DEF at
  <2> QED BY <2>1, <2>2, ScheduleAssumption
<1>4. /\ work' = IF HasFence(w, i) THEN [work EXCEPT ![i].at = at] ELSE work
      /\ run' = IF run[i].outcome = "pending" THEN [run EXCEPT ![i].reason = "none"] ELSE run
  BY DEF Defer
<1> HIDE DEF at
<1>5. run' = run
  <2> SUFFICES ASSUME run' = [run EXCEPT ![i].reason = "none"] PROVE run' = run
    BY <1>4
  <2> DEFINE d == [run[i] EXCEPT !.reason = "none"]
  <2>1. d = run[i]
    BY <1>1 DEF RunDoc
  <2>2. run' = [run EXCEPT ![i] = d]
    OBVIOUS
  <2> HIDE DEF d
  <2> QED BY <1>1, <2>1, <2>2, ScheduleTypes
<1>6. \/ work' = work
      \/ \E d \in WorkDoc : work[i] # NoWork /\ work' = [work EXCEPT ![i] = d]
  <2> SUFFICES ASSUME work[i] # NoWork, work' = [work EXCEPT ![i].at = at]
               PROVE  \E d \in WorkDoc : work' = [work EXCEPT ![i] = d]
    BY <1>4 DEF HasFence
  <2> DEFINE d == [work[i] EXCEPT !.at = at]
  <2>1. work[i] \in WorkDoc
    BY <1>1, ScheduleTypes
  <2>2. d \in WorkDoc
    BY <1>3, <2>1 DEF WorkDoc
  <2> QED BY <2>2
<1>7. work' \in [0 .. MaxMinute -> WorkDoc \cup {NoWork}] /\ WorkInv' /\ JobInv'
  BY <1>1, <1>2, <1>5, <1>6, WorkRewritten
<1> QED BY <1>2, <1>5, <1>7, IdleDoc, ScheduleTypes, ReadingStep DEF OnRun

LEMMA SettleKeeps ==
    ASSUME ScheduleInv, NEW w \in Schedulers, Settle(w), scheduler[w].pc \in {"finish", "skip"},
           UNCHANGED <<minute, trigger, work, missed, delivered, incidents>>
    PROVE  ScheduleInv'
<1> DEFINE i == scheduler[w].id
           k == Moved("record", i)
           d == Run("over", "none")
<1>1. i \in Minutes /\ run[i] # NoRun /\ i \in 0 .. MaxMinute
  BY ScheduleTypes DEF ScheduleInv, SchedulerInv, OnRun
<1>2. scheduler' = [scheduler EXCEPT ![w] = k] /\ run' = [run EXCEPT ![i] = d]
  BY DEF Settle, SchedulerAt, Moved
<1>3. k \in SchedulerDoc /\ k.pc = "record" /\ k.id = i
  BY <1>1, MovedTo DEF SchedulerPC
<1>4. d \in RunDoc /\ d # NoRun /\ d.outcome = "over" /\ d.reason = "none"
  BY WrittenRuns DEF Run
<1> HIDE DEF k, d
<1>5. /\ run' \in [Minutes -> RunDoc \cup {NoRun}] /\ run'[i] = d
      /\ \A t \in Minutes : t # i => run'[t] = run[t]
  BY <1>1, <1>2, <1>4, ScheduleTypes
<1>6. \A t \in Minutes : Quiet(t)
  BY <1>1, <1>4, <1>5 DEF Quiet, Later, Outstanding, Unfinished
<1>7. WorkInv' /\ JobInv'
  BY <1>1, <1>4, <1>5 DEF ScheduleInv, WorkInv, JobInv, Unfinished
<1>8. TriggerRests /\ trigger' \in TriggerDoc
      /\ work' \in [0 .. MaxMinute -> WorkDoc \cup {NoWork}]
  BY ScheduleTypes DEF TriggerRests
<1> QED BY <1>1, <1>2, <1>3, <1>4, <1>5, <1>6, <1>7, <1>8, ScheduleTypes, QuietStep

LEMMA FinishKeeps ==
    ASSUME ScheduleInv, NEW w \in Schedulers, Finish(w) \/ FinishClaimed(w)
    PROVE  ScheduleInv'
<1>1. /\ UNCHANGED <<minute, trigger, work, missed, delivered, incidents>>
      /\ scheduler[w].pc \in {"finish", "skip"}
      /\ Settle(w) \/ (Done(w) /\ run' = run)
  BY DEF Finish, FinishClaimed
<1> QED BY <1>1, SettleKeeps, GivesUp, ScheduleTypes

LEMMA FinishRecordKeeps ==
    ASSUME ScheduleInv, NEW w \in Schedulers, FinishRecord(w)
    PROVE  ScheduleInv'
<1> DEFINE i == scheduler[w].id
<1>1. i \in Minutes /\ run[i] # NoRun /\ run[i].outcome = "over"
  BY DEF FinishRecord, ScheduleInv, SchedulerInv, OnRun
<1>2. /\ UNCHANGED <<minute, trigger, run, missed, delivered, incidents>>
      /\ scheduler' = [scheduler EXCEPT ![w] = Idle]
      /\ work' = [work EXCEPT ![i] = NoWork]
  BY DEF FinishRecord, Done
<1>3. work' \in [0 .. MaxMinute -> WorkDoc \cup {NoWork}] /\ WorkInv' /\ JobInv'
  BY <1>1, <1>2, WorkCleared
<1> QED BY <1>2, <1>3, IdleDoc, ScheduleTypes, ReadingStep DEF OnRun

LEMMA StopKeeps ==
    ASSUME ScheduleInv, NEW w \in Schedulers, Stop(w)
    PROVE  ScheduleInv'
<1>1. incidents' \in 0 .. MaxIncidents
  BY ScheduleTypes, ScheduleAssumption DEF Stop
<1> QED BY <1>1, GivesUp DEF Stop

\* A scheduler delivers the run it admitted, for the first time.
LEMMA DeliverKeeps ==
    ASSUME ScheduleInv, NEW w \in Schedulers, Deliver(w)
    PROVE  ScheduleInv'
<1> DEFINE i == scheduler[w].id
           k == Moved("finish", i)
<1>1. /\ i \in Minutes /\ run[i] # NoRun /\ i \in 0 .. MaxMinute
      /\ delivered[i] = 0 /\ run[i].outcome # "pending" /\ scheduler[w].pc = "deliver"
  BY ScheduleTypes DEF Deliver, ScheduleInv, SchedulerInv, DeliveryInv, OnRun
<1>2. UNCHANGED <<minute, trigger, run, work, missed, incidents>>
      /\ scheduler' = [scheduler EXCEPT ![w] = k]
  BY DEF Deliver, SchedulerAt, Moved
<1>3. k \in SchedulerDoc /\ k.pc = "finish" /\ k.id = i
  BY <1>1, MovedTo DEF SchedulerPC
<1> HIDE DEF k
<1>4. \A t \in Minutes : Quiet(t)
  BY <1>2, RunsRest
<1>5. /\ scheduler' \in [Schedulers -> SchedulerDoc]
      /\ scheduler'[w] = k
      /\ \A v \in Schedulers : v # w => scheduler'[v] = scheduler[v]
      /\ SchedulerInv'
  <2>1. \A t \in Minutes : Later(t)
    BY <1>4 DEF Quiet
  <2> QED BY <1>1, <1>2, <1>3, <2>1, SchedulerMoves
<1>6. /\ delivered' \in [Minutes -> 0 .. 2] /\ delivered'[i] \in {0, 1}
      /\ \A t \in Minutes : t # i => delivered'[t] = delivered[t]
  BY <1>1, ScheduleTypes DEF Deliver
<1>7. DeliveryInv'
  <2>1. ASSUME NEW t \in Minutes, delivered'[t] # 0
        PROVE  delivered'[t] = 1 /\ run'[t] # NoRun /\ run'[t].outcome # "pending"
    BY <1>1, <1>2, <1>6, <2>1 DEF ScheduleInv, DeliveryInv
  <2>2. ASSUME NEW v \in Schedulers, scheduler'[v].pc = "deliver"
        PROVE  /\ v # w /\ scheduler'[v] = scheduler[v] /\ scheduler[v].id # i
               /\ delivered'[scheduler'[v].id] = 0 /\ run'[scheduler'[v].id].outcome # "pending"
    <3>1. v # w /\ scheduler'[v] = scheduler[v]
      BY <1>3, <1>5, <2>2
    <3>2. scheduler[v].id # i
      BY <1>1, <2>2, <3>1 DEF ScheduleInv, DeliveryInv
    <3>3. scheduler[v].id \in Minutes
      BY <2>2, <3>1 DEF ScheduleInv, SchedulerInv, OnRun
    <3> QED BY <1>2, <1>6, <2>2, <3>1, <3>2, <3>3 DEF ScheduleInv, DeliveryInv
  <2> QED BY <2>1, <2>2 DEF ScheduleInv, DeliveryInv
<1>8. ScheduleTypeOK'
  BY <1>2, <1>5, <1>6 DEF ScheduleInv, ScheduleTypeOK
<1>9. StartedInv' /\ OutstandingInv' /\ CoverInv'
  BY <1>2, <1>4, <1>8, QuietKeeps DEF TriggerRests
<1>10. WorkInv' /\ JobInv'
  BY <1>2, WorkRewritten
<1> QED BY <1>5, <1>7, <1>8, <1>9, <1>10 DEF ScheduleInv

\* admit_turn starts a pending run when no other has started.
LEMMA AdmitKeeps ==
    ASSUME ScheduleInv, NEW w \in Schedulers, Admit(w)
    PROVE  ScheduleInv'
<1> DEFINE i == scheduler[w].id
           k == Moved("deliver", i)
           d == Run("started", "none")
           e == [work[i] EXCEPT !.at = minute + RunLease]
<1>1. /\ i \in Minutes /\ run[i] # NoRun /\ i \in 0 .. MaxMinute
      /\ run[i].outcome = "pending" /\ run[i].reason = "none" /\ NoneRunning(i)
      /\ work[i] # NoWork
  BY ScheduleTypes DEF Admit, Admissible, Holds, HasFence, ScheduleInv, SchedulerInv, OnRun
<1>2. UNCHANGED <<minute, trigger, missed, delivered, incidents>>
      /\ scheduler' = [scheduler EXCEPT ![w] = k]
      /\ run' = [run EXCEPT ![i] = d]
      /\ work' = [work EXCEPT ![i] = e]
  BY DEF Admit, SchedulerAt, Moved
<1>3. k \in SchedulerDoc /\ k.pc = "deliver" /\ k.id = i
  BY <1>1, MovedTo DEF SchedulerPC
<1>4. d \in RunDoc /\ d # NoRun /\ d.outcome = "started" /\ d.reason = "none"
  BY WrittenRuns DEF Run
<1>5. e \in WorkDoc /\ e # NoWork
  <2>1. work[i] \in WorkDoc
    BY <1>1, ScheduleTypes
  <2>2. minute + RunLease \in 0 .. MaxMinute + RunLease + JobLease + Jitter
    BY ScheduleTypes, ScheduleAssumption
  <2>3. e \in WorkDoc
    BY <2>1, <2>2 DEF WorkDoc
  <2> HIDE DEF e
  <2> QED BY <2>3, NoDocumentAssumption
<1> HIDE DEF k, d, e
<1>6. /\ run' \in [Minutes -> RunDoc \cup {NoRun}] /\ run'[i] = d
      /\ \A t \in Minutes : t # i => run'[t] = run[t]
  BY <1>1, <1>2, <1>4, ScheduleTypes
<1>7. /\ work' \in [0 .. MaxMinute -> WorkDoc \cup {NoWork}] /\ work'[0] = work[0]
      /\ work'[i] = e
      /\ \A t \in Minutes : t # i => work'[t] = work[t]
  BY <1>1, <1>2, <1>5, ScheduleTypes
<1>8. \A t \in Minutes : Later(t)
  BY <1>1, <1>4, <1>6 DEF Later
<1>9. Outstanding' \subseteq Outstanding
  BY <1>1, <1>6 DEF Outstanding, Unfinished
<1>10. StartedInv'
  BY <1>1, <1>6 DEF StartedInv, NoneRunning
<1>11. WorkInv' /\ JobInv'
  BY <1>1, <1>2, <1>4, <1>5, <1>6, <1>7 DEF ScheduleInv, WorkInv, JobInv
<1>12. /\ scheduler' \in [Schedulers -> SchedulerDoc]
       /\ scheduler'[w] = k
       /\ \A v \in Schedulers : v # w => scheduler'[v] = scheduler[v]
       /\ SchedulerInv'
  BY <1>1, <1>2, <1>3, <1>4, <1>6, <1>8, SchedulerMoves
<1>13. DeliveryInv'
  <2>1. delivered[i] = 0
    BY <1>1 DEF ScheduleInv, DeliveryInv
  <2>2. \A t \in Minutes : delivered'[t] # 0 =>
            delivered'[t] = 1 /\ run'[t] # NoRun /\ run'[t].outcome # "pending"
    BY <1>2, <1>8 DEF ScheduleInv, DeliveryInv, Later
  <2>3. ASSUME NEW v \in Schedulers, v # w, scheduler'[v].pc = "deliver"
        PROVE  /\ scheduler'[v] = scheduler[v] /\ scheduler[v].id # i
               /\ delivered'[scheduler'[v].id] = 0 /\ run'[scheduler'[v].id].outcome # "pending"
    <3>1. scheduler'[v] = scheduler[v]
      BY <1>12, <2>3
    <3>2. /\ run[scheduler[v].id].outcome # "pending" /\ delivered[scheduler[v].id] = 0
          /\ scheduler[v].id \in Minutes
      BY <2>3, <3>1 DEF ScheduleInv, DeliveryInv, SchedulerInv, OnRun
    <3> QED BY <1>1, <1>2, <1>6, <3>1, <3>2
  <2>4. \A u, v \in Schedulers :
            scheduler'[u].pc = "deliver" /\ scheduler'[v].pc = "deliver"
               /\ scheduler'[u].id = scheduler'[v].id => u = v
    BY <1>3, <1>12, <2>3 DEF ScheduleInv, DeliveryInv
  <2>5. \A v \in Schedulers : scheduler'[v].pc = "deliver" =>
            delivered'[scheduler'[v].id] = 0 /\ run'[scheduler'[v].id].outcome # "pending"
    BY <1>2, <1>3, <1>4, <1>6, <1>12, <2>1, <2>3
  <2> QED BY <2>2, <2>4, <2>5 DEF DeliveryInv
<1>14. ScheduleTypeOK'
  BY <1>2, <1>6, <1>7, <1>12 DEF ScheduleInv, ScheduleTypeOK
<1>15. OutstandingInv' /\ CoverInv'
  BY <1>2, <1>8, <1>9, PlacesKept, CoverKept, ScheduleTypes DEF TriggerRests
<1> QED BY <1>10, <1>11, <1>12, <1>13, <1>14, <1>15 DEF ScheduleInv

\* A run besides the schedule.
LEMMA RunNowKeeps ==
    ASSUME ScheduleInv, RunNow
    PROVE  ScheduleInv'
<1> DEFINE d == NewRun
           e == Work(minute, NoScheduler)
<1>1. /\ minute \in Minutes /\ minute \in 0 .. MaxMinute /\ run[minute] = NoRun
      /\ UNCHANGED <<minute, trigger, scheduler, missed, delivered>>
      /\ run' = [run EXCEPT ![minute] = d]
      /\ work' = [work EXCEPT ![minute] = e]
      /\ incidents' \in 0 .. MaxIncidents
  BY ScheduleTypes, ScheduleAssumption DEF RunNow, Minutes
<1>2. d \in RunDoc /\ d # NoRun /\ d.outcome = "pending"
  BY WrittenRuns
<1>3. e \in WorkDoc /\ e # NoWork
  <2>1. minute \in 0 .. MaxMinute + RunLease + JobLease + Jitter
    BY <1>1, ScheduleAssumption
  <2> QED BY <2>1, WrittenWork
<1>4. NewRun = d
  OBVIOUS
<1> HIDE DEF d, e
<1>5. /\ run' \in [Minutes -> RunDoc \cup {NoRun}] /\ run'[minute] = d
      /\ \A t \in Minutes : t # minute => run'[t] = run[t]
  BY <1>1, <1>2, ScheduleTypes
<1>6. /\ work' \in [0 .. MaxMinute -> WorkDoc \cup {NoWork}] /\ work'[0] = work[0]
      /\ work'[minute] = e
      /\ \A t \in Minutes : t # minute => work'[t] = work[t]
  BY <1>1, <1>3, ScheduleTypes
<1>7. \A t \in Minutes : Later(t)
  BY <1>1, <1>5 DEF Later
<1>8. SchedulerInv' /\ DeliveryInv'
  BY <1>1, <1>7, SchedulersRest
<1>9. StartedInv'
  BY <1>2, <1>5 DEF ScheduleInv, StartedInv
<1>10. WorkInv' /\ JobInv'
  BY <1>1, <1>2, <1>3, <1>5, <1>6 DEF ScheduleInv, WorkInv, JobInv
<1>11. OutstandingInv'
  <2>1. Outstanding' \subseteq Outstanding \cup {minute}
    BY <1>5 DEF Outstanding
  <2>2. d.reason = "full" => Outstanding' \subseteq Outstanding
    BY <1>5 DEF Outstanding
  <2> QED BY <1>1, <1>4, <2>1, <2>2, PlaceTaken
<1>12. CoverInv'
  BY <1>1, <1>7, CoverKept, ScheduleTypes DEF TriggerRests
<1>13. ScheduleTypeOK'
  BY <1>1, <1>5, <1>6 DEF ScheduleInv, ScheduleTypeOK
<1> QED BY <1>8, <1>9, <1>10, <1>11, <1>12, <1>13 DEF ScheduleInv

\* claim_occurrence: the times before the run taken are counted as missed.
LEMMA TakeOccurrenceKeeps ==
    ASSUME ScheduleInv, NEW w \in Schedulers, NEW t \in scheduler[w].at .. minute,
           TakeOccurrence(w, t), UNCHANGED <<minute, delivered, incidents>>
    PROVE  ScheduleInv'
<1> DEFINE n == TakenAt(t)
           b == trigger.due
           d == NewRun
           o == Run("over", "none")
           k == Moved("claim", n)
<1>1. /\ t \in Nat /\ t <= minute /\ t <= MaxMinute
      /\ b \in Minutes /\ b <= t /\ trigger.status = "active"
      /\ run[b] = NoRun /\ run[n] = NoRun
  <2>1. /\ trigger.status = "active" /\ b # 0 /\ b <= t
        /\ run[b] = NoRun /\ run[n] = NoRun
    BY DEF TakeOccurrence, Takes
  <2>2. scheduler[w].at \in 0 .. MaxMinute /\ b \in 0 .. MaxMinute
    BY ScheduleTypes DEF TriggerDoc, SchedulerDoc
  <2>3. minute \in 0 .. MaxMinute
    BY ScheduleTypes
  <2> HIDE DEF b, n
  <2>4. t \in Nat /\ t <= minute /\ t <= MaxMinute
    BY <2>2, <2>3, ScheduleAssumption
  <2>5. b \in Minutes
    BY <2>1, <2>2, ScheduleAssumption DEF Minutes
  <2> QED BY <2>1, <2>4, <2>5
<1>2. LatestDue(t) \in Nat /\ LatestDue(t) <= t
  BY <1>1, LatestDueFacts
<1>3. /\ n \in Minutes /\ b <= n /\ n <= t /\ n \in Nat /\ LatestDue(t) <= n
  <2>1. \/ n = LatestDue(t) /\ LatestDue(t) > b
        \/ n = b /\ ~(LatestDue(t) > b)
    BY DEF TakenAt
  <2>2. b \in Nat /\ b > 0
    BY <1>1, ScheduleAssumption DEF Minutes
  <2> HIDE DEF b, n
  <2>3. b <= n /\ n <= t /\ n \in Nat /\ LatestDue(t) <= n
    BY <1>1, <1>2, <2>1, <2>2
  <2> QED BY <1>1, <2>2, <2>3, ScheduleAssumption DEF Minutes
<1>4. PICK jitter \in 0 .. Jitter :
         work' = [work EXCEPT ![n] = Work(n + jitter, NoScheduler),
                              ![0] = ScheduleJob(Advanced(t))]
  BY DEF TakeOccurrence
<1> DEFINE e == Work(n + jitter, NoScheduler)
           j == ScheduleJob(Advanced(t))
<1>5. /\ run' = [run EXCEPT ![b] = o, ![n] = d]
      /\ missed' = missed \cup {m \in b .. n - 1 : m % Period = 0}
      /\ trigger' = [trigger EXCEPT !.due = NextDue(t)]
      /\ work' = [work EXCEPT ![n] = e, ![0] = j]
      /\ scheduler' = [scheduler EXCEPT ![w] = k]
  BY <1>4 DEF TakeOccurrence, Advanced, Moved
<1>6. d \in RunDoc /\ d # NoRun /\ d.outcome = "pending"
  BY WrittenRuns
<1>7. o \in RunDoc /\ o # NoRun /\ o.outcome = "over"
  BY WrittenRuns DEF Run
<1>8. e \in WorkDoc /\ e # NoWork
  <2>1. n + jitter \in 0 .. MaxMinute + RunLease + JobLease + Jitter
    BY <1>3, ScheduleAssumption DEF Minutes
  <2> QED BY <2>1, WrittenWork
<1>9. /\ trigger' \in TriggerDoc /\ trigger'.due = NextDue(t)
      /\ trigger'.status = trigger.status /\ trigger'.since = trigger.since
      /\ trigger'.overlap = trigger.overlap /\ trigger'.version = trigger.version
  <2>1. NextDue(t) \in 0 .. MaxMinute
    BY <1>1, NextDueFacts
  <2>2. trigger \in TriggerDoc
    BY ScheduleTypes
  <2> QED BY <1>5, <2>1, <2>2 DEF TriggerDoc
<1>10. /\ j \in WorkDoc \cup {NoWork}
       /\ trigger'.status = "active" /\ trigger'.due # 0 => j # NoWork
  <2>1. trigger' = Advanced(t)
    BY <1>5 DEF Advanced
  <2> QED BY <1>9, <2>1, WrittenJob
<1>11. k \in SchedulerDoc /\ k.pc = "claim" /\ k.id = n
  BY <1>3, MovedTo, ScheduleTypes DEF SchedulerPC
<1>12. NewRun = d
  OBVIOUS
<1> HIDE DEF n, b, d, o, k, e, j
<1>13. /\ run' \in [Minutes -> RunDoc \cup {NoRun}] /\ run'[n] = d
       /\ b # n => run'[b] = o
       /\ \A u \in Minutes : u # n /\ u # b => run'[u] = run[u]
  BY <1>1, <1>3, <1>5, <1>6, <1>7, ScheduleTypes
<1>14. /\ work' \in [0 .. MaxMinute -> WorkDoc \cup {NoWork}]
       /\ work'[0] = j /\ work'[n] = e
       /\ \A u \in Minutes : u # n => work'[u] = work[u]
  BY <1>3, <1>5, <1>8, <1>10, ScheduleTypes
<1>15. \A u \in Minutes : Later(u)
  BY <1>1, <1>13 DEF Later
<1>16. /\ scheduler' \in [Schedulers -> SchedulerDoc]
       /\ scheduler'[w] = k
       /\ \A v \in Schedulers : v # w => scheduler'[v] = scheduler[v]
       /\ SchedulerInv'
  BY <1>3, <1>5, <1>6, <1>11, <1>13, <1>15, SchedulerMoves
<1>17. DeliveryInv'
  BY <1>11, <1>15, <1>16, NoDelivery
<1>18. StartedInv'
  BY <1>6, <1>7, <1>13 DEF ScheduleInv, StartedInv
<1>19. WorkInv'
  <2>1. ASSUME NEW u \in Minutes
        PROVE  /\ work'[u] # NoWork => run'[u] # NoRun
               /\ run'[u] # NoRun /\ run'[u].outcome \in Unfinished => work'[u] # NoWork
    <3>1. CASE u = n
      BY <1>6, <1>8, <1>13, <1>14, <3>1
    <3>2. CASE u # n /\ u = b
      BY <1>7, <1>13, <3>2 DEF Unfinished
    <3>3. CASE u # n /\ u # b
      BY <1>13, <1>14, <3>3 DEF ScheduleInv, WorkInv
    <3> QED BY <3>1, <3>2, <3>3
  <2> QED BY <2>1 DEF WorkInv
<1>20. JobInv'
  BY <1>10, <1>14 DEF JobInv
<1>21. OutstandingInv'
  <2>1. Outstanding' \subseteq Outstanding \cup {n}
    BY <1>7, <1>13 DEF Outstanding, Unfinished
  <2>2. d.reason = "full" => Outstanding' \subseteq Outstanding
    BY <1>7, <1>13 DEF Outstanding, Unfinished
  <2> QED BY <1>9, <1>12, <2>1, <2>2, PlaceTaken
<1>22. CoverInv'
  <2> SUFFICES ASSUME NEW u \in Minutes, PassedTime(u)'
               PROVE  run'[u] # NoRun \/ u \in missed'
    BY DEF CoverInv
  <2>1. /\ u \in Nat /\ u <= MaxMinute /\ u % Period = 0 /\ trigger.since # 0 /\ trigger.since <= u
        /\ NextDue(t) = 0 \/ u < NextDue(t)
    BY <1>9 DEF PassedTime, Minutes
  <2>2. b \in Nat
    BY <1>1 DEF Minutes
  <2>3. CASE u < b
    <3>1. PassedTime(u)
      BY <1>1, <2>1, <2>3 DEF PassedTime, b
    <3>2. run[u] # NoRun \/ u \in missed
      BY <3>1 DEF ScheduleInv, CoverInv
    <3> QED BY <1>5, <1>15, <3>2 DEF Later
  <2>4. u <= n
    <3>1. u < LatestDue(t) + Period
      BY <1>1, <1>2, <2>1, NextDueFacts, ScheduleAssumption
    <3>2. u <= LatestDue(t)
      BY <1>1, <2>1, <3>1, LatestDueFacts
    <3> QED BY <1>2, <1>3, <2>1, <3>2
  <2>5. CASE b <= u /\ u < n
    <3>1. u \in b .. n - 1
      BY <1>3, <2>1, <2>2, <2>5
    <3> QED BY <1>5, <2>1, <3>1
  <2>6. CASE u = n
    BY <1>6, <1>13, <2>6
  <2> QED BY <1>3, <2>1, <2>2, <2>3, <2>4, <2>5, <2>6
<1>23. missed' \subseteq Minutes
  <2>1. b .. n - 1 \subseteq Minutes
    BY <1>1, <1>3, ScheduleAssumption DEF Minutes
  <2> QED BY <1>5, <2>1, ScheduleTypes
<1>24. ScheduleTypeOK'
  BY <1>9, <1>13, <1>14, <1>16, <1>23 DEF ScheduleInv, ScheduleTypeOK
<1> QED BY <1>16, <1>17, <1>18, <1>19, <1>20, <1>21, <1>22, <1>24 DEF ScheduleInv

\* A step that leaves runs and schedulers as they are.
LEMMA RestingStep ==
    ASSUME ScheduleInv, UNCHANGED <<run, scheduler, missed, delivered, incidents>>,
           minute' \in 0 .. MaxMinute, trigger' \in TriggerDoc, TriggerRests,
           work' \in [0 .. MaxMinute -> WorkDoc \cup {NoWork}], WorkInv', JobInv'
    PROVE  ScheduleInv'
<1>1. \A t \in Minutes : Quiet(t)
  BY RunsRest
<1>2. SchedulerInv' /\ DeliveryInv'
  BY <1>1, SchedulersRest DEF Quiet
<1>3. ScheduleTypeOK'
  BY DEF ScheduleInv, ScheduleTypeOK
<1>4. StartedInv' /\ OutstandingInv' /\ CoverInv'
  BY <1>1, <1>3, QuietKeeps
<1> QED BY <1>2, <1>3, <1>4 DEF ScheduleInv

LEMMA UpdateTriggerKeeps ==
    ASSUME ScheduleInv, UpdateTrigger
    PROVE  ScheduleInv'
<1>1. UNCHANGED <<minute, run, scheduler, missed, delivered, incidents>>
  BY DEF UpdateTrigger
<1>2. trigger \in TriggerDoc /\ trigger.version \in Nat
  BY ScheduleTypes DEF TriggerDoc
<1>3. ASSUME NEW status \in {"active", "disabled"},
             Edited([trigger EXCEPT !.status = status, !.due = NextDue(minute),
                                    !.since = NextDue(minute)])
      PROVE  ScheduleInv'
  <2> DEFINE d == [trigger EXCEPT !.status = status, !.due = NextDue(minute),
                                  !.since = NextDue(minute)]
  <2>1. NextDue(minute) \in 0 .. MaxMinute
    BY ScheduleTypes, NextDueFacts
  <2>2. d \in TriggerDoc /\ d.version = trigger.version /\ d.since = d.due
    BY <1>2, <2>1 DEF TriggerDoc
  <2>3. Edited(d)
    BY <1>3
  <2> HIDE DEF d
  <2>4. /\ trigger' \in TriggerDoc /\ trigger'.version # 0 /\ trigger'.since = trigger'.due
        /\ work' \in [0 .. MaxMinute -> WorkDoc \cup {NoWork}]
        /\ WorkInv' /\ JobInv'
    BY <1>1, <2>2, <2>3, EditedFacts
  <2> QED BY <1>1, <2>4, RestingStep, ScheduleTypes DEF TriggerRests
<1>4. ASSUME NEW overlap \in {"skip", "queue"}, trigger.version < MaxEdits, work' = work,
             trigger' = [trigger EXCEPT !.overlap = overlap, !.version = @ + 1]
      PROVE  ScheduleInv'
  <2>1. trigger' = [trigger EXCEPT !.overlap = overlap, !.version = trigger.version + 1]
    BY <1>4
  <2>2. trigger.version + 1 \in 0 .. MaxEdits /\ trigger.version + 1 # 0
    BY <1>2, <1>4, ScheduleAssumption
  <2>3. /\ trigger' \in TriggerDoc /\ trigger'.version # 0
        /\ trigger'.status = trigger.status /\ trigger'.due = trigger.due
        /\ trigger'.since = trigger.since
    BY <1>2, <2>1, <2>2 DEF TriggerDoc
  <2>4. WorkInv' /\ JobInv'
    BY <1>1, <1>4, <2>3 DEF ScheduleInv, WorkInv, JobInv
  <2> QED BY <1>1, <1>4, <2>3, <2>4, RestingStep, ScheduleTypes DEF TriggerRests
<1> QED BY <1>3, <1>4 DEF UpdateTrigger

LEMMA DeleteTriggerKeeps ==
    ASSUME ScheduleInv, DeleteTrigger
    PROVE  ScheduleInv'
<1>1. UNCHANGED <<minute, run, scheduler, missed, delivered, incidents>>
      /\ trigger' = [trigger EXCEPT !.status = "deleted", !.version = trigger.version + 1]
      /\ trigger.version < MaxEdits
      /\ work' \in {work, [work EXCEPT ![0] = NoWork]}
  BY DEF DeleteTrigger
<1>2. trigger \in TriggerDoc /\ trigger.version \in Nat
  BY ScheduleTypes DEF TriggerDoc
<1>3. trigger.version + 1 \in 0 .. MaxEdits /\ trigger.version + 1 # 0
  BY <1>1, <1>2, ScheduleAssumption
<1>4. trigger' \in TriggerDoc /\ trigger'.version # 0 /\ trigger'.status = "deleted"
  BY <1>1, <1>2, <1>3 DEF TriggerDoc
<1>5. /\ work' \in [0 .. MaxMinute -> WorkDoc \cup {NoWork}]
      /\ \A u \in Minutes : work'[u] = work[u]
  BY <1>1, ScheduleTypes
<1>6. WorkInv' /\ JobInv'
  BY <1>1, <1>4, <1>5 DEF ScheduleInv, WorkInv, JobInv
<1> QED BY <1>1, <1>4, <1>5, <1>6, RestingStep, ScheduleTypes DEF TriggerRests

LEMMA ScheduleTickKeeps ==
    ASSUME ScheduleInv, ScheduleTick
    PROVE  ScheduleInv'
<1>1. UNCHANGED <<trigger, run, work, scheduler, missed, delivered, incidents>>
      /\ minute' \in 0 .. MaxMinute
  BY ScheduleTypes, ScheduleAssumption DEF ScheduleTick
<1>2. WorkInv' /\ JobInv'
  BY <1>1, WorkRewritten
<1> QED BY <1>1, <1>2, RestingStep, ScheduleTypes DEF TriggerRests

-----------------------------------------------------------------------------
\* Every step of the schedulers and of the owner preserves the invariant.
LEMMA ScheduleInductive ==
    ASSUME ScheduleInv, [ScheduleNext]_scheduleVars
    PROVE  ScheduleInv'
<1>1. ASSUME NEW w \in Schedulers, ClaimOccurrence(w) PROVE ScheduleInv'
  BY <1>1, TakeOccurrenceKeeps, LeaveOccurrenceKeeps DEF ClaimOccurrence
<1>2. ASSUME NEW w \in Schedulers, SchedulerStep(w) PROVE ScheduleInv'
  BY <1>1, <1>2, ClaimWorkKeeps, ClaimOwnRunKeeps, ReadRunKeeps, ReadTriggerKeeps, AdmitKeeps,
     AdmitRefusedKeeps, PauseTargetKeeps, DeferKeeps, DeliverKeeps, FinishKeeps,
     FinishRecordKeeps DEF SchedulerStep
<1>3. CASE UNCHANGED scheduleVars
  BY <1>3, RestingStep, ScheduleTypes DEF scheduleVars, TriggerRests, ScheduleInv, WorkInv, JobInv
<1> QED BY <1>2, <1>3, StopKeeps, RunNowKeeps, UpdateTriggerKeeps, DeleteTriggerKeeps,
           ScheduleTickKeeps DEF ScheduleNext

LEMMA ScheduleInitInv == ScheduleInit => ScheduleInv
<1> SUFFICES ASSUME ScheduleInit PROVE ScheduleInv
  OBVIOUS
<1>1. MaxMinute \in Nat /\ MaxEdits \in Nat /\ MaxIncidents \in Nat /\ 0 \in 0 .. MaxMinute
      /\ 0 \notin Minutes /\ Minutes \subseteq 0 .. MaxMinute
  BY ScheduleAssumption DEF Minutes
<1>2. NextDue(0) \in 0 .. MaxMinute
  BY NextDueFacts
<1>3. trigger \in TriggerDoc /\ trigger.due = NextDue(0) /\ trigger.since = NextDue(0)
  BY <1>1, <1>2 DEF ScheduleInit, TriggerDoc
<1>4. /\ ScheduleJob(trigger) \in WorkDoc \cup {NoWork}
      /\ trigger.status = "active" /\ trigger.due # 0 => ScheduleJob(trigger) # NoWork
  BY <1>3, WrittenJob
<1>5. /\ work \in [0 .. MaxMinute -> WorkDoc \cup {NoWork}]
      /\ work[0] = ScheduleJob(trigger) /\ \A t \in Minutes : work[t] = NoWork
  BY <1>1, <1>4 DEF ScheduleInit
<1>6. \A t \in Minutes : run[t] = NoRun /\ delivered[t] = 0
  BY DEF ScheduleInit
<1>7. \A w \in Schedulers : scheduler[w] = Idle
  BY DEF ScheduleInit
<1>8. ScheduleTypeOK
  <2>1. scheduler \in [Schedulers -> SchedulerDoc]
    BY IdleDoc DEF ScheduleInit
  <2>2. run \in [Minutes -> RunDoc \cup {NoRun}] /\ delivered \in [Minutes -> 0 .. 2]
        /\ minute \in 0 .. MaxMinute /\ missed \subseteq Minutes /\ incidents \in 0 .. MaxIncidents
    BY <1>1 DEF ScheduleInit
  <2> QED BY <1>3, <1>5, <2>1, <2>2 DEF ScheduleTypeOK
<1>9. WorkInv /\ JobInv /\ StartedInv
  BY <1>4, <1>5, <1>6 DEF WorkInv, JobInv, StartedInv
<1>10. SchedulerInv /\ DeliveryInv
  BY <1>6, <1>7, IdleDoc DEF SchedulerInv, DeliveryInv, OnRun
<1>11. OutstandingInv
  <2>1. Outstanding = {}
    BY <1>6 DEF Outstanding
  <2>2. Cardinality(Outstanding) = 0
    BY <2>1, FS_EmptySet
  <2> QED BY <2>2 DEF OutstandingInv
<1>12. CoverInv
  <2> SUFFICES ASSUME NEW t \in Minutes, PassedTime(t) PROVE FALSE
    BY DEF CoverInv
  <2>1. t \in Nat /\ NextDue(0) \in Nat
    BY <1>2 DEF Minutes
  <2> QED BY <1>3, <2>1 DEF PassedTime
<1> QED BY <1>8, <1>9, <1>10, <1>11, <1>12 DEF ScheduleInv

(* Runs, work documents, schedulers and the schedule keep their types and  *)
(* the invariant that ties them, for any number of schedulers, any period, *)
(* leases, grace and jitter (trigger_schedule.rs, trigger_scheduler.rs).   *)
THEOREM ScheduleInvariant == ScheduleSpec => []ScheduleInv
<1>1. ScheduleInv /\ [ScheduleNext]_scheduleVars => ScheduleInv'
  BY ScheduleInductive
<1> QED BY <1>1, ScheduleInitInv, PTL DEF ScheduleSpec

(* A run reaches its target once at most, however leases run out, workers  *)
(* stop and others take over (admit_turn, deliver_existing).               *)
THEOREM RunsAreDeliveredOnce == ScheduleSpec => []DeliveredOnce
<1>1. ScheduleInv => DeliveredOnce
  <2> SUFFICES ASSUME ScheduleInv, NEW t \in Minutes PROVE delivered[t] <= 1
    BY DEF DeliveredOnce
  <2>1. delivered[t] = 0 \/ delivered[t] = 1
    BY DEF ScheduleInv, DeliveryInv
  <2> QED BY <2>1
<1> QED BY <1>1, ScheduleInvariant, PTL

(* At most one run of a trigger is under way and at most one more waits;   *)
(* none waits where the policy has always been to skip (insert_run).       *)
THEOREM BacklogStaysBounded == ScheduleSpec => []BacklogIsBounded
<1>1. ScheduleInv => BacklogIsBounded
  <2> SUFFICES ASSUME ScheduleInv PROVE BacklogIsBounded
    OBVIOUS
  <2> DEFINE S == {t \in Minutes : run[t] # NoRun /\ run[t].outcome = "started"}
  <2>1. \A t, u \in S : t = u
    BY DEF ScheduleInv, StartedInv
  <2> HIDE DEF S
  <2>2. S = {} \/ \E t : S = {t}
    BY <2>1
  <2>3. Cardinality(S) <= 1
    BY <2>2, FS_EmptySet, FS_Singleton
  <2> QED BY <2>3 DEF S, BacklogIsBounded, ScheduleInv, OutstandingInv
<1> QED BY <1>1, ScheduleInvariant, PTL

(* Nothing is forgotten: an active schedule has its job, an unfinished run *)
(* its work, and every due time passed is a run or counted as missed       *)
(* (claim_occurrence, set_schedule_job, finish_record).                    *)
THEOREM NothingIsForgotten == ScheduleSpec => []NothingForgotten
<1>1. ScheduleInv => NothingForgotten
  BY DEF ScheduleInv, NothingForgotten, JobInv, WorkInv, CoverInv, PassedTime
<1> QED BY <1>1, ScheduleInvariant, PTL

-----------------------------------------------------------------------------
(* Runs are jobs.                                                          *)

Delivering(t) == \E w \in Schedulers : scheduler[w].pc = "deliver" /\ scheduler[w].id = t

(* A step after which nobody delivers who did not before.                  *)
NobodyAdmitted ==
    \A w \in Schedulers : scheduler'[w].pc = "deliver" => scheduler'[w] = scheduler[w]

(* A run is inserted, is settled, or stays as far as it is.                *)
RunInserted(t) == run[t] = NoRun /\ run'[t] \in RunDoc /\ run'[t].outcome \in {"pending", "over"}

RunKept(t) == /\ run[t] \in RunDoc /\ run'[t] \in RunDoc
              /\ \/ run'[t].outcome = run[t].outcome
                 \/ run[t].outcome \in Unfinished /\ run'[t].outcome = "over"

GoesForward(t) == run'[t] = run[t] \/ RunInserted(t) \/ RunKept(t)

\* What one scheduler comes to.
LEMMA ComesTo ==
    ASSUME ScheduleInv, NEW w \in Schedulers, NEW p, p # "deliver", SchedulerAt(w, p) \/ Done(w)
    PROVE  NobodyAdmitted
<1>1. scheduler \in [Schedulers -> SchedulerDoc]
  BY ScheduleTypes
<1>2. \A v \in Schedulers : v # w => scheduler'[v] = scheduler[v]
  BY <1>1 DEF SchedulerAt, Done
<1>3. scheduler'[w].pc = p \/ scheduler'[w].pc = "idle"
  <2>1. CASE SchedulerAt(w, p)
    <3>1. scheduler'[w] = [Idle EXCEPT !.pc = p, !.id = scheduler[w].id]
      BY <1>1, <2>1 DEF SchedulerAt
    <3> QED BY <3>1 DEF Idle
  <2>2. CASE Done(w)
    BY <1>1, <2>2 DEF Done, Idle
  <2> QED BY <2>1, <2>2
<1> QED BY <1>2, <1>3 DEF NobodyAdmitted

\* Steps that write no run and start no delivery.
LEMMA ReadersAdmitNobody ==
    ASSUME ScheduleInv, NEW w \in Schedulers,
           \/ \E i \in 0 .. MaxMinute : ClaimWork(w, i)
           \/ ClaimOwnRun(w) \/ ReadRun(w) \/ ReadTrigger(w) \/ AdmitRefused(w)
           \/ PauseTarget(w) \/ FinishRecord(w) \/ Stop(w)
    PROVE  NobodyAdmitted /\ UNCHANGED <<run, delivered>>
<1>1. scheduler \in [Schedulers -> SchedulerDoc]
  BY ScheduleTypes
<1>2. ASSUME NEW i \in 0 .. MaxMinute, ClaimWork(w, i)
      PROVE  NobodyAdmitted /\ UNCHANGED <<run, delivered>>
  BY <1>1, <1>2 DEF ClaimWork, NobodyAdmitted, Idle
<1>3. ASSUME ReadTrigger(w)
      PROVE  NobodyAdmitted /\ UNCHANGED <<run, delivered>>
  <2>1. /\ \A v \in Schedulers : v # w => scheduler'[v] = scheduler[v]
        /\ scheduler'[w].pc \in {"admit", "skip"}
    BY <1>1, <1>3 DEF ReadTrigger, SchedulerDoc
  <2> QED BY <1>3, <2>1 DEF ReadTrigger, NobodyAdmitted
<1>4. ASSUME ClaimOwnRun(w)
      PROVE  NobodyAdmitted /\ UNCHANGED <<run, delivered>>
  BY <1>4, ComesTo DEF ClaimOwnRun
<1>5. ASSUME ReadRun(w)
      PROVE  NobodyAdmitted /\ UNCHANGED <<run, delivered>>
  <2>1. Done(w) \/ \E p \in {"finish", "skip", "trigger"} : SchedulerAt(w, p)
    BY <1>5 DEF ReadRun
  <2> QED BY <1>5, <2>1, ComesTo DEF ReadRun
<1>6. ASSUME AdmitRefused(w) \/ PauseTarget(w) \/ FinishRecord(w) \/ Stop(w)
      PROVE  NobodyAdmitted /\ UNCHANGED <<run, delivered>>
  BY <1>6, ComesTo DEF AdmitRefused, PauseTarget, FinishRecord, Stop
<1> QED BY <1>2, <1>3, <1>4, <1>5, <1>6

\* Steps that insert or settle runs.
LEMMA WritersGoForward ==
    ASSUME ScheduleInv, NEW w \in Schedulers,
           ClaimOccurrence(w) \/ Defer(w) \/ Finish(w) \/ FinishClaimed(w)
    PROVE  NobodyAdmitted /\ delivered' = delivered /\ \A t \in Minutes : GoesForward(t)
<1>1. /\ scheduler \in [Schedulers -> SchedulerDoc]
      /\ run \in [Minutes -> RunDoc \cup {NoRun}] /\ NoRun \notin RunDoc
  BY ScheduleTypes, NoDocumentAssumption
<1>2. /\ Run("over", "none") \in RunDoc /\ Run("over", "none").outcome = "over"
      /\ NewRun \in RunDoc /\ NewRun.outcome = "pending"
  BY WrittenRuns DEF Run
<1> DEFINE i == scheduler[w].id
<1>3. ASSUME NEW t, TakeOccurrence(w, t)
      PROVE  NobodyAdmitted /\ \A u \in Minutes : GoesForward(u)
  <2>1. run[trigger.due] = NoRun /\ run[TakenAt(t)] = NoRun
    BY <1>3 DEF TakeOccurrence, Takes
  <2>2. run' = [run EXCEPT ![trigger.due] = Run("over", "none"), ![TakenAt(t)] = NewRun]
    BY <1>3 DEF TakeOccurrence
  <2>3. ASSUME NEW u \in Minutes PROVE GoesForward(u)
    BY <1>1, <1>2, <2>1, <2>2 DEF GoesForward, RunInserted
  <2>4. NobodyAdmitted
    BY <1>1, <1>3 DEF TakeOccurrence, NobodyAdmitted, Idle
  <2> QED BY <2>3, <2>4
<1>4. ASSUME NEW t, LeaveOccurrence(w, t)
      PROVE  NobodyAdmitted /\ \A u \in Minutes : GoesForward(u)
  BY <1>4, ComesTo DEF LeaveOccurrence, GoesForward
<1>5. ASSUME Defer(w)
      PROVE  NobodyAdmitted /\ \A u \in Minutes : GoesForward(u)
  <2>1. i \in Minutes /\ run[i] \in RunDoc
    BY <1>1, <1>5 DEF Defer, ScheduleInv, SchedulerInv, OnRun
  <2>2. \/ run' = run
        \/ run' = [run EXCEPT ![i] = [run[i] EXCEPT !.reason = "none"]]
    BY <1>1, <1>5, <2>1 DEF Defer
  <2>3. [run[i] EXCEPT !.reason = "none"] \in RunDoc
        /\ [run[i] EXCEPT !.reason = "none"].outcome = run[i].outcome
    BY <2>1 DEF RunDoc
  <2>4. ASSUME NEW u \in Minutes PROVE GoesForward(u)
    BY <1>1, <2>1, <2>2, <2>3 DEF GoesForward, RunKept
  <2> QED BY <1>5, <2>4, ComesTo DEF Defer
<1>6. ASSUME Finish(w) \/ FinishClaimed(w)
      PROVE  NobodyAdmitted /\ \A u \in Minutes : GoesForward(u)
  <2>1. i \in Minutes /\ run[i] \in RunDoc
    BY <1>1, <1>6 DEF Finish, FinishClaimed, ScheduleInv, SchedulerInv, OnRun
  <2>2. \/ Done(w) /\ run' = run
        \/ /\ run[i].outcome \in Unfinished /\ SchedulerAt(w, "record")
           /\ run' = [run EXCEPT ![i] = Run("over", "none")]
    BY <1>6 DEF Finish, FinishClaimed, Settle, Unfinished
  <2>3. ASSUME NEW u \in Minutes PROVE GoesForward(u)
    BY <1>1, <1>2, <2>1, <2>2 DEF GoesForward, RunKept
  <2> QED BY <2>2, <2>3, ComesTo
<1>7. delivered' = delivered
  BY DEF ClaimOccurrence, Defer, Finish, FinishClaimed
<1> QED BY <1>3, <1>4, <1>5, <1>6, <1>7 DEF ClaimOccurrence

\* What the owner of the trigger and time do.
LEMMA OthersGoForward ==
    ASSUME ScheduleInv,
           RunNow \/ UpdateTrigger \/ DeleteTrigger \/ ScheduleTick \/ UNCHANGED scheduleVars
    PROVE  NobodyAdmitted /\ delivered' = delivered /\ \A t \in Minutes : GoesForward(t)
<1>1. scheduler' = scheduler /\ delivered' = delivered
  BY DEF RunNow, UpdateTrigger, DeleteTrigger, ScheduleTick, scheduleVars
<1>2. ASSUME RunNow, NEW t \in Minutes
      PROVE  GoesForward(t)
  BY <1>2, ScheduleTypes, WrittenRuns DEF RunNow, GoesForward, RunInserted
<1>3. RunNow \/ run' = run
  BY DEF UpdateTrigger, DeleteTrigger, ScheduleTick, scheduleVars
<1> QED BY <1>1, <1>2, <1>3 DEF NobodyAdmitted, GoesForward

\* Such steps are moves of jobs: without a permit that is new.
LEMMA ForwardMoves ==
    ASSUME ScheduleInv, ScheduleInv', NobodyAdmitted, delivered' = delivered,
           NEW t \in Minutes, GoesForward(t)
    PROVE  RunJobs!Move(t)
<1>1. Delivering(t)' => Delivering(t)
  BY DEF NobodyAdmitted, Delivering
<1>2. Delivering(t) => run[t] # NoRun
  BY DEF Delivering, ScheduleInv, SchedulerInv, OnRun
<1>3. /\ run[t] \in RunDoc \cup {NoRun} /\ run'[t] \in RunDoc \cup {NoRun} /\ NoRun \notin RunDoc
  BY ScheduleTypes, NoDocumentAssumption DEF ScheduleInv, ScheduleTypeOK
<1>4. CASE run'[t] = run[t] \/ (run[t] \in RunDoc /\ run'[t] \in RunDoc /\ run'[t].outcome = run[t].outcome)
  <2>1. PhaseOf(run'[t]) = PhaseOf(run[t])
    BY <1>3, <1>4 DEF PhaseOf
  <2> QED BY <1>1, <2>1 DEF Delivering, RunJobs!Move, RunJobs!Rests, RunJobs!Abandons
<1>5. CASE RunInserted(t)
  <2>1. PhaseOf(run[t]) = "absent" /\ PhaseOf(run'[t]) \in {"waiting", "over"}
    BY <1>3, <1>5 DEF PhaseOf, RunInserted
  <2>2. ~Delivering(t) /\ ~Delivering(t)'
    BY <1>1, <1>2, <1>5 DEF RunInserted
  <2> QED BY <2>1, <2>2 DEF Delivering, RunJobs!Move, RunJobs!Enters
<1>6. CASE /\ run[t] \in RunDoc /\ run'[t] \in RunDoc
           /\ run[t].outcome \in Unfinished /\ run'[t].outcome = "over"
  <2>1. PhaseOf(run[t]) \in {"waiting", "under way"} /\ PhaseOf(run'[t]) = "over"
    BY <1>3, <1>6 DEF PhaseOf, Unfinished
  <2> QED BY <1>1, <2>1 DEF Delivering, RunJobs!Move, RunJobs!Ends
<1> QED BY <1>4, <1>5, <1>6 DEF GoesForward, RunKept

\* The one scheduler that admits a run has the permit from then on.
LEMMA AdmitStarts ==
    ASSUME ScheduleInv, NEW w \in Schedulers, Admit(w), NEW t \in Minutes
    PROVE  RunJobs!Move(t)
<1> DEFINE i == scheduler[w].id
<1>1. /\ i \in Minutes /\ run[i] \in RunDoc /\ run[i] # NoRun /\ run[i].outcome = "pending"
      /\ scheduler[w].pc = "admit" /\ NoRun \notin RunDoc
  BY ScheduleTypes, NoDocumentAssumption DEF Admit, Admissible, ScheduleInv, SchedulerInv, OnRun
<1>2. /\ \A v \in Schedulers : v # w => scheduler'[v] = scheduler[v]
      /\ scheduler'[w].pc = "deliver" /\ scheduler'[w].id = i
      /\ delivered' = delivered
  BY ScheduleTypes DEF Admit, SchedulerAt, Idle
<1>3. /\ run'[i] = Run("started", "none") /\ Run("started", "none") # NoRun
      /\ \A u \in Minutes : u # i => run'[u] = run[u]
  BY <1>1, ScheduleTypes, WrittenRuns DEF Admit
<1>4. ~Delivering(i) /\ Delivering(i)'
  BY <1>1, <1>2 DEF Delivering, ScheduleInv, DeliveryInv
<1>5. t # i => (Delivering(t)' <=> Delivering(t))
  BY <1>1, <1>2 DEF Delivering
<1>6. CASE t = i
  <2>1. PhaseOf(run[i]) = "waiting" /\ PhaseOf(run'[i]) = "under way"
    BY <1>1, <1>3 DEF PhaseOf, Run
  <2> QED BY <1>2, <1>4, <1>6, <2>1 DEF Delivering, RunJobs!Move, RunJobs!Starts
<1>7. CASE t # i
  BY <1>2, <1>3, <1>5, <1>7 DEF Delivering, RunJobs!Move, RunJobs!Rests
<1> QED BY <1>6, <1>7

\* It uses it up, or loses it.
LEMMA DeliverTakesEffect ==
    ASSUME ScheduleInv, NEW w \in Schedulers, Deliver(w), NEW t \in Minutes
    PROVE  RunJobs!Move(t)
<1>1. PICK i \in Minutes : i = scheduler[w].id /\ scheduler[w].pc = "deliver"
  BY DEF Deliver, ScheduleInv, SchedulerInv, OnRun
<1>2. /\ \A v \in Schedulers : v # w => scheduler'[v] = scheduler[v]
      /\ scheduler'[w].pc = "finish"
      /\ run' = run
  BY ScheduleTypes DEF Deliver, SchedulerAt, Idle
<1>3. /\ delivered'[i] = delivered[i] \/ delivered'[i] = delivered[i] + 1
      /\ \A u \in Minutes : u # i => delivered'[u] = delivered[u]
  BY <1>1, ScheduleTypes DEF Deliver
<1>4. Delivering(i) /\ ~Delivering(i)'
  <2>1. Delivering(i)
    BY <1>1 DEF Delivering
  <2>2. \A v \in Schedulers : ~(scheduler'[v].pc = "deliver" /\ scheduler'[v].id = i)
    BY <1>1, <1>2 DEF ScheduleInv, DeliveryInv
  <2> QED BY <2>1, <2>2 DEF Delivering
<1>5. t # i => (Delivering(t)' <=> Delivering(t))
  BY <1>1, <1>2 DEF Delivering
<1>6. CASE t = i
  <2>1. CASE delivered'[i] = delivered[i]
    BY <1>2, <1>4, <1>6, <2>1 DEF Delivering, RunJobs!Move, RunJobs!Abandons
  <2>2. CASE delivered'[i] = delivered[i] + 1
    BY <1>2, <1>4, <1>6, <2>2 DEF Delivering, RunJobs!Move, RunJobs!TakesEffect
  <2> QED BY <1>3, <2>1, <2>2
<1>7. CASE t # i
  BY <1>2, <1>3, <1>5, <1>7 DEF Delivering, RunJobs!Move, RunJobs!Rests
<1> QED BY <1>6, <1>7

(* A trigger's runs implement the job queue, for any number of schedulers  *)
(* and any leases: whatever a scheduler does after a pause, a run goes the *)
(* way of a job, one is under way, and the permit to deliver it goes with  *)
(* its start (admit_turn, defer, finish_update, finish_claimed).           *)
THEOREM RunsImplementJobQueue == ScheduleSpec => RunsAreJobs
<1>1. ScheduleInit => RunJobs!Init
  <2> SUFFICES ASSUME ScheduleInit PROVE RunJobs!Init
    OBVIOUS
  <2>1. \A t \in Minutes : PhaseOf(run[t]) = "absent"
    BY DEF ScheduleInit, PhaseOf
  <2>2. \A t \in Minutes : ~Delivering(t)
    BY DEF ScheduleInit, Delivering, Idle
  <2> QED BY <2>1, <2>2 DEF RunJobs!Init, ScheduleInit, Delivering
<1>2. ScheduleInv /\ ScheduleInv' /\ [ScheduleNext]_scheduleVars
          => [RunJobs!Next]_(RunJobs!jobVars)
  <2> SUFFICES ASSUME ScheduleInv, ScheduleInv', [ScheduleNext]_scheduleVars
               PROVE  RunJobs!Next
    OBVIOUS
  <2>1. ASSUME NEW t \in Minutes PROVE RunJobs!Move(t)
    <3>1. ASSUME NobodyAdmitted, UNCHANGED <<run, delivered>> PROVE RunJobs!Move(t)
      BY <3>1, ForwardMoves DEF GoesForward
    <3>2. ASSUME NEW w \in Schedulers, SchedulerStep(w) \/ Stop(w) PROVE RunJobs!Move(t)
      <4>1. CASE \/ \E i \in 0 .. MaxMinute : ClaimWork(w, i)
                 \/ ClaimOwnRun(w) \/ ReadRun(w) \/ ReadTrigger(w) \/ AdmitRefused(w)
                 \/ PauseTarget(w) \/ FinishRecord(w) \/ Stop(w)
        BY <3>1, <4>1, ReadersAdmitNobody
      <4>2. CASE ClaimOccurrence(w) \/ Defer(w) \/ Finish(w) \/ FinishClaimed(w)
        BY <4>2, WritersGoForward, ForwardMoves
      <4>3. CASE Admit(w)
        BY <4>3, AdmitStarts
      <4>4. CASE Deliver(w)
        BY <4>4, DeliverTakesEffect
      <4> QED BY <3>2, <4>1, <4>2, <4>3, <4>4 DEF SchedulerStep
    <3>3. CASE RunNow \/ UpdateTrigger \/ DeleteTrigger \/ ScheduleTick
               \/ UNCHANGED scheduleVars
      BY <3>3, OthersGoForward, ForwardMoves
    <3> QED BY <3>2, <3>3 DEF ScheduleNext
  <2>2. RunJobs!Cardinality(RunJobs!UnderWay') <= 1
    <3> DEFINE S == RunJobs!UnderWay'
    <3>1. \A t \in S : t \in Minutes /\ run'[t] # NoRun /\ run'[t].outcome = "started"
      BY DEF RunJobs!UnderWay, PhaseOf
    <3>2. \A t, u \in S : t = u
      BY <3>1 DEF ScheduleInv, StartedInv
    <3> HIDE DEF S
    <3>3. S = {} \/ \E t : S = {t}
      BY <3>2
    <3>4. Cardinality(S) <= 1
      <4>1. CASE S = {}
        BY <4>1, FS_EmptySet
      <4>2. ASSUME NEW t, S = {t} PROVE Cardinality(S) <= 1
        BY <4>2, FS_Singleton
      <4> QED BY <3>3, <4>1, <4>2
    <3>5. RunJobs!Cardinality(S) = Cardinality(S)
      BY Zenon DEF RunJobs!Cardinality, Cardinality
    <3> QED BY <3>4, <3>5 DEF S
  <2> QED BY <2>1, <2>2 DEF RunJobs!Next
<1> QED BY <1>1, <1>2, ScheduleInvariant, PTL DEF ScheduleSpec, RunsAreJobs, RunJobs!Spec

(* What the permits stand for.                                             *)
PermitInv(t) == /\ PhaseOf(run[t]) \in {"absent", "waiting"} => ~Delivering(t) /\ delivered[t] = 0
                /\ Delivering(t) => delivered[t] = 0
                /\ delivered[t] \in {0, 1}

(* The promise of the job queue is enough: whatever implements it brings   *)
(* about the effect of a job once at most, which for a trigger's runs is   *)
(* DeliveredOnce.                                                          *)
THEOREM JobsTakeEffectOnce == RunJobs!Spec => []RunJobs!AtMostOnce
<1> DEFINE J == \A t \in Minutes : PermitInv(t)
<1>1. RunJobs!Init => J
  <2> SUFFICES ASSUME RunJobs!Init, NEW t \in Minutes PROVE PermitInv(t)
    OBVIOUS
  <2>1. /\ [u \in Minutes |-> Delivering(u)] = [u \in Minutes |-> FALSE]
        /\ delivered = [u \in Minutes |-> 0]
    BY DEF RunJobs!Init, Delivering
  <2>2. [u \in Minutes |-> Delivering(u)][t] = Delivering(t)
    OBVIOUS
  <2> QED BY <2>1, <2>2 DEF PermitInv
<1>2. J /\ [RunJobs!Next]_(RunJobs!jobVars) => J'
  <2> SUFFICES ASSUME J, [RunJobs!Next]_(RunJobs!jobVars), NEW t \in Minutes
               PROVE  PermitInv(t)'
    OBVIOUS
  <2>1. RunJobs!Move(t) \/ UNCHANGED RunJobs!jobVars
    BY DEF RunJobs!Next
  <2>2. PermitInv(t)
    OBVIOUS
  <2>3. CASE RunJobs!Rests(t) \/ RunJobs!Enters(t)
    BY <2>2, <2>3 DEF RunJobs!Rests, RunJobs!Enters, PermitInv, Delivering
  <2>4. CASE RunJobs!Starts(t)
    BY <2>2, <2>4 DEF RunJobs!Starts, PermitInv, Delivering
  <2>5. CASE RunJobs!TakesEffect(t)
    BY <2>2, <2>5 DEF RunJobs!TakesEffect, PermitInv, Delivering
  <2>6. CASE RunJobs!Returns(t) \/ RunJobs!Ends(t) \/ RunJobs!Abandons(t)
    BY <2>2, <2>6 DEF RunJobs!Returns, RunJobs!Ends, RunJobs!Abandons, PermitInv, Delivering
  <2>7. CASE UNCHANGED RunJobs!jobVars
    <3>1. RunJobs!Rests(t)
      BY <2>7 DEF RunJobs!jobVars, RunJobs!Rests
    <3> QED BY <2>3, <3>1
  <2> QED BY <2>1, <2>3, <2>4, <2>5, <2>6, <2>7 DEF RunJobs!Move
<1>3. J => RunJobs!AtMostOnce
  BY DEF PermitInv, RunJobs!AtMostOnce
<1> QED BY <1>1, <1>2, <1>3, PTL DEF RunJobs!Spec

-----------------------------------------------------------------------------
(* The parts side by side.                                                 *)

\* Whichever part a behaviour uses, every document keeps its type: no step of
\* an admission, a device event or a trigger writes what the code cannot read
\* back.
THEOREM InboundIsTyped == InboundSpec => []InboundTypeOK
<1> DEFINE All == Inv /\ ForwardInv /\ ScheduleInv
<1>1. InboundInit => All
  BY InitInv, ForwardInitInv, ScheduleInitInv DEF InboundInit
<1>2. All /\ [InboundNext]_inboundVars => All'
  <2> SUFFICES ASSUME All, [InboundNext]_inboundVars PROVE All'
    OBVIOUS
  <2>1. [Next]_vars /\ [ForwardNext]_forwardVars /\ [ScheduleNext]_scheduleVars
    BY DEF InboundNext, inboundVars
  <2> QED BY <2>1, InvInductive, ForwardInductive, ScheduleInductive
<1>3. All => InboundTypeOK
  BY DEF Inv, ForwardInv, ScheduleInv, InboundTypeOK
<1> QED BY <1>1, <1>2, <1>3, PTL DEF InboundSpec
=============================================================================
