--------------------------- MODULE TelegramPoller ---------------------------
(***************************************************************************)
(* services/telegram_poller.rs: every replica runs run_polling_loop, the   *)
(* "telegram-poller" lease elects the one that calls getUpdates, and its   *)
(* offset lives in the lease's checkpoint.  ClusterLeaseRuntime            *)
(* ::run_while_renewed polls the leader's work together with a renewal     *)
(* timer and drops the work when a renewal fails.  Dropping a future does  *)
(* not recall a command that is already on its way to MongoDB.             *)
(*                                                                         *)
(* Telegram (external) numbers the updates; getUpdates(offset) confirms,   *)
(* and so forgets, every update below offset.                              *)
(***************************************************************************)
EXTENDS LeaseDocument, FiniteSets

CONSTANTS NoLease,     \* a replica that holds no LeaseToken
          MaxUpdates,  \* bound: how many updates users send
          MaxInFlight  \* bound: checkpoint writes that outlive their caller

ASSUME PollerAssumption == /\ NoLease \notin LeaseIds
                           /\ MaxUpdates \in Nat
                           /\ MaxInFlight \in Nat
                           /\ Checkpoints = 1 .. (MaxUpdates + 1)

Updates == 1 .. MaxUpdates

VARIABLES lease,      \* the telegram-poller lease document, or Absent
          pc,         \* where each replica's loop is
          grant,      \* the lease_id of its LeaseToken, or NoLease
          offset,     \* its next getUpdates offset; 0 is None
          head, last, \* head..last are the fetched updates not yet handled
          inFlight,   \* checkpoint writes whose caller was cancelled
          sent,       \* Telegram: updates 1..sent exist
          confirmed,  \* Telegram: updates below this were confirmed
          processed,  \* updates that process_update has handled
          stale       \* history: updates handled since the lease was lost

vars == <<lease, pc, grant, offset, head, last, inFlight, sent, confirmed,
          processed, stale>>
batchVars == <<offset, head, last>>
telegramVars == <<sent, confirmed>>
historyVars == <<processed, stale>>

\* Where a leader can be: delete_webhook and load_checkpoint, getUpdates,
\* process_update, store_checkpoint.  Then release, one command at a time.
Leading == {"start", "poll", "process", "store"}
Releasing == {"delete", "expire"}

TypeOK == /\ lease \in Document \cup {Absent}
          /\ pc \in [Holders -> Leading \cup Releasing \cup {"idle"}]
          /\ grant \in [Holders -> LeaseIds \cup {NoLease}]
          /\ offset \in [Holders -> 0 .. (MaxUpdates + 1)]
          /\ head \in [Holders -> 1 .. (MaxUpdates + 1)]
          /\ last \in [Holders -> 0 .. MaxUpdates]
          /\ inFlight \in SUBSET [token : LeaseToken, checkpoint : Checkpoints]
          /\ sent \in 0 .. MaxUpdates
          /\ confirmed \in 1 .. (MaxUpdates + 1)
          /\ processed \in SUBSET Updates
          /\ stale \in [Holders -> Nat]

Init == /\ lease = Absent
        /\ pc = [r \in Holders |-> "idle"]
        /\ grant = [r \in Holders |-> NoLease]
        /\ offset = [r \in Holders |-> 0]
        /\ head = [r \in Holders |-> 1]
        /\ last = [r \in Holders |-> 0]
        /\ inFlight = {}
        /\ sent = 0
        /\ confirmed = 1
        /\ processed = {}
        /\ stale = [r \in Holders |-> 0]

Token(r) == [holder |-> r, lease_id |-> grant[r]]
Leads(r) == Active(lease, Token(r))

\* A new uuid equals no id that is in use anywhere.
FreeIds == {i \in LeaseIds : /\ lease # Absent => lease.lease_id # i
                             /\ \A r \in Holders : grant[r] # i
                             /\ \A m \in inFlight : m.token.lease_id # i}

\* A slip: an offset that is one too far confirms an update unseen.
NextOffsetTooFar(u) == u + 2

\* next_offset = update_id.saturating_add(1); ids stay far below i64::MAX.
NextOffset(u) == u + 1

Goto(r, label) == pc' = [pc EXCEPT ![r] = label]

\* The task forgets its leadership: the loop's locals go out of scope.
Forget(r) == /\ grant' = [grant EXCEPT ![r] = NoLease]
             /\ offset' = [offset EXCEPT ![r] = 0]
             /\ head' = [head EXCEPT ![r] = 1]
             /\ last' = [last EXCEPT ![r] = 0]
             /\ stale' = [stale EXCEPT ![r] = 0]

-----------------------------------------------------------------------------
\* run_polling_loop: runtime.acquire claims a free lease.  When its answer is
\* an error or is lost, the loop waits and the lease stays with nobody.
Elect(r) ==
    \E i \in FreeIds :
        /\ pc[r] = "idle"
        /\ Claimable(lease)
        /\ lease' = Claimed(lease, [holder |-> r, lease_id |-> i])
        /\ grant' = [grant EXCEPT ![r] = i]
        /\ Goto(r, "start")
        /\ UNCHANGED <<batchVars, inFlight, telegramVars, historyVars>>

ElectionAnswerLost(r) ==
    \E i \in FreeIds :
        /\ pc[r] = "idle"
        /\ Claimable(lease)
        /\ lease' = Claimed(lease, [holder |-> r, lease_id |-> i])
        /\ UNCHANGED <<pc, grant, batchVars, inFlight, telegramVars,
                       historyVars>>

\* run_as_polling_leader: delete_webhook, then load_checkpoint.
Start(r) ==
    /\ pc[r] = "start"
    /\ offset' = [offset EXCEPT ![r] =
                     IF Loaded(lease, Token(r)) = NoCheckpoint THEN 0
                     ELSE Loaded(lease, Token(r))]
    /\ Goto(r, "poll")
    /\ UNCHANGED <<lease, grant, head, last, inFlight, telegramVars,
                   historyVars>>

\* getUpdates confirms what is below the offset and returns what follows, at
\* most a batch of it; an empty answer or an error is simply polled again.
Poll(r) ==
    LET from == IF offset[r] > confirmed THEN offset[r] ELSE confirmed IN
    /\ pc[r] = "poll"
    /\ from <= sent
    /\ confirmed' = from
    /\ head' = [head EXCEPT ![r] = from]
    /\ \E to \in from .. sent : last' = [last EXCEPT ![r] = to]
    /\ Goto(r, "process")
    /\ UNCHANGED <<lease, grant, offset, inFlight, sent, historyVars>>

PollEmpty(r) ==
    LET from == IF offset[r] > confirmed THEN offset[r] ELSE confirmed IN
    /\ pc[r] = "poll"
    /\ from > sent
    /\ confirmed' = from
    /\ UNCHANGED <<lease, pc, grant, batchVars, inFlight, sent, historyVars>>

\* process_update handles one update; nothing here looks at the lease.
Process(r) ==
    /\ pc[r] = "process"
    /\ processed' = processed \cup {head[r]}
    /\ stale' = [stale EXCEPT ![r] = IF Leads(r) THEN @ ELSE @ + 1]
    /\ Goto(r, "store")
    /\ UNCHANGED <<lease, grant, batchVars, inFlight, telegramVars>>

\* A slip: the loop does not return when store_checkpoint reports a lost lease.
StoreIgnoringLoss(r) ==
    /\ pc[r] = "store"
    /\ lease' = IF Leads(r) THEN Stored(lease, NextOffset(head[r])) ELSE lease
    /\ offset' = [offset EXCEPT ![r] = NextOffset(head[r])]
    /\ head' = [head EXCEPT ![r] = @ + 1]
    /\ Goto(r, IF head[r] = last[r] THEN "poll" ELSE "process")
    /\ UNCHANGED <<grant, last, inFlight, telegramVars, historyVars>>

\* store_checkpoint(next_offset): on false the leader returns.
Store(r) ==
    /\ pc[r] = "store"
    /\ \/ /\ Leads(r)
          /\ lease' = Stored(lease, NextOffset(head[r]))
          /\ offset' = [offset EXCEPT ![r] = NextOffset(head[r])]
          /\ head' = [head EXCEPT ![r] = @ + 1]
          /\ Goto(r, IF head[r] = last[r] THEN "poll" ELSE "process")
       \/ /\ ~Leads(r)
          /\ Goto(r, "delete")
          /\ UNCHANGED <<lease, offset, head>>
    /\ UNCHANGED <<grant, last, inFlight, telegramVars, historyVars>>

-----------------------------------------------------------------------------
\* The leader's future ends: it returned an error, or it was dropped.  A
\* store_checkpoint that was being awaited may still reach the server.
Abandon(r) ==
    \/ UNCHANGED inFlight
    \/ /\ pc[r] = "store"
       /\ Cardinality(inFlight) < MaxInFlight
       /\ inFlight' = inFlight \cup
                        {[token |-> Token(r), checkpoint |-> NextOffset(head[r])]}

\* delete_webhook, load_checkpoint or store_checkpoint answered an error.
Fail(r) ==
    /\ pc[r] \in {"start", "store"}
    /\ Abandon(r)
    /\ Goto(r, "delete")
    /\ UNCHANGED <<lease, grant, batchVars, telegramVars, historyVars>>

\* run_while_renewed: the renewal timer fires and the term is extended ...
Renew(r) ==
    /\ pc[r] \in Leading
    /\ Leads(r)
    /\ lease' = Renewed(lease)
    /\ UNCHANGED <<pc, grant, batchVars, inFlight, telegramVars, historyVars>>

\* A slip: Ok(false) keeps the work going, only an error ends it.
RenewFailsOnError(r) ==
    /\ pc[r] \in Leading
    /\ Leads(r)
    /\ lease' \in {lease, Renewed(lease)}
    /\ Abandon(r)
    /\ Goto(r, "delete")
    /\ UNCHANGED <<grant, batchVars, telegramVars, historyVars>>

\* ... or the renewal matches nothing or errs, and the work is dropped; an
\* update whose handling had begun may be handled or not.
RenewFails(r) ==
    /\ pc[r] \in Leading
    /\ lease' \in {lease} \cup (IF Leads(r) THEN {Renewed(lease)} ELSE {})
    /\ Abandon(r)
    /\ Goto(r, "delete")
    /\ UNCHANGED <<grant, batchVars, telegramVars, historyVars>>

\* LeaseStore::release, its delete and its update; an error ends it early.
ReleaseDelete(r) ==
    /\ pc[r] = "delete"
    /\ \/ /\ Deletable(lease, Token(r))
          /\ lease' = Absent
          /\ Goto(r, "idle")
          /\ Forget(r)
       \/ /\ ~Deletable(lease, Token(r))
          /\ Goto(r, "expire")
          /\ UNCHANGED <<lease, grant, batchVars, stale>>
    /\ UNCHANGED <<inFlight, telegramVars, processed>>

ReleaseExpire(r) ==
    /\ pc[r] = "expire"
    /\ lease' = IF Expirable(lease, Token(r)) THEN Expired(lease) ELSE lease
    /\ Goto(r, "idle")
    /\ Forget(r)
    /\ UNCHANGED <<inFlight, telegramVars, processed>>

ReleaseFails(r) ==
    /\ pc[r] \in Releasing
    /\ Goto(r, "idle")
    /\ Forget(r)
    /\ UNCHANGED <<lease, inFlight, telegramVars, processed>>

\* The replica stops; after a restart its loop begins again.
Crash(r) ==
    /\ pc[r] # "idle"
    /\ Abandon(r)
    /\ Goto(r, "idle")
    /\ Forget(r)
    /\ UNCHANGED <<lease, telegramVars, processed>>

\* A write that outlived its caller is carried out, or was lost.
Land ==
    \E m \in inFlight :
        /\ lease' \in {lease} \cup (IF Active(lease, m.token)
                                    THEN {Stored(lease, m.checkpoint)} ELSE {})
        /\ inFlight' = inFlight \ {m}
        /\ UNCHANGED <<pc, grant, batchVars, telegramVars, historyVars>>

-----------------------------------------------------------------------------
Tick ==
    /\ lease # Absent
    /\ lease.left > 0
    /\ lease' = Aged(lease)
    /\ UNCHANGED <<pc, grant, batchVars, inFlight, telegramVars, historyVars>>

Reap ==
    /\ Reapable(lease)
    /\ lease' = Absent
    /\ UNCHANGED <<pc, grant, batchVars, inFlight, telegramVars, historyVars>>

\* A user writes to the bot.
Arrive ==
    /\ sent < MaxUpdates
    /\ sent' = sent + 1
    /\ UNCHANGED <<lease, pc, grant, batchVars, inFlight, confirmed,
                   historyVars>>

Step(r) == \/ Elect(r) \/ ElectionAnswerLost(r)
           \/ Start(r) \/ Poll(r) \/ PollEmpty(r) \/ Process(r) \/ Store(r)
           \/ Fail(r) \/ Renew(r) \/ RenewFails(r)
           \/ ReleaseDelete(r) \/ ReleaseExpire(r) \/ ReleaseFails(r)
           \/ Crash(r)

Next == \/ \E r \in Holders : Step(r)
        \/ Land \/ Tick \/ Reap \/ Arrive

Spec == Init /\ [][Next]_vars

(* Fairness.  The clock and the renewal timers run: a replica that lost    *)
(* its lease learns so, and issues the commands of its release.  A         *)
(* replica that is elected again and again is not, every time, paused past *)
(* its lease at the same step: the term is several renewal intervals long  *)
(* and run_while_renewed renews beside the work.  A failure may precede    *)
(* any success, any number of times, but not each of them forever.         *)
Fairness ==
    /\ WF_vars(Tick)
    /\ \A r \in Holders :
        /\ WF_vars(ReleaseDelete(r) \/ ReleaseExpire(r))
        /\ WF_vars(~Leads(r) /\ RenewFails(r))
        /\ SF_vars(Elect(r))
        /\ SF_vars(Leads(r) /\ Start(r))
        /\ SF_vars(Leads(r) /\ Poll(r))
        /\ SF_vars(Leads(r) /\ Process(r))
        /\ SF_vars(Leads(r) /\ Store(r))

FairSpec == Spec /\ Fairness

-----------------------------------------------------------------------------
DurableOffset == IF lease = Absent \/ lease.checkpoint = NoCheckpoint
                 THEN 0 ELSE lease.checkpoint

\* Telegram is never told to forget an update that no replica has handled,
\* whoever was paused, cancelled or restarted in between.
NoUpdateLost == \A u \in Updates : u < confirmed => u \in processed

\* The durable offset only grows: no leader of the past moves it back and
\* no release or expiry drops it.
CheckpointMonotone == [][DurableOffset' >= DurableOffset]_vars

\* A replica that lost the lease without noticing handles at most one more
\* update: the next fenced checkpoint write ends its loop.
OneStaleUpdate == \A r \in Holders : stale[r] <= 1

\* A replica that was deposed without noticing does no lasting harm: it
\* repeats one update at most and never moves the durable offset back
\* (telegram_poller.rs, store_checkpoint's fence).
DeposedLeaderIsHarmless == [][DurableOffset' >= DurableOffset /\ OneStaleUpdate']_vars

\* Every update is handled in the end.
EveryUpdateHandled == \A u \in Updates : (u <= sent) ~> (u \in processed)
=============================================================================
