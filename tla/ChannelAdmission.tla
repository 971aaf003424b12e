-------------------------- MODULE ChannelAdmission --------------------------
(***************************************************************************)
(* Admission of an inbound platform message                                *)
(* (services/channel_admission_service.rs).  The platform delivers a       *)
(* message at least once: by webhook (store) or through the Discord        *)
(* gateway connection of one replica (store_discord).  A dedup claim       *)
(* decides who admits it; one MongoDB transaction checks the gateway       *)
(* fence, the owner and the claim, commits the claim and inserts the       *)
(* metadata row.                                                           *)
(*                                                                         *)
(* Begin is the transaction up to its writes to the gateway lease, the bot *)
(* and the owner: from then on another session's write to one of them      *)
(* waits or conflicts and is run again.  End is the rest.  The claim       *)
(* document needs no such care: nobody else writes it before it expires,   *)
(* and an expired claim does not match.                                    *)
(*                                                                         *)
(* A bot is served by webhook or by gateway; deliveries of both kinds on   *)
(* one record are more than the program has, and every property holds of   *)
(* them too.                                                               *)
(***************************************************************************)
EXTENDS EventDedup

CONSTANTS Webhooks,   \* deliveries of the message by webhook
          Gateways,   \* its deliveries through the Discord gateway
          MaxLease,   \* bound: how often the gateway lease or its bot changes
          MaxFaults   \* bound: crashes and database errors

Deliveries == Webhooks \cup Gateways

ASSUME ChannelAdmissionAssumption ==
    /\ Webhooks \cap Gateways = {} /\ Claims = Deliveries
    /\ MaxLease \in Nat /\ MaxFaults \in Nat

VARIABLES record,  \* the message's dedup document
          stored,  \* metadata rows of the message
          owner,   \* "active", or "erased" from the accepted erasure on
          lease,   \* generation of gateway lease, bot owner and credential
          fence,   \* fence[d]: the generation the delivery was read under
          pc, answer,
          faults

vars == <<record, stored, owner, lease, fence, pc, answer, faults>>

\* Every variable has its type.
TypeOK ==
    /\ record \in Record \cup {NoRecord}
    /\ stored \in Nat
    /\ owner \in {"active", "erased"}
    /\ lease \in 0 .. MaxLease
    /\ fence \in [Deliveries -> 0 .. MaxLease]
    /\ pc \in [Deliveries -> {"idle", "begin", "end", "committed?", "release", "answered"}]
    /\ answer \in [Deliveries -> {"none", "stored", "skipped", "error"}]
    /\ faults \in 0 .. MaxFaults

Init ==
    /\ record = NoRecord /\ stored = 0 /\ owner = "active"
    /\ lease = 0 /\ fence = [d \in Deliveries |-> 0]
    /\ pc = [d \in Deliveries |-> "idle"]
    /\ answer = [d \in Deliveries |-> "none"]
    /\ faults = 0

Go(d, next) == pc' = [pc EXCEPT ![d] = next]
Answer(d, a) == answer' = [answer EXCEPT ![d] = a] /\ Go(d, "answered")

\* slip: the owner is read in the transaction, not written
OwnerOnlyRead == FALSE
\* Documents an open transaction has written.
OwnerLocked == \E d \in Deliveries : pc[d] = "end"
LeaseLocked == \E d \in Gateways : pc[d] = "end"

-----------------------------------------------------------------------------
\* A delivery arrives, through the gateway under the present lease, and claims.
\* A duplicate by webhook is skipped; through the gateway only if committed.
Claim(d) ==
    /\ pc[d] = "idle"
    /\ fence' = [fence EXCEPT ![d] = lease]
    /\ IF record = NoRecord
       THEN record' = Claimed(d) /\ Go(d, "begin") /\ UNCHANGED answer
       ELSE /\ UNCHANGED record
            /\ IF d \in Webhooks THEN Answer(d, "skipped")
               ELSE Go(d, "committed?") /\ UNCHANGED answer
    /\ UNCHANGED <<stored, owner, lease, faults>>

\* The transaction returns Ok(false): store skips, store_discord looks further.
NotAdmitted(d) ==
    IF d \in Webhooks THEN Answer(d, "skipped")
    ELSE Go(d, "committed?") /\ UNCHANGED answer

\* slip: the fence is not part of the transaction
FenceIgnored(d) == TRUE
\* Fence::touch: the lease, the bot's owner and its credential are unchanged.
FenceHolds(d) == d \in Gateways => fence[d] = lease

\* admit_fenced up to the writes to lease, bot and owner.
Begin(d) ==
    /\ pc[d] = "begin"
    /\ IF FenceHolds(d) /\ owner = "active"
       THEN /\ ~OwnerLocked
            /\ Go(d, "end") /\ UNCHANGED answer
       ELSE NotAdmitted(d)
    /\ UNCHANGED <<record, stored, owner, lease, fence, faults>>

\* slip: the metadata is inserted without looking for an earlier row
InsertedAlways(n) == n + 1
\* The row is inserted unless the message already has one.
Inserted(n) == IF n > 0 THEN n ELSE n + 1

\* The rest of admit_fenced: claim committed, row looked up and inserted.
End(d) ==
    /\ pc[d] = "end"
    /\ IF ClaimedBy(record, d)
       THEN /\ record' = Committed(record)
            /\ stored' = Inserted(stored)
            /\ IF stored' = stored THEN NotAdmitted(d) ELSE Answer(d, "stored")
       ELSE NotAdmitted(d) /\ UNCHANGED <<record, stored>>
    /\ UNCHANGED <<owner, lease, fence, faults>>

\* discord_committed: a live claim of somebody else is not delivery.
CheckCommitted(d) ==
    /\ pc[d] = "committed?"
    /\ IF IsCommitted(record)
       THEN Answer(d, "skipped")
       ELSE Go(d, "release") /\ UNCHANGED answer
    /\ UNCHANGED <<record, stored, owner, lease, fence, faults>>

\* The claim of a delivery that failed is released, if it is still its own.
Release(d) ==
    /\ pc[d] = "release"
    /\ record' = Released(record, d)
    /\ Answer(d, "error")
    /\ UNCHANGED <<stored, owner, lease, fence, faults>>

-----------------------------------------------------------------------------
\* Account closure or personal erasure is accepted.
Erase ==
    /\ owner = "active" /\ ~OwnerLocked
    /\ owner' = "erased"
    /\ UNCHANGED <<record, stored, lease, fence, pc, answer, faults>>

\* Another replica takes the gateway lease over, or the bot changes hands,
\* credential or relay.
MoveLease ==
    /\ lease < MaxLease /\ ~LeaseLocked
    /\ lease' = lease + 1
    /\ UNCHANGED <<record, stored, owner, fence, pc, answer, faults>>

Fault == faults < MaxFaults /\ faults' = faults + 1

\* The transaction reports an error: it was aborted, or its commit reached the
\* servers after all.  The claim is released either way.
TransactionFails(d) ==
    /\ Fault /\ pc[d] \in {"begin", "end"}
    /\ \/ UNCHANGED <<record, stored>>
       \/ /\ pc[d] = "end" /\ ClaimedBy(record, d)
          /\ record' = Committed(record)
          /\ stored' = Inserted(stored)
    /\ Go(d, "release")
    /\ UNCHANGED <<owner, lease, fence, answer>>

\* Any other command fails, taking effect or not; the error is returned.
CommandFails(d) ==
    /\ Fault
    /\ \/ pc[d] = "idle" /\ record = NoRecord /\ record' = Claimed(d)
       \/ pc[d] \in {"idle", "committed?", "release"} /\ UNCHANGED record
    /\ Answer(d, "error")
    /\ UNCHANGED <<stored, owner, lease, fence>>

\* The replica stops; an open transaction is aborted.
Crash(d) ==
    /\ Fault /\ pc[d] \notin {"idle", "answered"}
    /\ Go(d, "answered")
    /\ UNCHANGED <<record, stored, owner, lease, fence, answer>>

Tick ==
    /\ record # NoRecord
    /\ record' = Aged(record)
    /\ UNCHANGED <<stored, owner, lease, fence, pc, answer, faults>>

Next == \/ \E d \in Deliveries : \/ Claim(d) \/ Begin(d) \/ End(d) \/ CheckCommitted(d)
                                 \/ Release(d) \/ TransactionFails(d) \/ CommandFails(d)
                                 \/ Crash(d)
        \/ Erase \/ MoveLease \/ Tick

Spec == Init /\ [][Next]_vars

-----------------------------------------------------------------------------
(* Properties. *)

\* A message has at most one metadata row, however often it is delivered, also
\* when its claim was lost half-way or its record has expired.
OneRow == stored <= 1

\* The gateway's resume cursor moves past a message only when its row is
\* stored: neither a live claim of another delivery, nor a lost fence, nor a
\* failed transaction is taken for a delivery (store_discord).
GatewayAckIsStored ==
    \A d \in Gateways : answer[d] \in {"stored", "skipped"} => stored > 0

\* A message is stored exactly once by the time its gateway is told so: never
\* twice, and never acknowledged on the word of a delivery that may yet fail
\* (channel_admission_service.rs, store_discord).
StoredExactlyOnce == OneRow /\ GatewayAckIsStored

\* Once the erasure of the owner is accepted no row is stored any more, by a
\* delivery that was authenticated and had begun before it either.
NothingAfterErasure == [][stored' # stored => owner = "active"]_vars

\* A gateway connection whose lease, bot or credential was replaced stores
\* nothing, though its transaction had begun before the replacement.
StaleGatewayStoresNothing ==
    [][\A d \in Gateways :
          (answer[d] # "stored" /\ answer'[d] = "stored") => fence[d] = lease]_vars

\* A delivery that has lost its right to store, its owner being erased or its
\* gateway replaced, stores nothing, however far it had come (admit_fenced).
FencedOutStoresNothing ==
    [][/\ stored' # stored => owner = "active"
       /\ \A d \in Gateways :
            (answer[d] # "stored" /\ answer'[d] = "stored") => fence[d] = lease]_vars
=============================================================================
