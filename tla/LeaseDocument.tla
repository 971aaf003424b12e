--------------------------- MODULE LeaseDocument ---------------------------
(***************************************************************************)
(* One document of the coordination_leases collection and what each        *)
(* operation of LeaseStore (services/coordination_service.rs) does to it.  *)
(* Every operation is one MongoDB command, so one operator here; the       *)
(* modules that use them give the order in which callers issue them.       *)
(*                                                                         *)
(* The filters compare expires_at with the server's own $$NOW, so only     *)
(* their distance matters.  The document therefore keeps                   *)
(* left = expires_at - $$NOW, 0 once the lease expired, and Aged is one    *)
(* tick of the server's clock.                                             *)
(***************************************************************************)
EXTENDS Naturals

CONSTANTS Holders,      \* CoordinationHolder values: (instance, generation)
          LeaseIds,     \* the uuids an acquisition draws from
          Checkpoints,  \* what a holder may store with the lease
          NoCheckpoint, \* the checkpoint field does not exist
          Absent,       \* the collection has no document of this name
          TTL           \* ClusterLeaseRuntime::ttl, in clock ticks

Document == [holder : Holders, lease_id : LeaseIds, left : 0 .. TTL,
             record_kind : {"ephemeral", "checkpoint"},
             checkpoint : Checkpoints \cup {NoCheckpoint}]

\* The LeaseToken an acquisition hands to its caller (the name is fixed).
LeaseToken == [holder : Holders, lease_id : LeaseIds]

ASSUME TTLAssumption == TTL \in Nat \ {0}

ASSUME SentinelAssumption == /\ Absent \notin Document
                             /\ NoCheckpoint \notin Checkpoints

-----------------------------------------------------------------------------
(* Slips the code could have made in a filter or a pipeline.  The          *)
(* properties of LeaseStore and TelegramPoller are broken by each of them. *)

ActiveIgnoringExpiry(d, t) ==
    d # Absent /\ d.holder = t.holder /\ d.lease_id = t.lease_id

ClaimedWithoutKind(d, t) ==
    [holder |-> t.holder, lease_id |-> t.lease_id, left |-> TTL,
     record_kind |-> IF d = Absent THEN "null" ELSE d.record_kind,
     checkpoint |-> IF d = Absent THEN NoCheckpoint ELSE d.checkpoint]

StoredKeepingKind(d, c) == [d EXCEPT !.checkpoint = c]

-----------------------------------------------------------------------------
\* duration_millis and date_add_now: the new expires_at, seen from $$NOW.
FullTerm == TTL

\* exact_lease_filter: the document still carries this token's grant.
Exact(d, t) == d # Absent /\ d.holder = t.holder /\ d.lease_id = t.lease_id

\* active_lease_filter: the grant is carried and expires_at > $$NOW.
Active(d, t) == Exact(d, t) /\ d.left > 0

\* acquire's __claimable: no document, or expires_at <= $$NOW.
Claimable(d) == d # Absent => d.left = 0

\* What acquire's upsert pipeline leaves: a claim keeps kind and checkpoint.
Claimed(d, t) ==
    [holder |-> t.holder, lease_id |-> t.lease_id, left |-> FullTerm,
     record_kind |-> IF d = Absent THEN "ephemeral" ELSE d.record_kind,
     checkpoint |-> IF d = Absent THEN NoCheckpoint ELSE d.checkpoint]

Renewed(d) == [d EXCEPT !.left = FullTerm]

\* release: its delete_one matches only a document without a checkpoint ...
Deletable(d, t) == Exact(d, t) /\ d.checkpoint = NoCheckpoint

\* ... and its update_one only one with a checkpoint, which it expires.
Expirable(d, t) == Exact(d, t) /\ d.checkpoint # NoCheckpoint
Expired(d) == [d EXCEPT !.left = 0]

\* load_checkpoint: None when the token is not active, or nothing is stored.
Loaded(d, t) == IF Active(d, t) THEN d.checkpoint ELSE NoCheckpoint

Stored(d, c) == [d EXCEPT !.checkpoint = c, !.record_kind = "checkpoint"]

\* The TTL index of ensure_indexes is partial: it covers ephemeral records.
Reapable(d) == d # Absent /\ d.left = 0 /\ d.record_kind = "ephemeral"

\* One tick of $$NOW.
Aged(d) == [d EXCEPT !.left = @ - 1]
=============================================================================
