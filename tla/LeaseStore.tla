----------------------------- MODULE LeaseStore -----------------------------
(***************************************************************************)
(* The renewable, fenced lease of services/coordination_service.rs under   *)
(* its most general client: a token that was ever handed out may be used   *)
(* at any time, by an owner that was paused past its expiry, by a request  *)
(* that was already on the wire when its future was cancelled, or by a     *)
(* retry.  The lease must hold its promise against all of them.            *)
(***************************************************************************)
EXTENDS LeaseDocument

CONSTANT MaxGrants  \* bound: how many acquisitions succeed

ASSUME IdsAssumption == /\ MaxGrants \in Nat
                        /\ LeaseIds = 1 .. MaxGrants

VARIABLES lease,     \* the document, or Absent
          grants,    \* how many ids were drawn; a uuid is never drawn twice
          tokens,    \* the LeaseTokens that were handed out
          releasing, \* tokens whose release found nothing to delete
          author     \* history: the id that stored the present checkpoint

vars == <<lease, grants, tokens, releasing, author>>

TypeOK == /\ lease \in Document \cup {Absent}
          /\ grants \in 0 .. MaxGrants
          /\ tokens \in SUBSET LeaseToken
          /\ releasing \in SUBSET tokens
          /\ author \in 0 .. MaxGrants

Init == /\ lease = Absent
        /\ grants = 0
        /\ tokens = {}
        /\ releasing = {}
        /\ author = 0

-----------------------------------------------------------------------------
\* acquire: the upsert claims a free document under a fresh lease id.
Acquire(h) ==
    LET t == [holder |-> h, lease_id |-> grants + 1] IN
    /\ grants < MaxGrants
    /\ Claimable(lease)
    /\ lease' = Claimed(lease, t)
    /\ grants' = grants + 1
    /\ tokens' = tokens \cup {t}
    /\ UNCHANGED <<releasing, author>>

\* renew: extends an active grant; it matches nothing once the grant expired.
Renew(t) ==
    /\ Active(lease, t)
    /\ lease' = Renewed(lease)
    /\ UNCHANGED <<grants, tokens, releasing, author>>

\* release, first command: the document is deleted, or the second is tried.
ReleaseDelete(t) ==
    /\ IF Deletable(lease, t)
       THEN lease' = Absent /\ UNCHANGED releasing
       ELSE releasing' = releasing \cup {t} /\ UNCHANGED lease
    /\ UNCHANGED <<grants, tokens, author>>

\* release, second command: a document with a checkpoint is only expired.
ReleaseExpire(t) ==
    /\ t \in releasing
    /\ lease' = IF Expirable(lease, t) THEN Expired(lease) ELSE lease
    /\ releasing' = releasing \ {t}
    /\ UNCHANGED <<grants, tokens, author>>

\* store_checkpoint: one update under the active filter.
StoreCheckpoint(t, c) ==
    /\ Active(lease, t)
    /\ lease' = Stored(lease, c)
    /\ author' = t.lease_id
    /\ UNCHANGED <<grants, tokens, releasing>>

\* MongoDB's TTL monitor removes an expired ephemeral document.
Reap ==
    /\ Reapable(lease)
    /\ lease' = Absent
    /\ UNCHANGED <<grants, tokens, releasing, author>>

\* The server's clock advances.
Tick ==
    /\ lease # Absent
    /\ lease.left > 0
    /\ lease' = Aged(lease)
    /\ UNCHANGED <<grants, tokens, releasing, author>>

TokenStep(t) == \/ Renew(t)
                \/ ReleaseDelete(t)
                \/ ReleaseExpire(t)
                \/ \E c \in Checkpoints : StoreCheckpoint(t, c)

Next == \/ \E h \in Holders : Acquire(h)
        \/ \E t \in tokens : TokenStep(t)
        \/ Reap
        \/ Tick

Spec == Init /\ [][Next]_vars

-----------------------------------------------------------------------------
(* The refinement: the owner is the grant the document carries while it    *)
(* has not expired, the value is the checkpoint the document carries.      *)

Owner == IF lease # Absent /\ lease.left > 0 THEN lease.lease_id ELSE 0

StoredValue == IF lease = Absent THEN NoCheckpoint ELSE lease.checkpoint

Fenced == INSTANCE FencedLease
              WITH Values <- Checkpoints, NoValue <- NoCheckpoint,
                   grants <- grants, owner <- Owner,
                   value <- StoredValue, author <- author

\* The lease implements the fenced register: whatever paused, cancelled or
\* repeated callers do, an id whose lease expired or was released never owns
\* it again, only the owner's store_checkpoint changes the checkpoint, and
\* neither release nor the TTL index ever loses one.
FencedLeaseSpec == Fenced!Spec

\* A live lease ends only when its term runs out or when its own token is
\* released: no other caller's acquire, release or renewal takes it away.
NoEviction ==
    [][\A t \in tokens :
          Active(lease, t) /\ ~Active(lease', t) =>
              \/ Tick /\ lease.left = 1
              \/ ReleaseDelete(t)
              \/ ReleaseExpire(t)]_vars

\* A document the TTL index may remove carries no checkpoint: acquire keeps
\* record_kind, store_checkpoint sets it, and nothing else writes either.
ReapableHasNoCheckpoint ==
    lease # Absent =>
        (lease.record_kind = "checkpoint" <=> lease.checkpoint # NoCheckpoint)
=============================================================================
