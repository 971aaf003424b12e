---------------------------- MODULE TokenBucket ----------------------------
(***************************************************************************)
(* TokenBucketStore of services/coordination_service.rs: one document per  *)
(* key, refilled and charged in a single update, and removed by MongoDB's  *)
(* TTL monitor some time after it was last used.  A missing document is a  *)
(* full bucket, so its removal must not give tokens away.                  *)
(*                                                                         *)
(* One key under one policy.  $$NOW is the primary's clock; it does not go *)
(* back here.  A tick is a millisecond.                                    *)
(***************************************************************************)
EXTENDS Integers

CONSTANTS Scale,         \* TOKEN_SCALE: units of one token
          Burst,         \* tokens of a full bucket
          Refill,        \* refill_units_per_ms, after the division
          MinRetention,  \* the floor of the retention, 1000 ms
          NoBucket,
          MaxNow         \* bound: how long the clock runs

\* Zero rates are refused before the store is asked, and so is a refill that
\* rounds to zero.
ASSUME TokenBucketAssumption ==
    /\ Scale \in Nat \ {0} /\ Burst \in Nat \ {0} /\ Refill \in Nat \ {0}
    /\ MinRetention \in Nat \ {0} /\ MaxNow \in Nat
    /\ NoBucket \notin [tokens : Nat, at : Nat, expires : Nat]

VARIABLES bucket,  \* the document: tokens_millis, last_refill_at, expires_at
          now,
          used     \* history: used[s], tokens granted at time s or later

bucketVars == <<bucket, now, used>>

Times == 0 .. MaxNow
Capacity == Burst * Scale
Bucket == [tokens : 0 .. Capacity, at : Times, expires : Nat]

BucketTypeOK == /\ bucket \in Bucket \cup {NoBucket}
                /\ bucket # NoBucket => bucket.at <= now
                /\ now \in Times
                /\ used \in [Times -> Nat]

BucketInit == /\ bucket = NoBucket
              /\ now = 0
              /\ used = [s \in Times |-> 0]

-----------------------------------------------------------------------------
\* Milliseconds until n units have flowed in.
Millis(n) == (n + Refill - 1) \div Refill

\* retention_ms: twice the time an empty bucket needs to fill.
Retention == 2 * (IF Millis(Capacity) > MinRetention THEN Millis(Capacity) ELSE MinRetention)

\* __available
Available ==
    IF bucket = NoBucket \/ bucket.tokens + (now - bucket.at) * Refill >= Capacity
    THEN Capacity
    ELSE bucket.tokens + (now - bucket.at) * Refill

\* slip: last_refill_at is written on insert only
UpdatedUnstamped(tokens) ==
    [tokens |-> tokens, at |-> IF bucket = NoBucket THEN now ELSE bucket.at,
     expires |-> now + Retention]
\* The update: refilled to now, and charged when there is a token.
Updated(tokens) == [tokens |-> tokens, at |-> now, expires |-> now + Retention]

Allow == /\ Available >= Scale
         /\ bucket' = Updated(Available - Scale)
         /\ used' = [s \in Times |-> IF s <= now THEN used[s] + 1 ELSE used[s]]
         /\ UNCHANGED now

Deny == /\ Available < Scale
        /\ bucket' = Updated(Available)
        /\ UNCHANGED <<now, used>>

\* MongoDB's TTL monitor.
BucketReap == /\ bucket # NoBucket
              /\ bucket.expires <= now
              /\ bucket' = NoBucket
              /\ UNCHANGED <<now, used>>

BucketTick == /\ now < MaxNow
              /\ now' = now + 1
              /\ UNCHANGED <<bucket, used>>

BucketNext == Allow \/ Deny \/ BucketReap \/ BucketTick

BucketSpec == BucketInit /\ [][BucketNext]_bucketVars

-----------------------------------------------------------------------------
(* Properties. *)

\* From any moment on, at most a full bucket and what flowed in since then is
\* granted, across idle times, refusals and removals of the document.
RateBound == \A s \in 0 .. now : Scale * used[s] <= Capacity + Refill * (now - s)

\* The document is only removed when it stands for a full bucket already.
ReapIsInvisible == [][BucketReap => Available = Capacity]_bucketVars

=============================================================================
