----------------------------- MODULE EventDedup -----------------------------
(***************************************************************************)
(* EventDedupStore of services/coordination_service.rs: one document per   *)
(* event, claimed under a fresh claim id, then committed or released by    *)
(* that id.  Its users differ in what they do between claim and commit.    *)
(*                                                                         *)
(* An expired document is claimable, invisible to is_committed, and        *)
(* refused by renew and commit, exactly like a missing one; deleting it    *)
(* changes nothing.  Both are NoRecord, and Aged is the expiry.            *)
(***************************************************************************)
EXTENDS Naturals

CONSTANTS Claims,    \* claim ids: a uuid is drawn once per request
          NoRecord,
          ClaimTTL,  \* life of a claim, in ticks
          CommitTTL  \* life of a committed record, in ticks

ASSUME EventDedupAssumption ==
    /\ ClaimTTL \in Nat \ {0} /\ CommitTTL \in Nat \ {0}
    /\ NoRecord \notin [claim: Claims, state: {"claimed", "committed"}, ttl: Nat]

Record == [claim: Claims, state: {"claimed", "committed"}, ttl: Nat \ {0}]

\* The upsert of claim(): it takes a missing or expired document.
Claimed(c) == [claim |-> c, state |-> "claimed", ttl |-> ClaimTTL]

\* The filter of renew, commit and release.
ClaimedBy(r, c) == r # NoRecord /\ r.claim = c /\ r.state = "claimed"

Committed(r) == [r EXCEPT !.state = "committed", !.ttl = CommitTTL]

\* slip: the document is deleted by its key alone
ReleasedByKey(r, c) == NoRecord
\* release: delete_one on the filter.
Released(r, c) == IF ClaimedBy(r, c) THEN NoRecord ELSE r

\* slip: any live document counts
IsKnown(r) == r # NoRecord
\* is_committed
IsCommitted(r) == r # NoRecord /\ r.state = "committed"

\* One tick of the server clock: a document is live while $expires_at > $$NOW.
Aged(r) == IF r = NoRecord \/ r.ttl <= 1 THEN NoRecord ELSE [r EXCEPT !.ttl = @ - 1]
=============================================================================
