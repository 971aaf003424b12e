# NyxID: models, model checking and proofs

NyxID is an identity and access gateway: a Rust backend (`src/backend`) that
runs as any number of equal replicas in front of one MongoDB deployment, with
a CLI, a node agent, a machine updater, SDKs and user interfaces around it.
Nothing but MongoDB is shared between replicas. Every promise the backend makes
across requests (one poller, one usable refresh token, so many replies at once,
each event once) therefore rests on conditional single-document writes, a few
transactions, the server's clock `$$NOW`, and TTL indexes that remove documents
behind everybody's back. That is the part which is hard to test, and the part
modelled here.

- [Inventory](#inventory)
- [Modules and the code](#modules-and-the-code)
- [Runs](#runs)
- [Fairness](#fairness)
- [Proofs](#proofs)
- [Where code and documentation disagree](#where-code-and-documentation-disagree)
- [What is not modelled](#what-is-not-modelled)
- [Plan](#plan)

## Inventory

Paths are below `src/backend/src`. "Hard" names what tests hardly reach.

| Component | State | Operations | Interaction | Hard | Correct means |
|---|---|---|---|---|---|
| Lease store (`services/coordination_service.rs`, `LeaseStore`) | one document per lease name: holder, lease id, expiry, checkpoint, kind | acquire, renew, release (two commands), load and store checkpoint; TTL removal | used by the poller, the Discord gateway, provider-token refresh and others | paused owners, commands that outlive their caller, retries, TTL removal | a generation that ended never writes again; a checkpoint is never lost |
| Lease runtime and Telegram poller (`ClusterLeaseRuntime`, `services/telegram_poller.rs`) | a loop per replica, the offset in the lease's checkpoint | election, renewal beside the work, getUpdates, handling, checkpoint, release | lease store, Telegram | loss of the lease while an update is handled, crash before the checkpoint | no update confirmed unhandled; the offset never goes back; every update handled in the end |
| First-party session tokens (`services/token_service.rs`) | session row, refresh-token rows linked by `replaced_by` | refresh (rotate, retry within grace, reuse detection), revoke session | handlers of the auth API | two requests with one token, lost answers, sign-out in between | one usable token, one chain, nothing issued after revocation |
| Cluster slots and direct-chat queue (`SlotStore`, `services/cluster_slot_service.rs`, `mw/rate_limit.rs`, `services/assistant_nyxagent_runtime.rs`) | slot documents of two pools per person, guards with renewal tasks | acquire loop, any_live, is_oldest_live, renew, release; try_acquire, admit, claim_slot, take_slot, wait_queued | the reply pipeline of the assistant | slot loops interleaving, claims that outlive their waiter, orphaned slots | capacity kept, first come first served, nobody waits forever |
| Event deduplication (`EventDedupStore`, `services/channel_event_service.rs`, `handlers/trigger_webhooks.rs`) | one document per event: claim id, state, expiry | claim, renew, commit, release, is_committed | device events, trigger ingress, channel admission | late release or commit, failure between claim and delivery | delivered once per window, failures do not suppress retries |
| Channel admission (`services/channel_admission_service.rs`, `services/discord_gateway/mod.rs`) | dedup document, metadata row, owner state, gateway lease, bot | store, store_discord, one transaction; erasure; lease takeover | event dedup, lease store | erasure or takeover during an admission, unknown commit outcome | one row per message, none after erasure, none from a stale gateway, the cursor never passes a message that is not stored |
| Token buckets (`TokenBucketStore`) | tokens, last refill, expiry | admit (one update pipeline); TTL removal | rate limits of agents, users, triggers, monitoring | removal of an idle bucket, rounding | the rate is bounded from every moment on |
| Rate windows, replay records (same file) | counters per window, consumed ids | admit, consume; TTL removal | request limits, DPoP and signed webhooks | boundaries of windows, removal of a window's document | bounded per window; no admission forgotten |
| Node ownership and dispatch (`services/node_owner_service.rs`, `node_ws_manager.rs`, `node_dispatch.rs`, `handlers/node_ws.rs`) | owner record per node; on each replica a connection map, a set-up lock, two sweeps | claim, register, renew, heartbeat, release, disconnect, delete; route, forward, send | node agents, proxy | reconnects, a socket of a replica whose ownership expired, lost disconnects | map and record agree; requests go to the owner; a socket that lost the node goes |
| Service concurrency (`services/service_concurrency_service.rs`) | policy, array of leases in a scope document, a renewal loop per call | claim, confirm, renew, release; TTL removal | proxy, pools | counting in a snapshot, late answers, expiry of the document | never more than the limit; slots come back |
| Approvals (`services/approval_service.rs`) | requests, grants, waiting calls, the mode of a service | check, create, wait, decide, roll back, switch mode, expire | proxy, Telegram, mobile | a decision racing expiry and changes of mode | one call per approval, decisions stand, expiry told once, every call ends |
| OAuth server (`services/oauth_service.rs`, `consent_service.rs`, `incremental_consent_service.rs`, `handlers/oauth.rs`) | consent row, revocation fence, codes, refresh tokens, pages in browsers | authorise, decide, exchange, withdraw | token service | replays, withdrawal during an exchange, old pages | one token per code, none outlives its consent, the row is what was approved |
| Audit chain (`services/audit_chain_service.rs`, `audit_service.rs`, `service_history/`, `chain_verify_service.rs`) | numbered, hash-linked entries; journal of changes; verifier status | append alone or in a transaction, relay, verify | every component that audits | racing appends, crash between append and mark, a shared cursor | no gap or fork, each change once, no false alarm, everything verified |
| Triggers and schedules (`services/trigger_schedule.rs`, `trigger_schedule/compute.rs`, `trigger_service.rs`, `handlers/trigger_scheduler.rs`) | triggers, runs, work documents with fences | claim work, take an occurrence, admit, deliver, finish, defer; edit, delete, run now | event forwarding | a worker past its lease, edits during a run | a run is delivered once at most; no occurrence is lost; the backlog is bounded |
| Oracle tasks (`services/oracle_task_service.rs`, `oracle_worker_service.rs`) | tasks with leases, retries, reroutes and excluded workers; conversations with an owning worker; presence of workers | submit, cancel, claim (which tidies the queue first), acknowledge, result or failure, status; report presence, drain, forget | browser workers that poll | requeue racing a late result, reroutes whose worker disappears | each task has one result, is handed out a bounded number of times and within the pool's limit, and never waits for a worker that cannot come |
| Device login (`services/auth_device_service.rs`) | device codes | initiate, approve, poll | token service | lost answers | one use per code |
| Provider-token refresh (`services/user_token_service.rs`, `oauth_broker_service.rs`) | provider tokens, a lease per token | single-flight refresh | lease store | the holder's lease expires during the refresh | one refresh at a time |
| Durable grants, credential delivery, service pools, billing, MCP sessions | see `PROJECT.json` | | | | |

`PROJECT.json` lists all components with what is modelled of them, and under
"hazards" the places in the code where something can go wrong that a test would
hardly reach, with the properties that cover each.

## Modules and the code

| Module | What it is |
|---|---|
| `LeaseDocument` | the filters and pipelines of `LeaseStore` as operators on one document; no state of its own |
| `FencedLease` | an abstract specification: a register that only the present owner may write, owned in generations that never return |
| `LeaseStore` | the lease document under its most general client; implements `FencedLease` |
| `JobQueue` | an abstract specification: jobs that wait, are under way and are over, and a permit given with the start and used up by the effect; implemented by `TriggerSchedule` and `OracleTasks` |
| `TelegramPoller` | the poller on every replica, composed with `LeaseDocument` and Telegram |
| `RefreshRotation` | rotation, grace, reuse detection and sign-out of a session's refresh tokens |
| `DirectChatQueue` | slots, guards and the bounded queue of one person |
| `EventDedup` | the operations of `EventDedupStore` on one document |
| `EventForwarding` | a device event posted several times, composed with `EventDedup` |
| `ChannelAdmission` | an inbound message delivered several times, composed with `EventDedup`, the gateway fence and erasure |
| `TokenBucket` | one token bucket under one policy |
| `RateWindow` | the document of one key of `RateWindowStore` |
| `ConsentGrants` | one user's grant to one OAuth client: pages, codes, exchanges, withdrawal |
| `Approvals` | the calls of one requester to one service: requests, decisions, grants, modes, sweeps |
| `ServiceConcurrency` | the slots of one person at one service |
| `NodeOwner` | the sockets of one node over the replicas, and requests to it |
| `AuditChain` | appends, relay and verifier of the audit log |
| `TriggerSchedule` | one scheduled trigger and the schedulers of the replicas |
| `OracleTasks` | the task queue of one oracle pool, one conversation of one person |
| `...Proofs` | the theorems: `ChatProofs`, `PollerProofs`, `ServiceConcurrencyProofs` of a component, `OwnershipProofs` of two, the others of the components of a run |
| `MC...` | the instances for TLC |

Operators whose comment begins with "slip" are not part of the model: each is
a plausible mistake in the definition that follows it. Put in its place, it
violates a property (`PROJECT.json`, "mutants").

**Commands are steps.** One MongoDB command is one atomic step; between two
commands of a handler anything may happen. A command that answers an error may
have taken effect or not. A cancelled future does not recall the command it was
waiting for. Each model has these outcomes as actions of their own
(`ElectionAnswerLost`, `Abandon` and `Land`, `InsertAnswerLost`, `AcquireFails`,
`CommandFails`, `TransactionFails`, `RenewalLost` and `LateRenewal`,
`AppendFails`, `ChangeFails`, `DecisionFails`, `Stop`).

**Time.** All filters compare `expires_at` with the server's `$$NOW`, so only
the distance matters: documents keep the ticks they have left, and `Tick` ages
them. Where the order of two instants matters too (`acquired_at` of queue
places, `last_refill_at` of a bucket) there is a clock. It never goes back;
a failover to a server whose clock is behind is not modelled.

**Identifiers.** A UUID equals no other one in use. `LeaseStore` and
`RefreshRotation` number them in the order they are drawn, which the code does
not rely on; `EventDedup` uses the request's own name.

### LeaseStore

`lease` is the document or `Absent`; `tokens` are the `LeaseToken`s ever handed
out. Any of them may be used at any time by `Renew`, `ReleaseDelete`,
`ReleaseExpire` (the two commands of `release`, with anything in between) and
`StoreCheckpoint`. That covers paused owners, delayed commands and retries at
once. `load_checkpoint` changes nothing and is the operator `Loaded`.
`Reap` is the TTL monitor on the partial index of `ensure_indexes`. `author` is
history. The refinement mapping takes the owner to be the lease id the document
carries while it has time left, and the value to be its checkpoint.

### TelegramPoller

`pc`, `grant`, `offset`, `head` and `last` are the locals of
`run_polling_loop` and `run_as_polling_leader` on each replica. `inFlight` holds
checkpoint writes whose caller was dropped by `run_while_renewed` or by a
crash. Telegram is external: it numbers updates, and `getUpdates(offset)` makes
it forget everything below the offset. What an update does in NyxID is the
approval component's business; here it is only handled or not.

### RefreshRotation

One session. `row` are its `refresh_tokens` documents by id; a request is a
`pc` that walks `refresh_tokens`: lookup, session check, disposition from the
row read at the beginning, the bounded walk of `follow_active_replacement_chain`
one read at a time, the compare-and-set on `revoked: false`, the insert of the
replacement as a separate write, the answer. A request may end anywhere
(`Abort`). `revoke_session` is two writes, by the user (`SignOut...`) and by
reuse detection (`Reuse...`). Refresh tokens of third-party clients, consent
checks and the reissue of rows without a session take other branches and are
left out.

### DirectChatQueue

`rows` are the slot documents of the running pool and of the queue;
`guard` the `RenewableSlotGuard`s with their renewal tasks; `probe` the position
of `SlotStore::acquire`, which issues one command per slot from a start that
depends on a hash; `claim` the task of `claim_slot`, which outlives its waiter.
A document is kept by a guard, dropped with its release under way, or an orphan.
An expired document and a missing one are told apart by no filter, and both are
`Free`. `Timely` says that renewal and the cancellation it triggers come before
the expiry; capacity cannot hold otherwise and is claimed only then. The request
window in front of the queue allows or refuses.

### EventForwarding and ChannelAdmission

Both have a dedup document `record` and requests that claim, work, and commit or
release. In `EventForwarding` the work is the callback of the agent; in
`ChannelAdmission` it is a transaction. `Begin` is the transaction up to its
writes to lease, bot and owner, from which on other writers of these wait;
`End` is the rest. `MoveLease` is any change of the gateway lease, the bot's owner
or its credential, `Erase` the acceptance of an erasure. Deliveries by webhook
and through the gateway share a record, which is more than the program has.

### TokenBucket

`Allow` and `Deny` are the two branches of the update pipeline, `BucketReap` is
the TTL monitor. `used` counts what was granted from each moment on. One key
under one policy; overflow is excluded by the checked and saturating arithmetic
of `admit_over_period` and integers are unbounded here. Zero rates never reach
the store.

### RateWindow

`AdmitInWindow` is the whole update pipeline: roll over, count, decide. The limit
is an argument of every call and may differ between calls. `admitted` is
history. A window's document must outlive its window, or the count would start
again in the middle of it; that is what `WindowExpiry` is for.

### ConsentGrants

`consent` is the consent row with its id, revision and write version;
`generation` the version of the revocation fence. A page is an authorization
request: shown (`OpenReview`) or passed without one (`AuthorizeSilently`),
decided (`DecideReview`, `DecideIncremental`, `ReplaceIncremental`), checked again
and turned into a code. An exchange claims the code, checks, stores a refresh
token, and fences: it reads the row, checks the code's reference against it and
writes the row, two or three times depending on the kind of grant; if a fence
fails the token is revoked (`UndoRefresh`), and if the request is dropped
(`Abandon`) it is not. The withdrawal reads its snapshot in one step and commits
in another. Scopes and services are one set of rights.

### Approvals

A call resolves the mode, looks for a grant, finds or inserts a request, and
polls it. A decision is one conditional write, then a check of the mode, then a
grant or the rollback. A change of mode is three writes (`SwitchMode`,
`RevokeGrants`, `CancelPending`), any of which may be the last. A sweep reads,
marks with its own key what is still pending, and announces what carries the
mark. Time is what a comparison with it yields: a request or a grant lapsed or
not.

### ServiceConcurrency

`slot` is what is left of each lease in the scope document, `docLeft` what is
left of the document; `timer`, `renewal` and `patience` are the renewal loop of
`Lease::new` with its sleep and its timeout, `late` a renewal still on its way
when the loop gave up, `release` the removal spawned by `drop`. The database
answers when it likes, the replica's own timers fire on time. The policy may
change at any time; a call is held to the limit it read, so capacity is stated
with the greatest limit set so far.

### NodeOwner

`owner` and `live` are the record in the node's document; `connections` and
`setup` the map entry and the set-up lock on each replica; `socket` the steps of
`handle_node_connection`; `renewer` and `monitor` the two sweeps, which work
from a snapshot. A replica is one run of a process. Requests read the record,
are sent on the spot or forwarded, are checked against map and record there, and
sent on the socket that was authorized or not at all. Whether an expiry or a
heartbeat comes too late is a free choice.

### AuditChain

`chain` is the set of entries; a hash is what it is computed from, and as ids are
unique the predecessor's id says as much. `writer` are appends with their bounded
attempts, by the relay or on their own; `change` those inside a transaction, which
hold their sequence number until they end (`SeqLocked`). The journal says which
service changes are committed, mirrored and audited. A verifier reads cursor,
head, chunk, and writes the status over whatever is there.

### TriggerSchedule

`work` are the work documents, number 0 the schedule's own; a fence is the name of
the scheduler, which has one claim at a time. A run is known by the time it is
scheduled for, as `run_id` is computed from it. `ClaimOccurrence` is a transaction
that uses a time read before it began. `Admit` is the transaction that starts a
run; `Finish` settles without looking at the fence, `FinishClaimed` only under it.
The schedule fires every `Period`; how cron expressions and time zones yield the
next time is not modelled. Delivery is one step that reaches the target or not.
As jobs, runs are waiting while pending, under way while started, one at a time;
the permit to deliver a run is with the scheduler between `Admit` and `Deliver`.
A scheduler that stops there takes the permit with it (`Abandons`), and one whose
run was settled behind its back still has it.

### OracleTasks

Every operation is a transaction that first writes the pool's document
(`oracle_mutation_service.rs`, `lock_expected_pool`), so each is one step. `task`,
`conversation` and `presence` are the documents; `handed` is history: which worker
each attempt went to, and so who may still speak of a task, however late
(`WorkerCall`), naming its attempt or not (`dispatch_attempt_id` is optional).
`LeasesExpired`, `AffinityReleased` and `UnroutableSettled` are the three sweeps
that a claim runs before it looks for a task; the status runs two of them. The lease
of a task, the recency and the cooldown of a worker and the grace of a pinned
task end by steps of their own. Batch limits of the sweeps are far above the two
tasks here. As jobs, tasks are waiting while queued, under way while dispatched, at
most `max_workers` of them, and the permit to answer is the dispatch itself; the
effect is a result taken into the conversation. Expired leases, browser failures
and reroutes are `Returns`, several in one step where a sweep makes them.

## Runs

| Run | Instance | Shows |
|---|---|---|
| `coordination` | lease: 2 replicas, 3 grants, 2 checkpoints, term 2; bucket: 2 tokens of 4 units, refill 3, 10 ticks; window: length 3, limits 0 to 2, 10 ticks; node: 2 sockets, 2 replicas, 1 request; audit: 1 mirrored change, 1 transactional change, 2 relays, 2 verifiers, 1 fault | the lease implements `FencedLease`; rates hold although documents are removed; map and record agree, a connected socket keeps the record, and requests go to the owner; the chain is whole with each change in it once, and verifiers raise no false alarm and skip nothing |
| `telegram_poller` | 2 replicas, 4 lease ids, 3 updates, 1 write in flight | nothing confirmed unhandled, the offset never goes back, a deposed leader handles at most one more update |
| `telegram_poller_live` | 2 replicas, 3 lease ids, 1 update | every update is handled in the end |
| `authority` | session: 2 requests at a time, 5 tokens, walk bound 2; consent: 2 pages, 2 exchanges, 2 rights, 3 writes, 2 withdrawals; approvals: 2 calls, 2 decisions, 2 sweeps, 1 change of mode | one usable token, nothing issued after revocation; one token per code, none outlives its consent, the row is what was approved; one call per approval, and what was answered, announced or granted stays the outcome |
| `refresh_grace` | 2 requests, 3 tokens, grace 1 | a finding, see below |
| `queues` | direct chat: 3 queueing turns, 1 slot, 2 places, slots may expire under their guards; and 2 queueing turns, 1 that never queues, 2 slots, 1 place, renewals on time; oracle pool: 2 workers, 2 tasks, pool of 1 or 2, 1 retry, 1 reroute, 1 change of what is known of a worker | nobody overtakes a turn whose place is live; the limits hold over crashes, lost releases, late claims, lapsed leases and reroutes; a task is handed out once per retry and reroute it was charged, never again to a worker that lacked the capacity, and takes one result |
| `direct_chat_settles` | 2 queueing turns, 1 that never queues, 1 slot, 2 places | whoever waits is served or leaves |
| `inbound` | messages: 2 webhook and 2 gateway deliveries, 2 lease changes, 1 fault; events: 4 posts, 2 faults; triggers: 2 schedulers, 2 occurrences, 1 edit, 1 run now or 1 stop | one row, sound acknowledgements, erasure and takeover are final; two successes only if a claim expired, failures suppress no retry; runs implement `JobQueue`, so each is delivered once at most, the backlog is bounded, no run or occurrence is forgotten |
| `event_duplicate` | 2 posts, no faults | a finding, see below |
| `proxied_calls` | approvals: 2 calls, 1 decision, 1 sweep; slots: 2 calls, 3 policies, term 6, renewal every 2, timeout 1; node: 2 sockets, 1 replica; audit: 1 mirrored change, 1 entry, 1 relay, 1 verifier | the limit holds; every call ends, slots come back, a socket that lost the node goes, every change is in the chain and verified in the end |
| `approval_rollback` | 2 calls, 1 decision, 1 change of mode | a finding, see below |
| `oracle_parked` | 1 task, 2 workers, one of which may disappear, 1 retry, 1 reroute | a finding, see below |

The components share no document, so nothing is learnt from interleaving them. A
run with several of them picks one at the start (the variable `part` of the MC
module); the others keep their initial state. Every invariant is checked in
every state, the types of all components together (`CoordinationTypeOK` and its
like), and each component's behaviours are exactly those of its own
specification. Where components do share documents they are composed for good:
the poller with the lease document, forwarding and admission with the dedup
document.

Why these bounds. Three grants on two replicas let a grant meet a stale
predecessor of the other replica and of its own. Lease ids of the poller are
used again once nobody remembers them, so the number of elections is not
bounded; four ids are enough for two replicas, the document and one write in
flight. Five tokens make chains longer than the walk bound of two, which stands
for `MAX_REPLACEMENT_CHAIN_DEPTH`. Three turns are the fewest in which a turn in
line can be overtaken both by a newcomer and by a turn behind it; with one place
there is no order, so the second instance needs no clock. Two oracle workers are
the worker that failed and the alternate; a retry and a reroute make three
attempts, the first of which may report during the last. A post that
outlives its claim can meet two others, and a fourth the records these leave.
The refill of 3 divides neither a token (4) nor the capacity (8), so every
division rounds, and ten ticks exceed the retention of 6. Two
sockets on two replicas are enough for a reconnect to the same replica and to
the other; what a third socket could do to the first is what the second can.
Two relays publish the same change at once, a chunk of one entry makes the
verifier stop and resume at every entry, and two attempts let an append fail by
exhaustion. Two pages and two exchanges give an old page and a new one, and a
replay of a code whose first exchange is under way. Two occurrences, a run by
hand and an edit fill a backlog of two; a job lease shorter than the period
lets a worker be overtaken by the other within one run. Terms in
`proxied_calls` satisfy the relation the code's constants have: the sleep and
twice the timeout of a renewal fit in the term of a slot.

Every fault has a bound because a fault that may always happen adds no new
order of steps beyond the few a short run shows; where the theorems below
apply, the bound is any number. In `inbound` a run by hand and a worker that
stops share one bound, so a behaviour has one or the other: both together are
beyond the time of a run.

Symmetry is used over replicas, workers, lease ids, requests, deliveries, pages,
calls and sweeps, and never in a run with a liveness property. Components of one run
borrow each other's model values so that one small group serves them all.
Deadlock is checked except in `inbound`, `event_duplicate`, `proxied_calls` and
`approval_rollback`, where the bounded number of requests, calls or ticks ends.
In `coordination` and `authority` it is checked for the components that never come
to an end (lease, bucket, window, session); the others may rest.

## Fairness

Four runs assume any.

`telegram_poller_live`: the clock runs; a replica that lost its lease sees its
renewal fail and issues the commands of its release (weak fairness: timers of
the Tokio runtime). Election and the steps of a leader that holds its lease are
strongly fair: any of them may fail any number of times, but not every time
forever. The term is several renewal intervals long and `run_while_renewed`
renews beside the work, so that a leader is not always paused past its lease at
the same step. Nothing forces a crash, an error or a lost answer.

`direct_chat_settles`: weak fairness of the steps of a turn, of renewals and
spawned releases (tasks of the runtime) and of the clock, with renewals on time.
The end of a running reply is among these steps: a turn has a deadline
(`turn_timeout`). The deadline of waiting itself is not relied on.
Nobody is forced to press stop, to go away or to crash, and a database error
is never forced.

`proxied_calls`: a waiting call polls every second and its request lapses in the
end (weak fairness: `tokio::time`, the clock); nobody has to decide and no sweep
has to run. Time passes and due timers of the renewal loop fire; the database
owes neither an answer nor the execution of a removal. The lease sweep of a
replica starts again and again and drops what it found lost; its database
command is strongly fair, since it may fail any number of times but not every
time for ever. No heartbeat, close or disconnect has to arrive. Relay and
verifier run on an interval, and a transaction that inserted its entry ends; the
number of their faults is bounded.

`oracle_parked`: someone looks at the pool now and then, the worker that stays
goes on polling, and time ends leases and presence (weak fairness). The other
worker owes nothing: it may have gone.

## Proofs

Eight modules hold theorems, each for every value of its constants under the
named assumptions of the module that declares them (terms are positive, sentinel
values are not ordinary ones, a rate window has at least one limit, the set of
oracle tasks is finite, bounds are natural numbers). A proof module covers the
components of one run, since components of a run share their composition; the
inductive invariant of a component is named after it, was checked by TLC first,
and is the first theorem of its part.

- `OwnershipProofs`, the lease store. The inductive invariant is `TypeOK` and
  `ReapableHasNoCheckpoint`: without it a removal by the TTL index could lose a
  committed value and would have no counterpart in `FencedLease`. From it:
  `ImplementsFencedLease` (step by step: `Acquire` is `Grant`, `StoreCheckpoint`
  is `Commit`, the end of the term and release are `Lapse`, everything else
  stutters), `LeaseIsNotTakenAway`, `CheckpointIsNeverReaped`.
- `OwnershipProofs`, the owner record of a node (`NodeOwnerInv`). The set-up lock
  of a replica serialises its claims: since a socket claimed, and until its set-up
  ends, no other socket of the replica has the record (`SerialInv`, from `LockInv`);
  the map names registered sockets of its own replica (`MapInv`); the heartbeat
  sweep releases only for sockets that are out of the map (`SweepInv`). From it
  `MapAgreesWithRecord`, `RequestsReachTheOwner`, `ConnectedOwnerKeepsTheRecord`.
- `PollerProofs` (`PollerInv`). What a replica, the document or a late write counts
  as done was handled (`Done`, `DurableInv`, `WriteInv`). No operation makes a token
  active again that was not, except a claim with a fresh id (the lemmas
  `LeaseRests`...); so checkpoints are moved only by the leader and by one late write
  of a leader that is gone, and both would move them forward (`Forward`, `WriteInv`).
  From it `NoUpdateIsLost`, `DeposedLeadersAreHarmless`.
- `AuthorityProofs`, approvals (`ApprovalInv`). A call waits on a request of its
  own mode, in per_request mode on its own (`CallInv`); a decision that wrote its
  verdict and was not taken back is the only one on its request (`DecisionInv`); an
  announced expiry carries the marker of a sweep that is done (`NoticeInv`). From it
  `ApprovalsAreForOneCall`, `OutcomesAreFinal`.
- `AuthorityProofs`, consents (`ConsentInv`). Rows have versions of their own, so a
  page that adds to a row finds it only if nothing was withdrawn since (`StampInv`,
  `ApprovedInv`); an exchange that claimed a code is the only one (`CodeInv`); the row
  that the last fence writes was validated (`FenceInv`); and a withdrawal that can
  still commit sees every token a client holds (`WithdrawInv`), since a fence written
  meanwhile makes it conflict. From it `WithdrawalLeavesNoToken`,
  `RowIsWhatWasApproved`, `CodeYieldsOneToken`, `DeliveryIsUnderLiveRevision`.
- `AuthorityProofs`, session tokens. The properties are not inductive by
  themselves. The invariant describes the chain: ids below the newest are revoked
  and name their successor, ids above are unused, at most one request is about to
  insert, and it inserts the newest; a session is revoked before its rows; requests
  that came too late never pass the session check. From it `NoTwoActiveTokens`,
  `ReplacementsFormOneChain`, `IssuedTokensAreSound`; `ReuseRevokesTheSession`.
- `InboundProofs`, event forwarding. A request at work, or one that succeeded, owns
  the document until that lapses (`OwnerInv`); success is followed by commit only
  (`OkInv`); whose document a retry can meet (`MetInv`). From it
  `DeliveredOncePerWindow`, `FailureDoesNotSuppressRetries`.
- `InboundProofs`, admission. What a transaction locked stays true until it ends
  (`LockInv`), a committed record stands for a stored row (`RowInv`). From it
  `StoredOnce` and `GatewayAcksAreSound`, together `StoredAndAcknowledged`;
  `ErasureIsFinal` and `StaleGatewaysAreFenced`, together `FencesHold`.
- `InboundProofs`, schedules (`ScheduleInv`). A run goes from pending to started to
  over and never back, whoever writes it, and its work document outlives it
  (`WorkInv`), so what a scheduler read of a run before a pause is of the kind that
  stays true (`SchedulerInv`); the one that admitted a run is the one that delivers it
  (`DeliveryInv`); due times passed are covered (`CoverInv`, from the arithmetic of
  `LatestDue`). From it `RunsAreDeliveredOnce`, `BacklogStaysBounded`,
  `NothingIsForgotten`.
- `InboundProofs`, runs as jobs. `RunsImplementJobQueue`: every step but two admits
  nobody (`NobodyAdmitted`) and inserts, keeps or settles each run (`GoesForward`),
  which makes it a move of the job queue; `Admit` gives the permit, which nobody can
  have since a run being delivered is not pending (`DeliveryInv`); `Deliver` uses it
  up or loses it. `JobsTakeEffectOnce` shows from the abstract specification alone
  that a job takes effect once at most, so the two together give
  `DeliveredOnce` again, from the run documents and the schedulers alone.
- `CoordinationProofs`, the limiters. Tokens granted since a moment and tokens in the
  bucket are one budget (`Budget`) that grows with the refill only; the expiry of a
  document lies a full refill after its last update (`Kept`), and `refill_ms` rounds
  up (`MillisCover`). From it `RateBounded` and `ReapInvisible`. A window document
  counts what was admitted in the current window, also after a change of window, and
  the TTL monitor takes none of the current one (`CountInv`, `DocumentInv`): `WindowBounded`.
- `CoordinationProofs`, the audit chain (`AuditInv`). An entry that was prepared
  follows an entry of the chain for ever, as the chain only grows (`WriterInv`); the
  unique index admits it only under the next number, and a transaction that inserted
  its entry holds that number until it ends. A chunk is counted by a bijection with
  its numbers, which gives the verifier's cursor (`VerifyInv`). From it
  `ChainStaysIntact`, `VerifierRaisesNoFalseAlarm`.
- `ServiceConcurrencyProofs`. Capacity follows from a fact about each lease
  (`SlotMargin`): a call that runs has a live slot of its own in the document, and what
  is left of it exceeds the time until the renewal loop notices that a renewal
  failed. That needs the relation between term, sleep and timeout
  (`ConcurrencyAssumption`) and holds although a renewal may execute
  at any moment between its sending and long after its timeout. The invariant adds
  that the document outlives its slots, and that the limit a claim works with was
  set at some time (`KnownLimit`). From it `ConcurrencyTypes`, `CapacityHolds`,
  `DocumentOutlives`.
- `ChatProofs` (`ChatInv`). What a turn holds follows from how far its admission got
  (`Stage`); nobody writes over a live document, so a kept one is lost only by its own
  turn or by time, and while renewals are on time a guard has its document
  (`Backed`): running turns inject into the slots. For the order of the line: a turn
  takes its place once, so those ahead of another that have lost theirs stay without
  (`Unpassed`), and places are stamped with a clock that does not go back, so nobody
  who comes later is older than the first in line at the start of its claim
  (`First`). From it `ChatIsTyped`, `ChatWithinCapacity`, `ChatKeepsTheLine`.
- `QueueProofs`, oracle tasks. Most steps only move documents towards their end or
  back into the queue: `Swept` says what such a step may do to one document, every
  sweep and every failed attempt is shown to be one, and `Swept` keeps the invariant
  `OracleInv`. Three steps do more and are treated alone: submission, hand-out, a
  result. `OracleInv` counts hand-outs exactly while a task is queued or out (the
  bound alone is not inductive), has at most one task out per worker label (without
  it a claim could exceed one), and ties turns and owner to answered tasks. From it
  `HandOutsAreCharged`, `PoolStaysWithinCapacity`, `ResultsAreTakenOnce`,
  `OracleIsTyped`, for any finite set of tasks.
- `QueueProofs`, tasks as jobs. `PoolImplementsJobQueue`: `Lawful` lists the ways in
  which one document may change (stay, be queued, handed out, returned unanswered,
  ended, answered), and each is a move of the job queue (`LawfulMoves`). Sweeps, hand-outs
  and results change every document lawfully (`SweptIsLawful`, `DispatchIsLawful`,
  `SettledIsLawful`); that a task which returns is unanswered, and that no more are out
  than `max_workers`, comes from `OracleInv`.
- The compositions. `AuthorityIsTyped`, `InboundIsTyped`, `CoordinationIsTyped` join
  the type invariants of the parts of a run; `QueuesWithinLimits` and `LineIsKept`
  join the queues of `MCQueues`. One of these has fixed constants (`Pair`): the theorems
  of `ChatProofs` are instantiated for it, and their assumption is proved of them
  (`PairAssumption`).

`LeaseIsNotTakenAway`, `CheckpointIsNeverReaped`, `ReplacementsFormOneChain`,
`ReuseRevokesTheSession`, `ReapInvisible` and `DocumentOutlives` are proved and
in no run: each is a step of the argument for a property that is.
`RunsAreDeliveredOnce` follows from `RunsAreJobs`, which is in a run.
`PoolImplementsJobQueue` is only proved: TLC confirmed it for two tasks and two
workers without changes of presence, and its parts for the limit and the results are
in `queues`.
`ChatWithinCapacity` and `PoolStaysWithinCapacity` are the parts of `LimitsHold`,
`ChatKeepsTheLine` is `NobodyIsOvertaken` of the limiter alone.

Only model-checked: the liveness properties (`EveryUpdateHandled`,
`EveryWaiterSettles`, `EveryCallEnds`, `SlotIsReclaimed`, `LostSocketIsDropped`,
`EveryChangeIsVerified`), since the proof system does not reason about fairness, and
the four violations. Every invariant and every action property of a passing run is
stated by a theorem.

## Where code and documentation disagree

- `refresh_grace`: `refresh_tokens` revokes the old row and names the
  replacement in one write and inserts the replacement in the next. A retry with
  the old token in between walks to a row that does not exist, takes the chain for
  exhausted and revokes the session, although `token_service.rs:15` calls reuse
  within the grace period a legitimate retry.
- `event_duplicate`: an event id is claimed before delivery; a second post that
  meets the claim is answered "duplicate" while the first may yet fail.
  `docs/API.md:8998` says that the id enters deduplication only after success, in
  a cache of the process.
- `approval_rollback`: a decision on a request of grant mode is written first and
  the mode is read afterwards. A call that polls in between goes through, and the
  decision is then turned down. The comment at `approval_service.rs:1121` says that
  such decisions are rejected and that the request "stays pending"; the rollback
  sets it to expired.
- `oracle_parked`: a rerouted task in the queue is found by its `failure_reason`
  when the worker it waits for disappears, but a claim clears that field
  (`oracle_task_service.rs:1661`). If the alternate takes the task, loses its lease or
  its browser and then goes away, the task is queued with the first worker excluded
  and no reason, and nothing but a cancellation ends it. The comment at
  `oracle_task_service.rs:2233` says that "capacity failures never park",
  `docs/ORACLE_RELAY.md:486` that claim and status settle such a task.

Some smaller ones need no run. `revoke_session` leaves a row active that a
rotation inserts after its batch, against "all its associated refresh tokens"
(`token_service.rs:1242`); the row is of no use, as `RevokedSessionIssuesNothing`
shows. `SlotStore::acquire` may answer `Ok(None)` although some slot was free at
every moment of its loop, against "`Ok(None)` means the pool is full"
(`rate_limit.rs:477`).

Observations about the models that contradict no text. A run made by hand in the
very millisecond of an occurrence takes its run id; from then on every attempt
to take the occurrence fails and the schedule stands still until it is edited
(`LeaveOccurrence`). A delivery that outlasts its lease is taken for
interrupted: its run is marked failed without a fence, and the next run may
start while the delivery goes on (`ReadRun`, `Finish`). Verifiers of several
replicas overwrite each other's status, so the cursor may move back
(`PersistStatus`).

## What is not modelled

Authorisation, validation, encryption and formatting are sequential and come
before the protocols modelled here. Cryptography, the proxy's HTTP handling,
RBAC, organisations and the catalog are outside what a state model adds to. They
make up most of the repository's lines. The frontends, SDKs and plugins have no
coordination logic of their own.

Within the modelled components: `store_current_owner` (an admission without a
dedup claim), `EventDedupStore::renew` (no caller on the modelled paths),
third-party refresh tokens, the status of message rows, several policies on one
bucket, the `reset_at` reported with a refusal, replay records; a node's
responses, capabilities and streams; the notices of approvals and approval
rules; registration of OAuth clients and the other grant types; tampering with
the audit log and the billing ledger's chain; confirmations, coordinators,
assistant turns, budgets, webhook runs and the projection of the last run of
triggers; imported, attached and closed conversations, URL extraction, client
references, enrolment and commands of oracle workers and changes of a pool.

## Plan

In this order, because each step reuses the one before it:

1. Oracle pools that change while tasks are out: the limit of `JobQueue` becomes a
   variable that may shrink below what is under way.
2. Device login (`auth_device_service.rs:1045`: the poll that receives the tokens
   also deletes them); third-party refresh tokens in `RefreshRotation`, composed with
   `ConsentGrants`.
3. Provider-token single flight over `LeaseDocument`
   (`user_token_service.rs:2681`: a holder whose lease expired may still write);
   durable grants; replay records. (`docs/ENV.md:150` asks for a nonce lifetime that exceeds twice the skew
   where `config.rs:1830` accepts equality: the replay model should say which is
   right.)
4. Credential delivery to nodes over `NodeOwner`; service pools over
   `ServiceConcurrency`.
5. Billing reservations and ledger, MCP sessions, the updater's staged
   replacement.

Theorems next: a counting semaphore that both `DirectChatQueue` and
`ServiceConcurrency` implement, with the refinement proved; that the poller's use of
the lease is a behaviour of `LeaseStore`, so that `ImplementsFencedLease` carries over
to it.
