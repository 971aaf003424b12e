-------------------------- MODULE EventForwarding --------------------------
(***************************************************************************)
(* forward_event of services/channel_event_service.rs: a device posts an   *)
(* event, possibly more than once, to any replica; the event is claimed,   *)
(* forwarded to the agent's callback and then committed, or released after *)
(* a failure.  The trigger ingress of handlers/trigger_webhooks.rs runs    *)
(* the same protocol around its delivery.  One event, several requests.    *)
(***************************************************************************)
EXTENDS EventDedup, FiniteSets

CONSTANTS Requests,      \* the posts of the event; each draws its own claim id
          MaxPostFaults  \* bound: crashes and database errors

ASSUME EventForwardingAssumption == Claims = Requests /\ MaxPostFaults \in Nat

VARIABLES event,       \* the event's dedup document
          post,        \* post[r]: the next step of the request
          told,        \* told[r]: what the device was told
          ok,          \* history: requests whose callback returned success
          lapsed,      \* history: requests whose document expired
          postFaults,  \* faults so far
          faulty       \* history: requests that met a fault

forwardVars == <<event, post, told, ok, lapsed, postFaults, faulty>>

\* Every variable has its type.
ForwardTypeOK ==
    /\ event \in Record \cup {NoRecord}
    /\ post \in [Requests -> {"idle", "prepare", "forward", "commit", "release", "end"}]
    /\ told \in [Requests -> {"none", "delivered", "deduped", "error"}]
    /\ ok \in SUBSET Requests /\ lapsed \in SUBSET Requests /\ faulty \in SUBSET Requests
    /\ postFaults \in 0 .. MaxPostFaults

ForwardInit ==
    /\ event = NoRecord
    /\ post = [r \in Requests |-> "idle"]
    /\ told = [r \in Requests |-> "none"]
    /\ ok = {} /\ lapsed = {} /\ faulty = {} /\ postFaults = 0

PostAt(r, next) == post' = [post EXCEPT ![r] = next]
AnswerPost(r, a) == told' = [told EXCEPT ![r] = a] /\ PostAt(r, "end")

-----------------------------------------------------------------------------
\* claim(): the first writer goes on, whoever finds a live document is told
\* that the event is a duplicate.
ClaimEvent(r) ==
    /\ post[r] = "idle"
    /\ IF event = NoRecord
       THEN event' = Claimed(r) /\ PostAt(r, "prepare") /\ UNCHANGED told
       ELSE AnswerPost(r, "deduped") /\ UNCHANGED event
    /\ UNCHANGED <<ok, lapsed, postFaults, faulty>>

\* slip: a failed preparation returns at once
PrepareOrReturn(r) ==
    /\ post[r] = "prepare"
    /\ \/ PostAt(r, "forward") /\ UNCHANGED told
       \/ AnswerPost(r, "error")
    /\ UNCHANGED <<event, ok, lapsed, postFaults, faulty>>
\* prepare_device_event: the key, its callback url and the message row.
Prepare(r) ==
    /\ post[r] = "prepare"
    /\ PostAt(r, "forward") \/ PostAt(r, "release")
    /\ UNCHANGED <<event, told, ok, lapsed, postFaults, faulty>>

\* forward_to_agent: success, or an error (the agent may have acted even so).
Forward(r) ==
    /\ post[r] = "forward"
    /\ \/ PostAt(r, "commit") /\ ok' = ok \cup {r}
       \/ PostAt(r, "release") /\ UNCHANGED ok
    /\ UNCHANGED <<event, told, lapsed, postFaults, faulty>>

\* commit() of a claim that is still this request's and has not expired.
Commit(r) ==
    /\ post[r] = "commit"
    /\ IF ClaimedBy(event, r)
       THEN event' = Committed(event) /\ AnswerPost(r, "delivered")
       ELSE AnswerPost(r, "error") /\ UNCHANGED event
    /\ UNCHANGED <<ok, lapsed, postFaults, faulty>>

\* release_event_claim after a failure.
ReleaseEvent(r) ==
    /\ post[r] = "release"
    /\ event' = Released(event, r)
    /\ AnswerPost(r, "error")
    /\ UNCHANGED <<ok, lapsed, postFaults, faulty>>

-----------------------------------------------------------------------------
PostFault(r) ==
    /\ postFaults < MaxPostFaults
    /\ postFaults' = postFaults + 1
    /\ faulty' = faulty \cup {r}

\* A command reports an error, before or after it took effect.
PostCommandFails(r) ==
    /\ PostFault(r)
    /\ \/ post[r] = "idle" /\ event' \in {event} \cup {Claimed(r) : x \in {event} \cap {NoRecord}}
       \/ post[r] = "commit" /\ ClaimedBy(event, r) /\ event' \in {event, Committed(event)}
       \/ post[r] = "release" /\ UNCHANGED event
    /\ AnswerPost(r, "error")
    /\ UNCHANGED <<ok, lapsed>>

\* The replica stops, or the device hangs up and the future is dropped.
PostCrash(r) ==
    /\ PostFault(r)
    /\ post[r] \notin {"idle", "end"}
    /\ PostAt(r, "end")
    /\ UNCHANGED <<event, told, ok, lapsed>>

EventTick ==
    /\ event # NoRecord
    /\ event' = Aged(event)
    /\ lapsed' = IF event.ttl = 1 THEN lapsed \cup {event.claim} ELSE lapsed
    /\ UNCHANGED <<post, told, ok, postFaults, faulty>>

ForwardNext ==
    \/ \E r \in Requests : \/ ClaimEvent(r) \/ Prepare(r) \/ Forward(r) \/ Commit(r)
                          \/ ReleaseEvent(r) \/ PostCommandFails(r) \/ PostCrash(r)
    \/ EventTick

ForwardSpec == ForwardInit /\ [][ForwardNext]_forwardVars

-----------------------------------------------------------------------------
(* Properties. *)

\* The callback succeeds twice for one event only if the document of one of
\* the two requests expired: not because a late release or commit, a crash or
\* a failed command opened the window of somebody else.
NoDoubleDelivery ==
    \A q, r \in ok : q # r => (q \in lapsed \/ r \in lapsed)

\* "Failed forwards release their exact claim so a provider retry is not
\* suppressed": whoever is told of a duplicate met the document of a request
\* that is still at work, that succeeded, or that was hit by a fault.
RetryNotSuppressed ==
    [][\A r \in Requests :
          (told[r] # "deduped" /\ told'[r] = "deduped") =>
             /\ event # NoRecord
             /\ \/ post[event.claim] # "end"
                \/ event.claim \in ok \cup faulty]_forwardVars

\* docs/API.md: the event id enters deduplication "only after success".  Then
\* a device told that its event is a duplicate has an event that some request
\* delivered, at the latest when every request has ended.
DuplicateMeansDelivered ==
    (\A q \in Requests : post[q] = "end") =>
       \A r \in Requests : told[r] = "deduped" => ok # {}
=============================================================================
