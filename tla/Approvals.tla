------------------------------ MODULE Approvals ------------------------------
(***************************************************************************)
(* Approvals of one requester's calls to one service of one user: calls    *)
(* that wait for a decision, decisions, the approval mode of the service,  *)
(* and the sweeps that expire old requests on every replica.               *)
(*                                                                         *)
(* Modelled from approval_service.rs (evaluate_and_check, check_approval,  *)
(* create_approval_request, wait_for_decision, process_decision,           *)
(* expire_pending_requests, set_service_approval_config and                *)
(* delete_service_approval_config) as the proxy handler uses them.  The    *)
(* policy requires approval and has no rules, so grants have no scope.     *)
(* A request carries the name of the call that inserted it, a grant the    *)
(* name of its request.  Clocks are the facts a comparison with them       *)
(* yields: a request or a grant has lapsed or not.                         *)
(***************************************************************************)
EXTENDS Naturals, FiniteSets

CONSTANTS
    Calls,        \* proxied calls
    Decisions,    \* runs of process_decision
    DecisionKeys, \* idempotency keys that clients send with a decision
    Sweeps,       \* runs of the expiry sweep, each with a marker of its own
    NoCall,       \* no request
    NoKey,        \* no decision key
    MaxSwitches   \* bound on changes of the approval mode

ASSUME ApprovalAssumption ==
    /\ MaxSwitches \in Nat
    /\ NoCall \notin Calls
    /\ NoKey \notin DecisionKeys \cup Sweeps
    /\ DecisionKeys \cap Sweeps = {}

VARIABLES
    mode,       \* approval mode of the service
    request,    \* request documents
    grant,      \* grant documents
    call,       \* calls in progress
    decision,   \* decisions in progress
    switching,  \* what is left of the last change of the mode
    switches,   \* changes so far
    sweep,      \* sweeps in progress
    announced   \* history: expiry notices sent for each request

approvalVars == <<mode, request, grant, call, decision, switching, switches,
                  sweep, announced>>

Mode == {"grant", "per_request"}
CallState == {"idle", "resolved", "finding", "inserting", "waiting",
              "through", "refused"}
DecisionState == {"idle", "recheck", "mint", "rollback", "accepted",
                  "replayed", "rolled_back", "refused"}
Verdict == {"approved", "rejected"}

(* Every variable has its type.                                            *)
ApprovalTypeOK ==
    /\ mode \in Mode
    /\ request \in [Calls -> [status : {"none", "pending", "expired"} \cup Verdict,
                              mode : Mode, lapsed : BOOLEAN,
                              key : DecisionKeys \cup Sweeps \cup {NoKey}]]
    /\ grant \in [Calls -> {"none", "active", "lapsed", "revoked"}]
    /\ call \in [Calls -> [pc : CallState, mode : Mode, attempt : 1 .. 2,
                           on : Calls \cup {NoCall}]]
    /\ decision \in [Decisions -> [pc : DecisionState, on : Calls \cup {NoCall},
                                   verdict : Verdict]]
    /\ switching \in {"done", "revoke", "cancel"}
    /\ switches \in 0 .. MaxSwitches
    /\ sweep \in [Sweeps -> [pc : {"idle", "found", "announce", "done"},
                             found : SUBSET Calls]]
    /\ announced \in [Calls -> Nat]

ApprovalInit ==
    /\ mode \in Mode
    /\ request = [c \in Calls |-> [status |-> "none", mode |-> "per_request",
                                   lapsed |-> FALSE, key |-> NoKey]]
    /\ grant = [c \in Calls |-> "none"]
    /\ call = [c \in Calls |-> [pc |-> "idle", mode |-> "per_request",
                                attempt |-> 1, on |-> NoCall]]
    /\ decision = [d \in Decisions |-> [pc |-> "idle", on |-> NoCall,
                                        verdict |-> "rejected"]]
    /\ switching = "done"
    /\ switches = 0
    /\ sweep = [s \in Sweeps |-> [pc |-> "idle", found |-> {}]]
    /\ announced = [c \in Calls |-> 0]

-----------------------------------------------------------------------------
(* Calls.                                                                  *)

CallOnly == UNCHANGED <<mode, request, grant, decision, switching, switches,
                        sweep, announced>>

(* The policy is read first; the mode it selects stays with the call.      *)
ResolveMode(c) ==
    /\ call[c].pc = "idle"
    /\ call' = [call EXCEPT ![c].pc = "resolved", ![c].mode = mode]
    /\ CallOnly

(* In grant mode a live grant lets the call through; otherwise it needs    *)
(* an approval.                                                            *)
CheckGrant(c) ==
    /\ call[c].pc = "resolved"
    /\ \/ \E g \in Calls :
              /\ call[c].mode = "grant"
              /\ grant[g] = "active"
              /\ call' = [call EXCEPT ![c].pc = "through"]
       \/ /\ call[c].mode = "per_request" \/ \A g \in Calls : grant[g] # "active"
          /\ call' = [call EXCEPT ![c].pc = "finding"]
    /\ CallOnly

\* slip: requests of every mode share the key of the requester
SameKeyAlways(c, r) ==
    request[r].status = "pending" /\ request[r].mode = call[c].mode

(* Grant-mode requests of the requester share one key; a request in        *)
(* per_request mode has a key of its own.                                  *)
SameKey(c, r) ==
    /\ call[c].mode = "grant"
    /\ request[r].status = "pending"
    /\ request[r].mode = "grant"

(* A call joins a pending request with its key.                            *)
FindPending(c) ==
    /\ call[c].pc = "finding"
    /\ \/ \E r \in Calls :
              /\ SameKey(c, r)
              /\ call' = [call EXCEPT ![c].pc = "waiting", ![c].on = r]
       \/ /\ \A r \in Calls : ~SameKey(c, r)
          /\ call' = [call EXCEPT ![c].pc = "inserting"]
    /\ CallOnly

(* Otherwise it inserts one; the unique index refuses a second pending     *)
(* request with the key, and after two attempts the call is refused.       *)
InsertRequest(c) ==
    /\ call[c].pc = "inserting"
    /\ \/ /\ \E r \in Calls : SameKey(c, r)
          /\ call' = [call EXCEPT
                        ![c].pc = IF call[c].attempt = 1 THEN "finding" ELSE "refused",
                        ![c].attempt = 2]
          /\ UNCHANGED request
       \/ /\ \A r \in Calls : ~SameKey(c, r)
          /\ request' = [request EXCEPT ![c].status = "pending", ![c].mode = call[c].mode]
          /\ call' = [call EXCEPT ![c].pc = "waiting", ![c].on = c]
    /\ UNCHANGED <<mode, grant, decision, switching, switches, sweep, announced>>

\* slip: a pending request is waited for even after it lapsed
PollIgnoringExpiry(c) ==
    /\ call[c].pc = "waiting"
    /\ \E r \in {call[c].on} :
        \/ /\ request[r].status = "approved"
           /\ call' = [call EXCEPT ![c].pc = "through"]
        \/ /\ request[r].status \in {"rejected", "expired"}
           /\ call' = [call EXCEPT ![c].pc = "refused"]
    /\ CallOnly

(* One poll of the waiting call that ends the wait.                        *)
Poll(c) ==
    /\ call[c].pc = "waiting"
    /\ \E r \in {call[c].on} :
        \/ /\ request[r].status = "approved"
           /\ call' = [call EXCEPT ![c].pc = "through"]
        \/ /\ \/ request[r].status \in {"rejected", "expired"}
              \/ request[r].status = "pending" /\ request[r].lapsed
           /\ call' = [call EXCEPT ![c].pc = "refused"]
    /\ CallOnly

(* The client disconnects and the call with its wait is dropped.           *)
Disconnect(c) ==
    /\ call[c].pc \in {"resolved", "finding", "inserting", "waiting"}
    /\ call' = [call EXCEPT ![c].pc = "refused"]
    /\ CallOnly

-----------------------------------------------------------------------------
(* Decisions.                                                              *)

(* A decision is written over a pending request, lapsed or not.  An        *)
(* approval in grant mode goes on to re-read the mode.                     *)
Decide(d, r, verdict, key) ==
    /\ decision[d].pc = "idle"
    /\ request[r].status = "pending"
    /\ request' = [request EXCEPT ![r].status = verdict, ![r].key = key]
    /\ decision' = [decision EXCEPT ![d] =
         [pc |-> IF verdict = "approved" /\ request[r].mode = "grant"
                 THEN "recheck" ELSE "accepted",
          on |-> r, verdict |-> verdict]]
    /\ UNCHANGED <<mode, grant, call, switching, switches, sweep, announced>>

(* A decided request answers a repeated key with the decision it has, and  *)
(* refuses anything else.                                                  *)
DecideAgain(d, r, verdict, key) ==
    /\ decision[d].pc = "idle"
    /\ request[r].status \in Verdict \cup {"expired"}
    /\ decision' = [decision EXCEPT ![d] =
         [pc |-> IF request[r].status = verdict /\ request[r].key = key
                 THEN "replayed" ELSE "refused",
          on |-> r, verdict |-> verdict]]
    /\ UNCHANGED <<mode, request, grant, call, switching, switches, sweep, announced>>

(* An approval of a grant-mode request stands only in grant mode.          *)
RecheckMode(d) ==
    /\ decision[d].pc = "recheck"
    /\ decision' = [decision EXCEPT ![d].pc =
                      IF mode = "grant" THEN "mint" ELSE "rollback"]
    /\ UNCHANGED <<mode, request, grant, call, switching, switches, sweep, announced>>

(* Otherwise the approval is taken back, as an expiry.                     *)
Rollback(d) ==
    /\ decision[d].pc = "rollback"
    /\ request' = [request EXCEPT ![decision[d].on].status =
                     IF @ = "approved" THEN "expired" ELSE @]
    /\ decision' = [decision EXCEPT ![d].pc = "rolled_back"]
    /\ UNCHANGED <<mode, grant, call, switching, switches, sweep, announced>>

MintGrant(d) ==
    /\ decision[d].pc = "mint"
    /\ grant' = [grant EXCEPT ![decision[d].on] = "active"]
    /\ decision' = [decision EXCEPT ![d].pc = "accepted"]
    /\ UNCHANGED <<mode, request, call, switching, switches, sweep, announced>>

(* A query fails or the replica stops after the decision was written.      *)
DecisionFails(d) ==
    /\ decision[d].pc \in {"recheck", "mint", "rollback"}
    /\ decision' = [decision EXCEPT ![d].pc = "refused"]
    /\ UNCHANGED <<mode, request, grant, call, switching, switches, sweep, announced>>

-----------------------------------------------------------------------------
(* Changes of the mode: the policy is written, then grants are revoked,    *)
(* then pending grant-mode requests are expired.  Grant mode keeps them.   *)

SwitchMode(m) ==
    /\ switching = "done"
    /\ switches < MaxSwitches
    /\ switches' = switches + 1
    /\ mode' = m
    /\ switching' = IF m = "per_request" THEN "revoke" ELSE "done"
    /\ UNCHANGED <<request, grant, call, decision, sweep, announced>>

RevokeGrants ==
    /\ switching = "revoke"
    /\ grant' = [g \in Calls |-> IF grant[g] = "none" THEN "none" ELSE "revoked"]
    /\ switching' = "cancel"
    /\ UNCHANGED <<mode, request, call, decision, switches, sweep, announced>>

CancelPending ==
    /\ switching = "cancel"
    /\ request' = [r \in Calls |->
         IF request[r].status = "pending" /\ request[r].mode = "grant"
         THEN [request[r] EXCEPT !.status = "expired"] ELSE request[r]]
    /\ switching' = "done"
    /\ UNCHANGED <<mode, grant, call, decision, switches, sweep, announced>>

(* The clean-up fails part way; the new mode stays.                        *)
SwitchFails ==
    /\ switching \in {"revoke", "cancel"}
    /\ switching' = "done"
    /\ UNCHANGED <<mode, request, grant, call, decision, switches, sweep, announced>>

-----------------------------------------------------------------------------
(* Time, and the sweeps: find lapsed requests, expire those still pending, *)
(* announce the ones that carry this sweep's marker.                       *)

Lapse(r) ==
    /\ request[r].status # "none"
    /\ ~request[r].lapsed
    /\ request' = [request EXCEPT ![r].lapsed = TRUE]
    /\ UNCHANGED <<mode, grant, call, decision, switching, switches, sweep, announced>>

GrantLapses(g) ==
    /\ grant[g] = "active"
    /\ grant' = [grant EXCEPT ![g] = "lapsed"]
    /\ UNCHANGED <<mode, request, call, decision, switching, switches, sweep, announced>>

Overdue == {r \in Calls : request[r].status = "pending" /\ request[r].lapsed}

SweepFind(s) ==
    /\ sweep[s].pc = "idle"
    /\ Overdue # {}
    /\ sweep' = [sweep EXCEPT ![s] = [pc |-> "found", found |-> Overdue]]
    /\ UNCHANGED <<mode, request, grant, call, decision, switching, switches, announced>>

\* slip: what was found is expired without a second look at its status
SweepOverwrites(s) ==
    /\ sweep[s].pc = "found"
    /\ request' = [r \in Calls |->
         IF r \in sweep[s].found
         THEN [request[r] EXCEPT !.status = "expired", !.key = s] ELSE request[r]]
    /\ sweep' = [sweep EXCEPT ![s].pc = "announce"]
    /\ UNCHANGED <<mode, grant, call, decision, switching, switches, announced>>

SweepExpire(s) ==
    /\ sweep[s].pc = "found"
    /\ LET hit == {r \in sweep[s].found : request[r].status = "pending"}
       IN  /\ request' = [r \in Calls |->
                IF r \in hit
                THEN [request[r] EXCEPT !.status = "expired", !.key = s]
                ELSE request[r]]
           /\ sweep' = [sweep EXCEPT ![s].pc = IF hit = {} THEN "done" ELSE "announce"]
    /\ UNCHANGED <<mode, grant, call, decision, switching, switches, announced>>

SweepAnnounce(s) ==
    /\ sweep[s].pc = "announce"
    /\ announced' = [r \in Calls |->
         IF /\ r \in sweep[s].found
            /\ request[r].status = "expired"
            /\ request[r].key = s
         THEN announced[r] + 1 ELSE announced[r]]
    /\ sweep' = [sweep EXCEPT ![s].pc = "done"]
    /\ UNCHANGED <<mode, request, grant, call, decision, switching, switches>>

-----------------------------------------------------------------------------
CallStep(c) == ResolveMode(c) \/ CheckGrant(c) \/ FindPending(c)
                   \/ InsertRequest(c) \/ Poll(c)

DecisionStep(d) ==
    \/ \E r \in Calls, verdict \in Verdict, key \in DecisionKeys :
           Decide(d, r, verdict, key) \/ DecideAgain(d, r, verdict, key)
    \/ RecheckMode(d) \/ Rollback(d) \/ MintGrant(d) \/ DecisionFails(d)

SwitchStep == \/ \E m \in Mode : SwitchMode(m)
              \/ RevokeGrants \/ CancelPending \/ SwitchFails

SweepStep(s) == SweepFind(s) \/ SweepExpire(s) \/ SweepAnnounce(s)

ApprovalNext ==
    \/ \E c \in Calls : CallStep(c) \/ Disconnect(c) \/ Lapse(c) \/ GrantLapses(c)
    \/ \E d \in Decisions : DecisionStep(d)
    \/ SwitchStep
    \/ \E s \in Sweeps : SweepStep(s)

ApprovalSpec == ApprovalInit /\ [][ApprovalNext]_approvalVars

(* A call polls every second and time passes; nobody has to decide, and    *)
(* no sweep has to run.                                                    *)
ApprovalFairness ==
    \A c \in Calls : /\ WF_approvalVars(CallStep(c))
                     /\ WF_approvalVars(Lapse(c))

ApprovalFairSpec == ApprovalSpec /\ ApprovalFairness

-----------------------------------------------------------------------------
(* In per_request mode an approval lets one call through at most: calls    *)
(* made at the same time do not share it (create_approval_request).        *)
OneCallPerApproval ==
    \A b, c \in Calls :
        /\ call[b].pc = "through"
        /\ call[c].pc = "through"
        /\ call[b].mode = "per_request"
        /\ call[b].on = call[c].on
        => b = c

(* What left the program about a request is its outcome for good: the      *)
(* answer to an accepted decision, which neither a sweep that found the    *)
(* request pending nor the clean-up after a change of mode overwrites; the *)
(* notice of its expiry, sent once at most by overlapping sweeps; and the  *)
(* grant, which only an approved request of grant mode has                 *)
(* (process_decision, expire_pending_requests).                            *)
OutcomeIsFinal ==
    /\ \A d \in Decisions :
         decision[d].pc = "accepted" => request[decision[d].on].status = decision[d].verdict
    /\ \A r \in Calls :
         /\ announced[r] <= 1
         /\ announced[r] = 1 => request[r].status = "expired"
         /\ grant[r] # "none" => request[r].status = "approved" /\ request[r].mode = "grant"

(* Every call ends even if nobody decides and no sweep runs.               *)
EveryCallEnds ==
    \A c \in Calls :
        call[c].pc = "resolved" ~> call[c].pc \in {"through", "refused"}

(* A decision that is turned down because the mode changed lets no call    *)
(* through.  The comment in process_decision says that such decisions are  *)
(* rejected.                                                               *)
RolledBackLetsNoneThrough ==
    \A d \in Decisions, c \in Calls :
        decision[d].pc = "rolled_back" =>
            ~(call[c].pc = "through" /\ call[c].on = decision[d].on)
=============================================================================
