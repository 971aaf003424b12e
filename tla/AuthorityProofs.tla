-------------------------- MODULE AuthorityProofs --------------------------
(***************************************************************************)
(* What lets a client act for a user is granted once, withdrawn for good   *)
(* and decided once: the theorems on approvals, OAuth consents and refresh *)
(* tokens, for any number of calls, decisions, sweeps, pages, exchanges    *)
(* and requests.                                                           *)
(***************************************************************************)
EXTENDS MCAuthority, TLAPS

-----------------------------------------------------------------------------
(* Approvals.                                                              *)

(* A call that has not inserted a request yet has none; afterwards it      *)
(* waits on a request of its own mode, in per_request mode on its own.     *)
CallSound(c) ==
    /\ call[c].pc \in {"idle", "resolved", "finding", "inserting"} =>
         call[c].on = NoCall /\ request[c].status = "none"
    /\ call[c].pc = "waiting" => call[c].on # NoCall
    /\ call[c].pc = "through" /\ call[c].mode = "per_request" => call[c].on # NoCall
    /\ call[c].on # NoCall =>
         /\ request[call[c].on].status # "none"
         /\ request[call[c].on].mode = call[c].mode
         /\ call[c].mode = "per_request" => call[c].on = c

CallDoc == [pc : CallState, mode : Mode, attempt : 1 .. 2, on : Calls \cup {NoCall}]

RequestDoc == [status : {"none", "pending", "expired"} \cup Verdict, mode : Mode,
               lapsed : BOOLEAN, key : DecisionKeys \cup Sweeps \cup {NoKey}]

CallInv == \A c \in Calls : CallSound(c)

(* Decisions that wrote their verdict and have not been taken back.        *)
Deciding == {"recheck", "mint", "rollback", "accepted"}

(* The verdict of each stands, and is the only one on its request; until   *)
(* the decision is accepted the request has no grant.                      *)
DecisionInv ==
    /\ \A d \in Decisions : decision[d].pc \in Deciding =>
         /\ decision[d].on \in Calls
         /\ request[decision[d].on].status = decision[d].verdict
         /\ decision[d].pc # "accepted" =>
              /\ decision[d].verdict = "approved"
              /\ request[decision[d].on].mode = "grant"
              /\ grant[decision[d].on] = "none"
    /\ \A d, e \in Decisions :
         /\ decision[d].pc \in Deciding /\ decision[e].pc \in Deciding
         /\ decision[d].on = decision[e].on
         => d = e
    /\ \A r \in Calls :
         grant[r] # "none" => request[r].status = "approved" /\ request[r].mode = "grant"

(* The expiry of a request is announced by the sweep whose marker it has,  *)
(* and that sweep is done.                                                 *)
NoticeInv ==
    \A r \in Calls :
      /\ announced[r] \in {0, 1}
      /\ announced[r] = 1 => /\ request[r].status = "expired"
                             /\ request[r].key \in Sweeps
                             /\ sweep[request[r].key].pc = "done"

ApprovalInv == ApprovalTypeOK /\ CallInv /\ DecisionInv /\ NoticeInv

LEMMA ApprovalInitInv == ApprovalInit => ApprovalInv
  <1> SUFFICES ASSUME ApprovalInit PROVE ApprovalInv
    OBVIOUS
  <1>1. ApprovalTypeOK
    BY ApprovalAssumption DEF ApprovalInit, ApprovalTypeOK, Mode, CallState, DecisionState, Verdict
  <1>2. CallInv
    BY DEF ApprovalInit, CallInv, CallSound
  <1>3. DecisionInv
    BY DEF ApprovalInit, DecisionInv, Deciding
  <1>4. NoticeInv
    BY DEF ApprovalInit, NoticeInv
  <1> QED BY <1>1, <1>2, <1>3, <1>4 DEF ApprovalInv

(* Requests that are not pending stay as they are, and none goes back.     *)
RequestsKept ==
    /\ request' \in [Calls -> RequestDoc]
    /\ \A r \in Calls :
         /\ request[r].status = "none" <=> request'[r].status = "none"
         /\ request'[r].mode = request[r].mode
         /\ request[r].status # "pending" =>
              request'[r].status = request[r].status /\ request'[r].key = request[r].key

LEMMA RequestsUnchanged == ApprovalTypeOK /\ UNCHANGED request => RequestsKept
  BY DEF ApprovalTypeOK, RequestsKept, RequestDoc

LEMMA KeptCallInv ==
    ASSUME ApprovalInv, RequestsKept, UNCHANGED call PROVE CallInv'
  BY DEF ApprovalInv, ApprovalTypeOK, CallInv, CallSound, RequestsKept, RequestDoc

LEMMA KeptDecisionInv ==
    ASSUME ApprovalInv, RequestsKept, UNCHANGED decision,
           \A r \in Calls : grant[r] = "none" <=> grant'[r] = "none"
    PROVE  DecisionInv'
  BY DEF ApprovalInv, ApprovalTypeOK, DecisionInv, RequestsKept, RequestDoc, Verdict, Deciding

LEMMA KeptNoticeInv ==
    ASSUME ApprovalInv, RequestsKept, UNCHANGED announced,
           \A s \in Sweeps : sweep[s].pc = "done" => sweep'[s].pc = "done"
    PROVE  NoticeInv'
  BY DEF ApprovalInv, ApprovalTypeOK, NoticeInv, RequestsKept, RequestDoc

(* A call moves on and waits on nothing new.                               *)
LEMMA CallMoves ==
    ASSUME ApprovalInv, NEW c \in Calls, CallOnly,
           NEW label \in {"resolved", "finding", "inserting", "through", "refused"},
           NEW m \in Mode,
           call' = [call EXCEPT ![c].pc = label, ![c].mode = m],
           call[c].on # NoCall => m = call[c].mode,
           label \in {"resolved", "finding", "inserting"} =>
               call[c].pc \in {"idle", "resolved", "finding"},
           label = "through" /\ m = "per_request" => call[c].on # NoCall
    PROVE  ApprovalInv'
  <1>1. ApprovalTypeOK'
    <2>1. call' \in [Calls -> CallDoc]
      <3>1. call \in [Calls -> CallDoc] /\ call[c] \in CallDoc
        BY DEF ApprovalInv, ApprovalTypeOK, CallDoc
      <3>2. call' = [call EXCEPT ![c] = [call[c] EXCEPT !.pc = label, !.mode = m]]
        BY <3>1
      <3>3. [call[c] EXCEPT !.pc = label, !.mode = m] \in CallDoc
        BY <3>1 DEF CallDoc, CallState
      <3> QED BY <3>1, <3>2, <3>3
    <2> QED BY <2>1 DEF ApprovalInv, ApprovalTypeOK, CallDoc, CallOnly
  <1>2. CallInv'
    <2>1. ASSUME NEW b \in Calls, b # c PROVE CallSound(b)'
      BY <2>1 DEF ApprovalInv, ApprovalTypeOK, CallInv, CallSound, CallOnly
    <2>2. call'[c].pc = label /\ call'[c].mode = m /\ call'[c].on = call[c].on
      BY DEF ApprovalInv, ApprovalTypeOK
    <2>3. CallSound(c)'
      BY <2>2 DEF ApprovalInv, CallInv, CallSound, CallOnly
    <2> QED BY <2>1, <2>3 DEF CallInv
  <1>3. DecisionInv' /\ NoticeInv'
    BY RequestsUnchanged, KeptDecisionInv, KeptNoticeInv DEF ApprovalInv, CallOnly
  <1> QED BY <1>1, <1>2, <1>3 DEF ApprovalInv

(* A call waits on a request that is there and has its mode.               *)
LEMMA JoinInv ==
    ASSUME ApprovalInv, NEW c \in Calls, NEW r \in Calls, CallOnly, SameKey(c, r),
           call' = [call EXCEPT ![c].pc = "waiting", ![c].on = r]
    PROVE  ApprovalInv'
  <1>1. ApprovalTypeOK'
    <2>1. call' \in [Calls -> CallDoc]
      <3>1. call \in [Calls -> CallDoc] /\ call[c] \in CallDoc
        BY DEF ApprovalInv, ApprovalTypeOK, CallDoc
      <3>2. call' = [call EXCEPT ![c] = [call[c] EXCEPT !.pc = "waiting", !.on = r]]
        BY <3>1
      <3>3. [call[c] EXCEPT !.pc = "waiting", !.on = r] \in CallDoc
        BY <3>1 DEF CallDoc, CallState
      <3> QED BY <3>1, <3>2, <3>3
    <2> QED BY <2>1 DEF ApprovalInv, ApprovalTypeOK, CallDoc, CallOnly
  <1>2. CallInv'
    <2>1. ASSUME NEW b \in Calls, b # c PROVE CallSound(b)'
      BY <2>1 DEF ApprovalInv, ApprovalTypeOK, CallInv, CallSound, CallOnly
    <2>2. call'[c].pc = "waiting" /\ call'[c].mode = call[c].mode /\ call'[c].on = r
      BY DEF ApprovalInv, ApprovalTypeOK
    <2>3. CallSound(c)'
      BY <2>2, ApprovalAssumption DEF ApprovalInv, CallInv, CallSound, CallOnly, SameKey
    <2> QED BY <2>1, <2>3 DEF CallInv
  <1>3. DecisionInv' /\ NoticeInv'
    BY RequestsUnchanged, KeptDecisionInv, KeptNoticeInv DEF ApprovalInv, CallOnly
  <1> QED BY <1>1, <1>2, <1>3 DEF ApprovalInv

(* A call inserts its request.                                             *)
LEMMA InsertInv ==
    ASSUME ApprovalInv, NEW c \in Calls, call[c].pc = "inserting",
           request' = [request EXCEPT ![c].status = "pending", ![c].mode = call[c].mode],
           call' = [call EXCEPT ![c].pc = "waiting", ![c].on = c],
           UNCHANGED <<mode, grant, decision, switching, switches, sweep, announced>>
    PROVE  ApprovalInv'
  <1>0. request[c].status = "none"
    BY DEF ApprovalInv, CallInv, CallSound
  <1>1. ApprovalTypeOK'
    <2>1. call' \in [Calls -> CallDoc]
      <3>1. call \in [Calls -> CallDoc] /\ call[c] \in CallDoc
        BY DEF ApprovalInv, ApprovalTypeOK, CallDoc
      <3>2. call' = [call EXCEPT ![c] = [call[c] EXCEPT !.pc = "waiting", !.on = c]]
        BY <3>1
      <3>3. [call[c] EXCEPT !.pc = "waiting", !.on = c] \in CallDoc
        BY <3>1 DEF CallDoc, CallState
      <3> QED BY <3>1, <3>2, <3>3
    <2>2. request' \in [Calls -> RequestDoc]
      <3>1. request \in [Calls -> RequestDoc] /\ call[c].mode \in Mode
        BY DEF ApprovalInv, ApprovalTypeOK, RequestDoc
      <3>2. request' = [request EXCEPT ![c] = [request[c] EXCEPT !.status = "pending",
                                                                 !.mode = call[c].mode]]
        BY <3>1
      <3>3. [request[c] EXCEPT !.status = "pending", !.mode = call[c].mode] \in RequestDoc
        BY <3>1 DEF RequestDoc
      <3> QED BY <3>1, <3>2, <3>3
    <2> QED BY <2>1, <2>2 DEF ApprovalInv, ApprovalTypeOK, CallDoc, RequestDoc
  <1>2. CallInv'
    <2>1. ASSUME NEW b \in Calls, b # c PROVE CallSound(b)'
      BY <2>1, <1>0 DEF ApprovalInv, ApprovalTypeOK, CallInv, CallSound
    <2>2. /\ call'[c].pc = "waiting" /\ call'[c].mode = call[c].mode /\ call'[c].on = c
          /\ request'[c].status = "pending" /\ request'[c].mode = call[c].mode
      BY DEF ApprovalInv, ApprovalTypeOK
    <2>3. CallSound(c)'
      BY <2>2, ApprovalAssumption DEF ApprovalInv, CallInv, CallSound
    <2> QED BY <2>1, <2>3 DEF CallInv
  <1>3. DecisionInv'
    BY <1>0 DEF ApprovalInv, ApprovalTypeOK, DecisionInv, Verdict, Deciding
  <1>4. NoticeInv'
    BY <1>0 DEF ApprovalInv, ApprovalTypeOK, NoticeInv
  <1> QED BY <1>1, <1>2, <1>3, <1>4 DEF ApprovalInv

LEMMA CallStepInv ==
    ASSUME ApprovalInv, NEW c \in Calls, CallStep(c) \/ Disconnect(c)
    PROVE  ApprovalInv'
  <1>0. /\ call \in [Calls -> [pc : CallState, mode : Mode, attempt : 1 .. 2,
                               on : Calls \cup {NoCall}]]
        /\ call[c].mode \in Mode /\ mode \in Mode
    BY DEF ApprovalInv, ApprovalTypeOK
  <1>1. ASSUME NEW label, call' = [call EXCEPT ![c].pc = label]
        PROVE  call' = [call EXCEPT ![c].pc = label, ![c].mode = call[c].mode]
    BY <1>0, <1>1
  <1>2. CASE ResolveMode(c)
    <2>1. call[c].on = NoCall
      BY <1>2 DEF ResolveMode, ApprovalInv, CallInv, CallSound
    <2> QED BY <1>0, <1>2, <2>1, CallMoves DEF ResolveMode
  <1>3. CASE CheckGrant(c)
    BY <1>0, <1>1, <1>3, CallMoves DEF CheckGrant
  <1>4. CASE FindPending(c)
    BY <1>0, <1>1, <1>4, CallMoves, JoinInv DEF FindPending
  <1>5. CASE InsertRequest(c)
    <2>1. CASE /\ call' = [call EXCEPT
                    ![c].pc = IF call[c].attempt = 1 THEN "finding" ELSE "refused",
                    ![c].attempt = 2]
               /\ UNCHANGED request
      <3>1. ApprovalTypeOK'
        <4>1. call' \in [Calls -> CallDoc]
          <5>1. call \in [Calls -> CallDoc] /\ call[c] \in CallDoc
            BY DEF ApprovalInv, ApprovalTypeOK, CallDoc
          <5> DEFINE label == IF call[c].attempt = 1 THEN "finding" ELSE "refused"
          <5>2. call' = [call EXCEPT ![c] = [call[c] EXCEPT !.pc = label, !.attempt = 2]]
            BY <2>1, <5>1
          <5>3. [call[c] EXCEPT !.pc = label, !.attempt = 2] \in CallDoc
            <6>1. label \in CallState /\ 2 \in 1 .. 2
              BY DEF CallState
            <6> QED BY <5>1, <6>1 DEF CallDoc
          <5> QED BY <5>1, <5>2, <5>3
        <4> QED BY <1>5, <2>1, <4>1 DEF ApprovalInv, ApprovalTypeOK, InsertRequest, CallDoc
      <3>2. CallInv'
        <4>1. ASSUME NEW b \in Calls, b # c PROVE CallSound(b)'
          BY <2>1, <4>1 DEF ApprovalInv, ApprovalTypeOK, CallInv, CallSound
        <4>2. /\ call'[c].pc \in {"finding", "refused"} /\ call'[c].mode = call[c].mode
              /\ call'[c].on = call[c].on
          BY <2>1 DEF ApprovalInv, ApprovalTypeOK
        <4>3. CallSound(c)'
          BY <1>5, <2>1, <4>2 DEF ApprovalInv, CallInv, CallSound, InsertRequest
        <4> QED BY <4>1, <4>3 DEF CallInv
      <3>3. DecisionInv' /\ NoticeInv'
        BY <1>5, <2>1, RequestsUnchanged, KeptDecisionInv, KeptNoticeInv
           DEF ApprovalInv, InsertRequest
      <3> QED BY <3>1, <3>2, <3>3 DEF ApprovalInv
    <2>2. CASE /\ request' = [request EXCEPT ![c].status = "pending", ![c].mode = call[c].mode]
               /\ call' = [call EXCEPT ![c].pc = "waiting", ![c].on = c]
      BY <1>5, <2>2, InsertInv DEF InsertRequest
    <2> QED BY <1>5, <2>1, <2>2 DEF InsertRequest
  <1>6. CASE Poll(c)
    <2>1. call[c].on # NoCall
      BY <1>6 DEF Poll, ApprovalInv, CallInv, CallSound
    <2> QED BY <1>0, <1>1, <1>6, <2>1, CallMoves DEF Poll
  <1>7. CASE Disconnect(c)
    BY <1>0, <1>1, <1>7, CallMoves DEF Disconnect
  <1> QED BY <1>2, <1>3, <1>4, <1>5, <1>6, <1>7 DEF CallStep

(* A step that changes requests, grants and sweeps in the allowed ways.    *)
LEMMA KeptStepInv ==
    ASSUME ApprovalInv, RequestsKept, UNCHANGED <<call, decision, announced>>,
           mode' \in Mode, switching' \in {"done", "revoke", "cancel"},
           switches' \in 0 .. MaxSwitches,
           grant' \in [Calls -> {"none", "active", "lapsed", "revoked"}],
           \A r \in Calls : grant[r] = "none" <=> grant'[r] = "none",
           sweep' \in [Sweeps -> [pc : {"idle", "found", "announce", "done"},
                                  found : SUBSET Calls]],
           \A s \in Sweeps : sweep[s].pc = "done" => sweep'[s].pc = "done"
    PROVE  ApprovalInv'
  <1>1. ApprovalTypeOK'
    BY DEF ApprovalInv, ApprovalTypeOK, RequestsKept, RequestDoc
  <1> QED BY <1>1, KeptCallInv, KeptDecisionInv, KeptNoticeInv DEF ApprovalInv

LEMMA SwitchStepInv ==
    ASSUME ApprovalInv, SwitchStep
    PROVE  ApprovalInv'
  <1>0. /\ request \in [Calls -> RequestDoc] /\ mode \in Mode
        /\ switching \in {"done", "revoke", "cancel"} /\ switches \in 0 .. MaxSwitches
        /\ grant \in [Calls -> {"none", "active", "lapsed", "revoked"}]
        /\ sweep \in [Sweeps -> [pc : {"idle", "found", "announce", "done"},
                                 found : SUBSET Calls]]
    BY DEF ApprovalInv, ApprovalTypeOK, RequestDoc
  <1>1. CASE \E m \in Mode : SwitchMode(m)
    <2>1. switches' \in 0 .. MaxSwitches
      BY <1>0, <1>1, ApprovalAssumption DEF SwitchMode
    <2>2. RequestsKept
      BY <1>1, RequestsUnchanged DEF SwitchMode, ApprovalInv
    <2> QED BY <1>0, <1>1, <2>1, <2>2, KeptStepInv DEF SwitchMode
  <1>2. CASE RevokeGrants
    <2>1. RequestsKept
      BY <1>2, RequestsUnchanged DEF RevokeGrants, ApprovalInv
    <2>2. /\ grant' \in [Calls -> {"none", "active", "lapsed", "revoked"}]
          /\ \A r \in Calls : grant[r] = "none" <=> grant'[r] = "none"
      BY <1>2 DEF RevokeGrants
    <2> QED BY <1>0, <1>2, <2>1, <2>2, KeptStepInv DEF RevokeGrants
  <1>3. CASE CancelPending
    <2>1. ASSUME NEW k \in RequestDoc
          PROVE  [k EXCEPT !.status = "expired"] \in RequestDoc
      BY DEF RequestDoc
    <2>2. RequestsKept
      BY <1>0, <1>3, <2>1 DEF CancelPending, RequestsKept, RequestDoc
    <2> QED BY <1>0, <1>3, <2>2, KeptStepInv DEF CancelPending
  <1>4. CASE SwitchFails
    <2>1. RequestsKept
      BY <1>4, RequestsUnchanged DEF SwitchFails, ApprovalInv
    <2> QED BY <1>0, <1>4, <2>1, KeptStepInv DEF SwitchFails
  <1> QED BY <1>1, <1>2, <1>3, <1>4 DEF SwitchStep

LEMMA TimeStepInv ==
    ASSUME ApprovalInv, NEW c \in Calls, Lapse(c) \/ GrantLapses(c)
    PROVE  ApprovalInv'
  <1>0. /\ request \in [Calls -> RequestDoc] /\ mode \in Mode
        /\ switching \in {"done", "revoke", "cancel"} /\ switches \in 0 .. MaxSwitches
        /\ grant \in [Calls -> {"none", "active", "lapsed", "revoked"}]
        /\ sweep \in [Sweeps -> [pc : {"idle", "found", "announce", "done"},
                                 found : SUBSET Calls]]
    BY DEF ApprovalInv, ApprovalTypeOK, RequestDoc
  <1>1. CASE Lapse(c)
    <2>1. [request[c] EXCEPT !.lapsed = TRUE] \in RequestDoc
      <3>1. ASSUME NEW b \in BOOLEAN PROVE [request[c] EXCEPT !.lapsed = b] \in RequestDoc
        BY <1>0 DEF RequestDoc
      <3> QED BY <3>1
    <2>2. request' = [request EXCEPT ![c] = [request[c] EXCEPT !.lapsed = TRUE]]
      BY <1>0, <1>1 DEF Lapse
    <2>3. RequestsKept
      BY <1>0, <2>1, <2>2 DEF RequestsKept, RequestDoc
    <2> QED BY <1>0, <1>1, <2>3, KeptStepInv DEF Lapse
  <1>2. CASE GrantLapses(c)
    <2>1. RequestsKept
      BY <1>2, RequestsUnchanged DEF GrantLapses, ApprovalInv
    <2>2. /\ grant' \in [Calls -> {"none", "active", "lapsed", "revoked"}]
          /\ \A r \in Calls : grant[r] = "none" <=> grant'[r] = "none"
      BY <1>0, <1>2 DEF GrantLapses
    <2> QED BY <1>0, <1>2, <2>1, <2>2, KeptStepInv DEF GrantLapses
  <1> QED BY <1>1, <1>2

LEMMA SweepStepInv ==
    ASSUME ApprovalInv, NEW s \in Sweeps, SweepStep(s)
    PROVE  ApprovalInv'
  <1> DEFINE SweepDoc == [pc : {"idle", "found", "announce", "done"}, found : SUBSET Calls]
  <1>0. /\ request \in [Calls -> RequestDoc] /\ mode \in Mode
        /\ switching \in {"done", "revoke", "cancel"} /\ switches \in 0 .. MaxSwitches
        /\ grant \in [Calls -> {"none", "active", "lapsed", "revoked"}]
        /\ sweep \in [Sweeps -> SweepDoc] /\ sweep[s].found \in SUBSET Calls
        /\ announced \in [Calls -> Nat]
    BY DEF ApprovalInv, ApprovalTypeOK, RequestDoc
  <1>a. ASSUME NEW label \in {"idle", "found", "announce", "done"}
        PROVE  [sweep[s] EXCEPT !.pc = label] \in SweepDoc
    BY <1>0
  <1>1. CASE SweepFind(s)
    <2>1. RequestsKept
      BY <1>1, RequestsUnchanged DEF SweepFind, ApprovalInv
    <2>2. /\ sweep' \in [Sweeps -> SweepDoc]
          /\ \A t \in Sweeps : sweep[t].pc = "done" => sweep'[t].pc = "done"
      BY <1>0, <1>1 DEF SweepFind, Overdue
    <2> QED BY <1>0, <1>1, <2>1, <2>2, KeptStepInv DEF SweepFind
  <1>2. CASE SweepExpire(s)
    <2> DEFINE hit == {r \in sweep[s].found : request[r].status = "pending"}
    <2>1. ASSUME NEW k \in RequestDoc
          PROVE  [k EXCEPT !.status = "expired", !.key = s] \in RequestDoc
      BY DEF RequestDoc
    <2>2. request' = [r \in Calls |-> IF r \in hit
                                      THEN [request[r] EXCEPT !.status = "expired", !.key = s]
                                      ELSE request[r]]
      BY <1>2 DEF SweepExpire
    <2>3. PICK label \in {"done", "announce"} :
             sweep' = [sweep EXCEPT ![s] = [sweep[s] EXCEPT !.pc = label]]
      <3>1. sweep' = [sweep EXCEPT ![s].pc = IF hit = {} THEN "done" ELSE "announce"]
        BY <1>2 DEF SweepExpire
      <3>2. CASE hit = {}
        BY <1>0, <3>1, <3>2
      <3>3. CASE hit # {}
        BY <1>0, <3>1, <3>3
      <3> QED BY <3>2, <3>3
    <2>4. RequestsKept
      BY <1>0, <2>1, <2>2 DEF RequestsKept, RequestDoc
    <2>5. /\ sweep' \in [Sweeps -> SweepDoc]
          /\ \A t \in Sweeps : sweep[t].pc = "done" => sweep'[t].pc = "done"
      BY <1>0, <1>2, <1>a, <2>3 DEF SweepExpire
    <2> QED BY <1>0, <1>2, <2>4, <2>5, KeptStepInv DEF SweepExpire
  <1>3. CASE SweepAnnounce(s)
    <2>1. RequestsKept /\ UNCHANGED <<mode, request, grant, call, decision, switching, switches>>
      BY <1>3, RequestsUnchanged DEF SweepAnnounce, ApprovalInv
    <2>2. sweep' = [sweep EXCEPT ![s] = [sweep[s] EXCEPT !.pc = "done"]]
      BY <1>0, <1>3 DEF SweepAnnounce
    <2>3. sweep' \in [Sweeps -> SweepDoc]
      BY <1>0, <1>a, <2>2
    <2>4. \A r \in Calls : announced[r] + 1 \in Nat
      BY <1>0
    <2>5. announced' \in [Calls -> Nat]
      BY <1>0, <1>3, <2>4 DEF SweepAnnounce
    <2>6. ApprovalTypeOK'
      BY <2>1, <2>3, <2>5 DEF ApprovalInv, ApprovalTypeOK
    <2>7. \A t \in Sweeps : /\ t # s => sweep'[t] = sweep[t]
                            /\ sweep'[s].pc = "done"
      BY <1>0, <2>2
    <2>8. NoticeInv'
      <3> SUFFICES ASSUME NEW r \in Calls
                   PROVE  /\ announced'[r] \in {0, 1}
                          /\ announced'[r] = 1 => /\ request[r].status = "expired"
                                                  /\ request[r].key \in Sweeps
                                                  /\ sweep'[request[r].key].pc = "done"
        BY <2>1 DEF NoticeInv
      <3>1. CASE /\ r \in sweep[s].found /\ request[r].status = "expired"
                 /\ request[r].key = s
        <4>1. announced[r] = 0
          BY <1>3, <3>1 DEF SweepAnnounce, ApprovalInv, NoticeInv
        <4>2. announced'[r] = announced[r] + 1
          BY <1>3, <3>1 DEF SweepAnnounce
        <4> QED BY <2>7, <3>1, <4>1, <4>2
      <3>2. CASE ~(/\ r \in sweep[s].found /\ request[r].status = "expired"
                   /\ request[r].key = s)
        <4>1. announced'[r] = announced[r]
          BY <1>3, <3>2 DEF SweepAnnounce
        <4> QED BY <2>7, <4>1 DEF ApprovalInv, NoticeInv
      <3> QED BY <3>1, <3>2
    <2> QED BY <2>1, <2>6, <2>8, KeptCallInv, KeptDecisionInv DEF ApprovalInv
  <1> QED BY <1>1, <1>2, <1>3 DEF SweepStep

DecisionDoc == [pc : DecisionState, on : Calls \cup {NoCall}, verdict : Verdict]

(* A decision moves on, and no verdict is written or taken back.           *)
LEMMA DecisionMoves ==
    ASSUME ApprovalInv, NEW d \in Decisions, NEW k \in DecisionDoc,
           decision' = [decision EXCEPT ![d] = k],
           UNCHANGED <<mode, request, grant, call, switching, switches, sweep, announced>>,
           k.pc \in Deciding =>
             /\ decision[d].pc \in Deciding \ {"accepted"}
             /\ k.on = decision[d].on /\ k.verdict = decision[d].verdict
    PROVE  ApprovalInv'
  <1>0. decision \in [Decisions -> DecisionDoc]
    BY DEF ApprovalInv, ApprovalTypeOK, DecisionDoc
  <1>1. ApprovalTypeOK'
    BY <1>0 DEF ApprovalInv, ApprovalTypeOK, DecisionDoc
  <1>2. \A e \in Decisions : /\ e # d => decision'[e] = decision[e]
                             /\ decision'[d] = k
    BY <1>0
  <1>3. DecisionInv'
    BY <1>2 DEF ApprovalInv, DecisionInv
  <1>4. CallInv' /\ NoticeInv'
    BY RequestsUnchanged, KeptCallInv, KeptNoticeInv DEF ApprovalInv
  <1> QED BY <1>1, <1>3, <1>4 DEF ApprovalInv

(* A verdict is written on a pending request.                              *)
LEMMA DecideInv ==
    ASSUME ApprovalInv, NEW d \in Decisions, NEW r \in Calls, NEW verdict \in Verdict,
           NEW key \in DecisionKeys, Decide(d, r, verdict, key)
    PROVE  ApprovalInv'
  <1> DEFINE label == IF verdict = "approved" /\ request[r].mode = "grant"
                   THEN "recheck" ELSE "accepted"
             k == [pc |-> label, on |-> r, verdict |-> verdict]
             q == [request[r] EXCEPT !.status = verdict, !.key = key]
  <1>0. /\ decision \in [Decisions -> DecisionDoc] /\ request \in [Calls -> RequestDoc]
        /\ request[r].status = "pending"
    BY DEF ApprovalInv, ApprovalTypeOK, DecisionDoc, RequestDoc, Decide
  <1>1. k \in DecisionDoc /\ k.pc \in {"recheck", "accepted"}
    BY DEF DecisionDoc, DecisionState
  <1>2. q \in RequestDoc /\ q.status = verdict /\ q.mode = request[r].mode
    BY <1>0 DEF RequestDoc
  <1>3. decision' = [decision EXCEPT ![d] = k] /\ request' = [request EXCEPT ![r] = q]
        /\ UNCHANGED <<mode, grant, call, switching, switches, sweep, announced>>
    BY <1>0 DEF Decide
  <1>4. k.pc = "recheck" => verdict = "approved" /\ request[r].mode = "grant"
    OBVIOUS
  <1>5. k.on = r /\ k.verdict = verdict
    OBVIOUS
  <1> HIDE DEF label, k, q
  <1>6. RequestsKept
    BY <1>0, <1>2, <1>3 DEF RequestsKept, Verdict, RequestDoc
  <1>7. ApprovalTypeOK'
    BY <1>0, <1>1, <1>3, <1>6
       DEF ApprovalInv, ApprovalTypeOK, DecisionDoc, RequestsKept, RequestDoc
  <1>8. /\ decision'[d] = k /\ request'[r] = q
        /\ \A e \in Decisions : e # d => decision'[e] = decision[e]
        /\ \A c \in Calls : c # r => request'[c] = request[c]
    BY <1>0, <1>3
  <1>9. \A e \in Decisions : decision[e].pc \in Deciding => decision[e].on # r
    <2>1. \A e \in Decisions : decision[e].verdict \in Verdict
      BY <1>0 DEF DecisionDoc
    <2> QED BY <1>0, <2>1 DEF ApprovalInv, DecisionInv, Verdict
  <1>10. grant[r] = "none"
    BY <1>0 DEF ApprovalInv, DecisionInv
  <1>11. DecisionInv'
    BY <1>1, <1>2, <1>3, <1>4, <1>5, <1>8, <1>9, <1>10 DEF ApprovalInv, DecisionInv, Deciding
  <1> QED BY <1>3, <1>6, <1>7, <1>11, KeptCallInv, KeptNoticeInv DEF ApprovalInv

(* A verdict is taken back.                                                *)
LEMMA RollbackInv ==
    ASSUME ApprovalInv, NEW d \in Decisions, Rollback(d)
    PROVE  ApprovalInv'
  <1> DEFINE r == decision[d].on
             k == [decision[d] EXCEPT !.pc = "rolled_back"]
             q == [request[r] EXCEPT !.status = "expired"]
  <1>0. /\ decision \in [Decisions -> DecisionDoc] /\ request \in [Calls -> RequestDoc]
        /\ decision[d].pc = "rollback"
    BY DEF ApprovalInv, ApprovalTypeOK, DecisionDoc, RequestDoc, Rollback
  <1>1. r \in Calls /\ request[r].status = "approved" /\ grant[r] = "none"
    BY <1>0 DEF ApprovalInv, DecisionInv, Deciding
  <1>2. k \in DecisionDoc /\ k.pc = "rolled_back"
    BY <1>0 DEF DecisionDoc, DecisionState
  <1>3. /\ q \in RequestDoc /\ q.status = "expired" /\ q.mode = request[r].mode
        /\ q.key = request[r].key
    BY <1>0, <1>1 DEF RequestDoc
  <1>4. decision' = [decision EXCEPT ![d] = k] /\ request' = [request EXCEPT ![r] = q]
        /\ UNCHANGED <<mode, grant, call, switching, switches, sweep, announced>>
    BY <1>0, <1>1 DEF Rollback
  <1>5. \A e \in Decisions : decision[e].pc \in Deciding /\ e # d => decision[e].on # r
    BY <1>0 DEF ApprovalInv, DecisionInv, Deciding
  <1> HIDE DEF k, q, r
  <1>6. ApprovalTypeOK'
    BY <1>0, <1>1, <1>2, <1>3, <1>4 DEF ApprovalInv, ApprovalTypeOK, DecisionDoc, RequestDoc
  <1>7. /\ decision'[d] = k /\ request'[r] = q
        /\ \A e \in Decisions : e # d => decision'[e] = decision[e]
        /\ \A c \in Calls : c # r => request'[c] = request[c]
    BY <1>0, <1>1, <1>4
  <1>8. DecisionInv'
    BY <1>1, <1>2, <1>4, <1>5, <1>7 DEF ApprovalInv, DecisionInv, Deciding
  <1>9. CallInv'
    BY <1>0, <1>1, <1>3, <1>4, <1>7 DEF ApprovalInv, ApprovalTypeOK, CallInv, CallSound
  <1>10. NoticeInv'
    BY <1>1, <1>3, <1>4, <1>7 DEF ApprovalInv, NoticeInv
  <1> QED BY <1>6, <1>8, <1>9, <1>10 DEF ApprovalInv

(* An approved request gets its grant.                                     *)
LEMMA MintInv ==
    ASSUME ApprovalInv, NEW d \in Decisions, MintGrant(d)
    PROVE  ApprovalInv'
  <1> DEFINE r == decision[d].on
             k == [decision[d] EXCEPT !.pc = "accepted"]
  <1>0. /\ decision \in [Decisions -> DecisionDoc] /\ decision[d].pc = "mint"
        /\ grant \in [Calls -> {"none", "active", "lapsed", "revoked"}]
    BY DEF ApprovalInv, ApprovalTypeOK, DecisionDoc, MintGrant
  <1>1. /\ r \in Calls /\ request[r].status = "approved" /\ decision[d].verdict = "approved"
        /\ request[r].mode = "grant"
    BY <1>0 DEF ApprovalInv, DecisionInv, Deciding
  <1>2. k \in DecisionDoc /\ k.pc = "accepted" /\ k.on = r /\ k.verdict = decision[d].verdict
    BY <1>0 DEF DecisionDoc, DecisionState
  <1>3. decision' = [decision EXCEPT ![d] = k] /\ grant' = [grant EXCEPT ![r] = "active"]
        /\ UNCHANGED <<mode, request, call, switching, switches, sweep, announced>>
    BY <1>0 DEF MintGrant
  <1>4. \A e \in Decisions : decision[e].pc \in Deciding /\ e # d => decision[e].on # r
    BY <1>0 DEF ApprovalInv, DecisionInv, Deciding
  <1> HIDE DEF k, r
  <1>5. ApprovalTypeOK'
    BY <1>0, <1>1, <1>2, <1>3 DEF ApprovalInv, ApprovalTypeOK, DecisionDoc
  <1>6. /\ decision'[d] = k /\ grant'[r] = "active"
        /\ \A e \in Decisions : e # d => decision'[e] = decision[e]
        /\ \A c \in Calls : c # r => grant'[c] = grant[c]
    BY <1>0, <1>1, <1>3
  <1>7. DecisionInv'
    BY <1>1, <1>2, <1>3, <1>4, <1>6 DEF ApprovalInv, DecisionInv, Deciding
  <1>8. CallInv' /\ NoticeInv'
    BY <1>3, RequestsUnchanged, KeptCallInv, KeptNoticeInv DEF ApprovalInv
  <1> QED BY <1>5, <1>7, <1>8 DEF ApprovalInv

LEMMA DecisionStepInv ==
    ASSUME ApprovalInv, NEW d \in Decisions, DecisionStep(d)
    PROVE  ApprovalInv'
  <1>0. decision \in [Decisions -> DecisionDoc]
    BY DEF ApprovalInv, ApprovalTypeOK, DecisionDoc
  <1>1. ASSUME NEW r \in Calls, NEW verdict \in Verdict, NEW key \in DecisionKeys,
               DecideAgain(d, r, verdict, key)
        PROVE  ApprovalInv'
    <2>1. PICK label \in {"replayed", "refused"} :
             decision' = [decision EXCEPT ![d] = [pc |-> label, on |-> r, verdict |-> verdict]]
      BY <1>1 DEF DecideAgain
    <2>2. [pc |-> label, on |-> r, verdict |-> verdict] \in DecisionDoc
      BY DEF DecisionDoc, DecisionState
    <2> QED BY <1>1, <2>1, <2>2, DecisionMoves DEF DecideAgain, Deciding
  <1>2. CASE RecheckMode(d) \/ DecisionFails(d)
    <2>1. PICK label \in {"mint", "rollback", "refused"} :
             decision' = [decision EXCEPT ![d] = [decision[d] EXCEPT !.pc = label]]
      <3>1. CASE RecheckMode(d) /\ mode = "grant"
        BY <1>0, <3>1 DEF RecheckMode
      <3>2. CASE RecheckMode(d) /\ mode # "grant"
        BY <1>0, <3>2 DEF RecheckMode
      <3>3. CASE DecisionFails(d)
        BY <1>0, <3>3 DEF DecisionFails
      <3> QED BY <1>2, <3>1, <3>2, <3>3
    <2> DEFINE k == [decision[d] EXCEPT !.pc = label]
    <2>2. /\ k \in DecisionDoc /\ k.on = decision[d].on /\ k.verdict = decision[d].verdict
      BY <1>0 DEF DecisionDoc, DecisionState
    <2>3. decision[d].pc \in Deciding \ {"accepted"}
      BY <1>2 DEF RecheckMode, DecisionFails, Deciding
    <2>4. UNCHANGED <<mode, request, grant, call, switching, switches, sweep, announced>>
      BY <1>2 DEF RecheckMode, DecisionFails
    <2> HIDE DEF k
    <2> QED BY <2>1, <2>2, <2>3, <2>4, DecisionMoves DEF k
  <1> QED BY <1>1, <1>2, DecideInv, RollbackInv, MintInv DEF DecisionStep

LEMMA ApprovalNextInv == ApprovalInv /\ [ApprovalNext]_approvalVars => ApprovalInv'
  <1> SUFFICES ASSUME ApprovalInv, [ApprovalNext]_approvalVars PROVE ApprovalInv'
    OBVIOUS
  <1>1. CASE UNCHANGED approvalVars
    <2>1. ApprovalTypeOK'
      BY <1>1 DEF approvalVars, ApprovalInv, ApprovalTypeOK
    <2>2. RequestsKept
      BY <1>1, RequestsUnchanged DEF approvalVars, ApprovalInv
    <2> QED BY <1>1, <2>1, <2>2, KeptCallInv, KeptDecisionInv, KeptNoticeInv
            DEF approvalVars, ApprovalInv
  <1>2. CASE ApprovalNext
    BY <1>2, CallStepInv, TimeStepInv, DecisionStepInv, SwitchStepInv, SweepStepInv
       DEF ApprovalNext
  <1> QED BY <1>1, <1>2

(* The invariant of approvals, with its types: whatever calls, decisions,  *)
(* sweeps and changes of the mode do, failures in between included.        *)
THEOREM ApprovalInvariant == ApprovalSpec => []ApprovalInv
  BY ApprovalNextInv, ApprovalInitInv, PTL DEF ApprovalSpec

(* Of any number of calls in per_request mode, each approval lets through  *)
(* the one it was asked for (create_approval_request).                     *)
THEOREM ApprovalsAreForOneCall == ApprovalSpec => []OneCallPerApproval
  <1>1. ApprovalInv => OneCallPerApproval
    <2> SUFFICES ASSUME ApprovalInv, NEW b \in Calls, NEW c \in Calls,
                        call[b].pc = "through", call[c].pc = "through",
                        call[b].mode = "per_request", call[b].on = call[c].on
                 PROVE  b = c
      BY DEF OneCallPerApproval
    <2>1. call[b].on = b /\ call[b].on # NoCall
      BY DEF ApprovalInv, CallInv, CallSound
    <2>2. call[c].mode = "per_request"
      BY <2>1 DEF ApprovalInv, CallInv, CallSound
    <2> QED BY <2>1, <2>2 DEF ApprovalInv, CallInv, CallSound
  <1> QED BY <1>1, ApprovalInvariant, PTL

(* An answer to an accepted decision, an expiry notice and a grant say     *)
(* what stays true of their request, for any number of decisions and       *)
(* overlapping sweeps (process_decision, expire_pending_requests).         *)
THEOREM OutcomesAreFinal == ApprovalSpec => []OutcomeIsFinal
  <1>1. ApprovalInv => OutcomeIsFinal
    BY DEF ApprovalInv, DecisionInv, NoticeInv, OutcomeIsFinal, Deciding
  <1> QED BY <1>1, ApprovalInvariant, PTL

-----------------------------------------------------------------------------
(* Consents.                                                               *)

PageDoc == [pc : PageState, asks : SUBSET Rights, generation : Nat, additive : BOOLEAN,
            seen : ConsentRow \cup {NoConsent}, reference : Reference]
ExchangeDoc == [pc : ExchangeState, code : SUBSET Pages,
                seen : ConsentRow \cup {NoConsent}, fences : 0 .. 3]
RevocationDoc == [pc : {"idle", "open"}, sees : SUBSET Exchanges, conflict : BOOLEAN]

(* Every row has a version of its own, so that a page that adds to a row   *)
(* still finds that row only if nothing was withdrawn in between.          *)
PageSound(p) ==
    /\ page[p].seen # NoConsent => page[p].seen.version <= stamp
    /\ page[p].pc \in {"incremental", "approving"} =>
         /\ page[p].seen # NoConsent
         /\ consent = page[p].seen => page[p].generation = generation

StampInv == /\ consent # NoConsent => consent.version <= stamp
            /\ \A p \in Pages : PageSound(p)

ApprovedInv == approved = IF consent = NoConsent THEN {} ELSE consent.rights

(* An exchange that claimed a code for itself.                             *)
Spent(x) ==
    \/ exchange[x].pc \in {"claimed", "checked", "stored", "fencing", "undo", "delivered"}
    \/ refresh[x] # "none"

CodeSound(x) ==
    /\ exchange[x].pc \in {"idle", "replay"} => refresh[x] = "none"
    /\ exchange[x].pc \in {"idle", "replay", "claimed", "checked"} => exchange[x].fences = 0
    /\ Spent(x) => \E p \in used : exchange[x].code = {p} /\ page[p].pc = "coded"

CodeInv ==
    /\ \A x \in Exchanges : CodeSound(x)
    /\ \A x, y \in Exchanges :
         Spent(x) /\ Spent(y) /\ exchange[x].code = exchange[y].code => x = y
    /\ \A x \in revocation.sees : refresh[x] # "none"

(* The row that the last fence is about to write was validated.            *)
FenceSound(x) ==
    \A p \in exchange[x].code :
      /\ exchange[x].pc \in {"stored", "fencing"} => exchange[x].fences < Fences(p)
      /\ exchange[x].pc = "fencing" /\ exchange[x].fences + 1 = Fences(p) =>
           ValidReference(exchange[x].seen, page[p].reference, page[p].asks)

FenceInv == \A x \in Exchanges : FenceSound(x)

(* A withdrawal that can still commit sees every token a client holds.     *)
WithdrawInv ==
    /\ WithdrawnConsentLeavesNoToken
    /\ revocation.pc = "open" /\ ~revocation.conflict =>
         \A x \in Exchanges :
           exchange[x].pc = "delivered" /\ refresh[x] = "active" => x \in revocation.sees

ConsentInv == /\ ConsentTypeOK /\ StampInv /\ ApprovedInv /\ CodeInv /\ FenceInv
              /\ WithdrawInv

LEMMA ConsentTyped ==
    ConsentTypeOK <=> /\ consent \in ConsentRow \cup {NoConsent}
                      /\ generation \in Nat /\ stamp \in Nat
                      /\ page \in [Pages -> PageDoc] /\ used \in SUBSET Pages
                      /\ exchange \in [Exchanges -> ExchangeDoc]
                      /\ refresh \in [Exchanges -> {"none", "active", "revoked"}]
                      /\ revocation \in RevocationDoc /\ approved \in SUBSET Rights
  BY DEF ConsentTypeOK, PageDoc, ExchangeDoc, RevocationDoc

LEMMA ConsentInitInv == ConsentInit => ConsentInv
  <1> SUFFICES ASSUME ConsentInit PROVE ConsentInv
    OBVIOUS
  <1>1. /\ consent # NoConsent => consent \in ConsentRow /\ consent.version = 1
        /\ consent \in ConsentRow \cup {NoConsent}
    BY DEF ConsentInit, ConsentRow
  <1>2. ConsentTypeOK
    <2>1. page \in [Pages -> PageDoc]
      BY DEF ConsentInit, PageDoc, PageState, Reference, NoReference
    <2>2. exchange \in [Exchanges -> ExchangeDoc]
      BY DEF ConsentInit, ExchangeDoc, ExchangeState
    <2>3. approved \in SUBSET Rights
      BY <1>1 DEF ConsentInit, ConsentRow
    <2>4. revocation \in RevocationDoc
      BY DEF ConsentInit, RevocationDoc
    <2> QED BY <1>1, <2>1, <2>2, <2>3, <2>4, ConsentTyped DEF ConsentInit
  <1>3. StampInv
    BY <1>1 DEF ConsentInit, StampInv, PageSound
  <1>4. ApprovedInv
    BY DEF ConsentInit, ApprovedInv
  <1>5. CodeInv
    BY DEF ConsentInit, CodeInv, CodeSound, Spent
  <1>6. FenceInv /\ WithdrawInv
    BY DEF ConsentInit, FenceInv, FenceSound, WithdrawInv, WithdrawnConsentLeavesNoToken
  <1> QED BY <1>2, <1>3, <1>4, <1>5, <1>6 DEF ConsentInv

(* What a step of a page leaves alone: codes that were issued, exchanges   *)
(* and tokens, and the identity of the row.                                *)
PagesOnly ==
    /\ UNCHANGED <<exchange, refresh, used>>
    /\ \A p \in Pages : page[p].pc = "coded" => page'[p] = page[p]
    /\ consent # NoConsent => consent' # NoConsent /\ consent'.id = consent.id
    /\ revocation'.sees = revocation.sees /\ revocation'.pc = revocation.pc
    /\ revocation.pc = "open" /\ revocation.conflict => revocation'.conflict

LEMMA PagesKeepTokens ==
    ASSUME ConsentInv, PagesOnly
    PROVE  CodeInv' /\ FenceInv' /\ WithdrawInv'
  <1>0. used \subseteq Pages /\ exchange \in [Exchanges -> ExchangeDoc]
    BY ConsentTyped DEF ConsentInv
  <1>1. \A x \in Exchanges : Spent(x)' <=> Spent(x)
    BY DEF PagesOnly, Spent
  <1>2. \A x \in Exchanges : Spent(x) => \A p \in exchange[x].code : page'[p] = page[p]
    BY <1>0 DEF PagesOnly, ConsentInv, CodeInv, CodeSound
  <1>3. CodeInv'
    <2>1. \A x \in Exchanges : CodeSound(x)'
      BY <1>0, <1>1, <1>2 DEF PagesOnly, ConsentInv, CodeInv, CodeSound
    <2> QED BY <1>1, <2>1 DEF PagesOnly, ConsentInv, CodeInv
  <1>4. FenceInv'
    BY <1>2 DEF PagesOnly, ConsentInv, FenceInv, FenceSound, Fences, Spent
  <1>5. WithdrawInv'
    BY <1>2 DEF PagesOnly, ConsentInv, WithdrawInv, WithdrawnConsentLeavesNoToken, Spent
  <1> QED BY <1>3, <1>4, <1>5

(* A page moves on and the row stays as it is.                             *)
LEMMA PageMoves ==
    ASSUME ConsentInv, NEW p \in Pages, NEW k \in PageDoc, page[p].pc # "coded",
           page' = [page EXCEPT ![p] = k],
           UNCHANGED <<consent, generation, stamp, used, exchange, refresh, revocation,
                       approved>>,
           k.seen # NoConsent => k.seen.version <= stamp,
           k.pc \in {"incremental", "approving"} =>
             k.seen # NoConsent /\ (consent = k.seen => k.generation = generation)
    PROVE  ConsentInv'
  <1>0. page \in [Pages -> PageDoc]
    BY ConsentTyped DEF ConsentInv
  <1>1. page'[p] = k /\ \A o \in Pages : o # p => page'[o] = page[o]
    BY <1>0
  <1>2. ConsentTypeOK'
    BY <1>0 DEF ConsentInv, ConsentTypeOK, PageDoc
  <1>3. PagesOnly
    BY <1>1 DEF PagesOnly
  <1>4. StampInv'
    <2>1. PageSound(p)'
      BY <1>1 DEF PageSound
    <2>2. \A o \in Pages : o # p => PageSound(o)'
      BY <1>1 DEF ConsentInv, StampInv, PageSound
    <2> QED BY <2>1, <2>2 DEF ConsentInv, StampInv
  <1> QED BY <1>2, <1>3, <1>4, PagesKeepTokens DEF ConsentInv, ApprovedInv

(* A write of the row is noted by a withdrawal that is open.               *)
LEMMA ConflictNoted ==
    ASSUME revocation \in RevocationDoc, Conflict
    PROVE  /\ revocation' \in RevocationDoc /\ revocation'.sees = revocation.sees
           /\ revocation'.pc = revocation.pc
           /\ revocation.pc = "open" => revocation'.conflict
  <1>1. ASSUME NEW b \in BOOLEAN, revocation' = [revocation EXCEPT !.conflict = b]
        PROVE  /\ revocation' \in RevocationDoc /\ revocation'.sees = revocation.sees
               /\ revocation'.pc = revocation.pc /\ revocation'.conflict = b
    BY <1>1 DEF RevocationDoc
  <1>2. CASE revocation.pc = "open"
    BY <1>1, <1>2 DEF Conflict
  <1>3. CASE revocation.pc # "open"
    <2>1. revocation' = [revocation EXCEPT !.conflict = FALSE]
      BY <1>3 DEF Conflict
    <2> QED BY <1>1, <1>3, <2>1
  <1> QED BY <1>2, <1>3

(* The rights of a page are added to the row, in grant of what was shown   *)
(* since the last withdrawal.                                              *)
LEMMA WriteInv ==
    ASSUME ConsentInv, NEW p \in Pages, NEW machine \in BOOLEAN,
           page[p].pc \in {"review", "approving"}, page[p].generation = generation,
           WriteConsent(p, page[p].asks \cup
                           (IF consent = NoConsent THEN {} ELSE consent.rights), machine),
           Approve(p), UNCHANGED <<generation, used, exchange, refresh>>
    PROVE  ConsentInv'
  <1> DEFINE rights == page[p].asks \cup (IF consent = NoConsent THEN {} ELSE consent.rights)
             doc == WrittenRow(consent, rights, machine)
             k(c) == [page[p] EXCEPT !.pc = "granted", !.seen = c,
                                     !.reference = ReferenceOf(c)]
  <1>0. /\ page \in [Pages -> PageDoc] /\ page[p] \in PageDoc /\ page[p].asks \subseteq Rights
        /\ consent \in ConsentRow \cup {NoConsent} /\ stamp \in Nat /\ generation \in Nat
        /\ revocation \in RevocationDoc /\ approved \in SUBSET Rights
    BY ConsentTyped DEF ConsentInv, PageDoc
  <1>1. ASSUME NEW c \in ConsentRow
        PROVE  /\ k(c) \in PageDoc /\ k(c).pc = "granted" /\ k(c).seen = c
    <2>1. ReferenceOf(c) \in Reference
      BY DEF ReferenceOf, Reference, ConsentRow
    <2> QED BY <1>0, <2>1 DEF PageDoc, PageState
  <1>2. ASSUME NEW c, page' = [page EXCEPT ![p].pc = "granted", ![p].seen = c,
                                           ![p].reference = ReferenceOf(c)]
        PROVE  page' = [page EXCEPT ![p] = k(c)]
    BY <1>0, <1>2
  <1>3. rights \subseteq Rights
    BY <1>0 DEF ConsentRow
  <1>4. approved' = rights
    BY DEF ConsentInv, ApprovedInv, Approve
  <1>5. CASE consent # NoConsent /\ consent.rights = rights /\ ~machine
    <2>1. /\ page' = [page EXCEPT ![p] = k(consent)]
          /\ UNCHANGED <<consent, stamp, revocation>>
      BY <1>2, <1>5 DEF WriteConsent
    <2>2. UNCHANGED approved
      BY <1>4, <1>5 DEF ConsentInv, ApprovedInv
    <2>3. consent \in ConsentRow /\ consent.version <= stamp
      BY <1>0, <1>5 DEF ConsentInv, StampInv
    <2>4. k(consent) \in PageDoc /\ k(consent).pc = "granted" /\ k(consent).seen = consent
      BY <1>1, <2>3
    <2> HIDE DEF k
    <2> QED BY <2>1, <2>2, <2>3, <2>4, PageMoves
  <1>6. CASE ~(consent # NoConsent /\ consent.rights = rights /\ ~machine)
    <2>1. /\ stamp' = stamp + 1 /\ consent' = doc /\ Conflict
          /\ page' = [page EXCEPT ![p] = k(doc)]
      BY <1>2, <1>6 DEF WriteConsent
    <2>2. /\ doc \in ConsentRow /\ doc.version = stamp + 1 /\ doc.rights = rights
          /\ consent # NoConsent => doc.id = consent.id
      BY <1>0, <1>3 DEF WrittenRow, ConsentRow
    <2>3. doc # NoConsent
      BY <2>2, ConsentAssumption DEF ConsentRow
    <2>4. k(doc) \in PageDoc /\ k(doc).pc = "granted" /\ k(doc).seen = doc
      BY <1>1, <2>2
    <2>5. /\ revocation' \in RevocationDoc /\ revocation'.sees = revocation.sees
          /\ revocation'.pc = revocation.pc
          /\ revocation.pc = "open" => revocation'.conflict
      BY <1>0, <2>1, ConflictNoted
    <2> HIDE DEF k, doc, rights
    <2>6. page'[p] = k(doc) /\ \A o \in Pages : o # p => page'[o] = page[o]
      BY <1>0, <2>1
    <2>7. ConsentTypeOK'
      <3>1. /\ page' \in [Pages -> PageDoc] /\ stamp' \in Nat /\ consent' \in ConsentRow
            /\ approved' \in SUBSET Rights
        BY <1>0, <1>3, <1>4, <2>1, <2>2, <2>4
      <3> QED BY <2>5, <3>1, ConsentTyped DEF ConsentInv, ConsentTypeOK, PageDoc, RevocationDoc
    <2>8. PagesOnly
      BY <2>1, <2>2, <2>3, <2>5, <2>6 DEF PagesOnly
    <2>9. StampInv'
      <3>1. PageSound(p)'
        BY <1>0, <2>1, <2>2, <2>4, <2>6 DEF PageSound
      <3>2. ASSUME NEW o \in Pages, o # p PROVE PageSound(o)'
        <4>1. page[o].seen # NoConsent =>
                /\ page[o].seen.version \in Nat /\ page[o].seen.version <= stamp
          BY <1>0 DEF ConsentInv, StampInv, PageSound, PageDoc, ConsentRow
        <4>2. page[o].seen # NoConsent => page[o].seen.version <= stamp + 1
                                          /\ page[o].seen.version # stamp + 1
          BY <1>0, <4>1
        <4>3. consent' # page[o].seen
          BY <2>1, <2>2, <2>3, <4>2
        <4> QED BY <2>1, <2>6, <3>2, <4>2, <4>3 DEF ConsentInv, StampInv, PageSound
      <3> QED BY <1>0, <2>1, <2>2, <3>1, <3>2 DEF StampInv
    <2>10. ApprovedInv'
      BY <1>4, <2>1, <2>2, <2>3 DEF ApprovedInv
    <2> QED BY <2>7, <2>8, <2>9, <2>10, PagesKeepTokens DEF ConsentInv
  <1> QED BY <1>5, <1>6

LEMMA PageStepInv ==
    ASSUME ConsentInv, NEW p \in Pages, PageStep(p)
    PROVE  ConsentInv'
  <1>0. /\ page \in [Pages -> PageDoc] /\ page[p] \in PageDoc
        /\ consent \in ConsentRow \cup {NoConsent} /\ generation \in Nat
        /\ page[p].seen # NoConsent => page[p].seen.version <= stamp
        /\ consent # NoConsent => consent.version <= stamp
    BY ConsentTyped DEF ConsentInv, StampInv, PageSound
  <1>1. ASSUME NEW label \in {"refused", "checked", "coded"}, page[p].pc # "coded",
               page' = [page EXCEPT ![p].pc = label],
               UNCHANGED <<consent, generation, stamp, used, exchange, refresh, revocation,
                           approved>>
        PROVE  ConsentInv'
    <2> DEFINE k == [page[p] EXCEPT !.pc = label]
    <2>1. /\ page' = [page EXCEPT ![p] = k] /\ k \in PageDoc /\ k.pc = label
          /\ k.seen = page[p].seen
      BY <1>0, <1>1 DEF PageDoc, PageState
    <2> HIDE DEF k
    <2> QED BY <1>0, <1>1, <2>1, PageMoves
  <1>2. ASSUME NEW rights \in SUBSET Rights, NEW kind \in {"review", "incremental"},
               OpenReview(p, rights, kind)
        PROVE  ConsentInv'
    <2> DEFINE k == [page[p] EXCEPT !.pc = kind, !.asks = rights, !.generation = generation,
                                    !.additive = (kind = "incremental"), !.seen = consent]
    <2>1. k \in PageDoc
      <3>1. kind \in PageState
        BY DEF PageState
      <3>2. ASSUME NEW b \in BOOLEAN
            PROVE  [page[p] EXCEPT !.pc = kind, !.asks = rights, !.generation = generation,
                                   !.additive = b, !.seen = consent] \in PageDoc
        BY <1>0, <3>1 DEF PageDoc
      <3>3. (kind = "incremental") \in BOOLEAN
        OBVIOUS
      <3> QED BY <3>2, <3>3
    <2>2. /\ k.pc = kind /\ k.seen = consent /\ k.generation = generation
      BY <1>0 DEF PageDoc
    <2>3. page' = [page EXCEPT ![p] = k]
      BY <1>0, <1>2 DEF OpenReview
    <2>4. /\ page[p].pc = "idle"
          /\ kind = "incremental" => consent # NoConsent
          /\ UNCHANGED <<consent, generation, stamp, used, exchange, refresh, revocation,
                         approved>>
      BY <1>2 DEF OpenReview
    <2> HIDE DEF k
    <2> QED BY <1>0, <2>1, <2>2, <2>3, <2>4, PageMoves
  <1>3. ASSUME NEW rights \in SUBSET Rights, AuthorizeSilently(p, rights)
        PROVE  ConsentInv'
    <2> DEFINE k == [page[p] EXCEPT !.pc = "granted", !.asks = rights,
                                    !.generation = generation,
                                    !.reference = ReferenceOf(consent)]
    <2>1. k \in PageDoc
      <3>1. ReferenceOf(consent) \in Reference
        BY <1>0, <1>3 DEF AuthorizeSilently, ReferenceOf, Reference, ConsentRow
      <3> QED BY <1>0, <3>1 DEF PageDoc, PageState
    <2>2. k.pc = "granted" /\ k.seen = page[p].seen
      BY <1>0 DEF PageDoc
    <2>3. page' = [page EXCEPT ![p] = k]
      BY <1>0, <1>3 DEF AuthorizeSilently
    <2>4. /\ page[p].pc = "idle"
          /\ UNCHANGED <<consent, generation, stamp, used, exchange, refresh, revocation,
                         approved>>
      BY <1>3 DEF AuthorizeSilently
    <2> HIDE DEF k
    <2> QED BY <1>0, <2>1, <2>2, <2>3, <2>4, PageMoves
  <1>4. ASSUME NEW machine \in BOOLEAN, DecideReview(p, machine)
        PROVE  ConsentInv'
    <2>1. CASE Refuse(p)
      BY <1>1, <1>4, <2>1 DEF DecideReview, Refuse
    <2> QED BY <1>4, <2>1, WriteInv DEF DecideReview
  <1>5. CASE DecideIncremental(p)
    <2>1. CASE Refuse(p)
      BY <1>1, <1>5, <2>1 DEF DecideIncremental, Refuse
    <2>2. CASE page' = [page EXCEPT ![p].pc = "approving"]
               /\ UNCHANGED <<consent, generation, stamp, used, exchange, refresh,
                              revocation, approved>>
      <3> DEFINE k == [page[p] EXCEPT !.pc = "approving"]
      <3>1. /\ page' = [page EXCEPT ![p] = k] /\ k \in PageDoc /\ k.seen = page[p].seen
            /\ k.generation = page[p].generation
        BY <1>0, <2>2 DEF PageDoc, PageState
      <3>2. /\ page[p].seen # NoConsent
            /\ consent = page[p].seen => page[p].generation = generation
        BY <1>5 DEF DecideIncremental, ConsentInv, StampInv, PageSound
      <3> HIDE DEF k
      <3> QED BY <1>0, <1>5, <2>2, <3>1, <3>2, PageMoves DEF DecideIncremental
    <2> QED BY <1>5, <2>1, <2>2 DEF DecideIncremental
  <1>6. CASE ReplaceIncremental(p)
    <2>1. CASE Refuse(p)
      BY <1>1, <1>6, <2>1 DEF ReplaceIncremental, Refuse
    <2>2. /\ page[p].seen # NoConsent
          /\ consent = page[p].seen => page[p].generation = generation
      BY <1>6 DEF ReplaceIncremental, ConsentInv, StampInv, PageSound
    <2> QED BY <1>6, <2>1, <2>2, WriteInv DEF ReplaceIncremental
  <1>7. CASE CheckBeforeCode(p)
    BY <1>1, <1>7 DEF CheckBeforeCode, Refuse
  <1>8. CASE InsertCode(p)
    BY <1>1, <1>8 DEF InsertCode
  <1> QED BY <1>2, <1>3, <1>4, <1>5, <1>6, <1>7, <1>8 DEF PageStep

(* A step of one exchange: what it must establish for itself; it can only  *)
(* revoke the tokens of the others.                                        *)
LEMMA ExchangeMoves ==
    ASSUME ConsentInv, NEW x \in Exchanges, NEW k \in ExchangeDoc,
           exchange' = [exchange EXCEPT ![x] = k],
           refresh' \in [Exchanges -> {"none", "active", "revoked"}],
           \A y \in Exchanges : y # x => /\ refresh'[y] = "none" <=> refresh[y] = "none"
                                         /\ refresh'[y] = "active" => refresh[y] = "active",
           refresh[x] # "none" => refresh'[x] # "none",
           used \subseteq used', used' \subseteq Pages,
           UNCHANGED <<consent, generation, stamp, page, approved>>,
           revocation' \in RevocationDoc, revocation'.sees = revocation.sees,
           revocation'.pc = revocation.pc,
           revocation.pc = "open" /\ revocation.conflict => revocation'.conflict,
           CodeSound(x)', FenceSound(x)',
           Spent(x)' => \A y \in Exchanges : y # x /\ Spent(y) => exchange[y].code # k.code,
           k.pc = "delivered" /\ refresh'[x] = "active" =>
             /\ revocation'.pc = "open" => revocation'.conflict
             /\ \A p \in k.code : consent # NoConsent /\ consent.id = page[p].reference.id
    PROVE  ConsentInv'
  <1>0. /\ exchange \in [Exchanges -> ExchangeDoc] /\ revocation \in RevocationDoc
        /\ revocation.sees \subseteq Exchanges
    BY ConsentTyped DEF ConsentInv, RevocationDoc
  <1>1. exchange'[x] = k /\ \A y \in Exchanges : y # x => exchange'[y] = exchange[y]
    BY <1>0
  <1>2. ConsentTypeOK'
    <2>1. exchange' \in [Exchanges -> ExchangeDoc]
      BY <1>0
    <2> QED BY <2>1 DEF ConsentInv, ConsentTypeOK, ExchangeDoc, RevocationDoc
  <1>3. StampInv' /\ ApprovedInv'
    BY DEF ConsentInv, StampInv, PageSound, ApprovedInv
  <1>4. \A y \in Exchanges : y # x => (Spent(y)' <=> Spent(y))
    BY <1>1 DEF Spent
  <1>5. CodeInv'
    <2>1. ASSUME NEW y \in Exchanges, y # x PROVE CodeSound(y)'
      <3>1. CodeSound(y)
        BY DEF ConsentInv, CodeInv
      <3> QED BY <1>1, <1>4, <2>1, <3>1 DEF CodeSound
    <2>2. ASSUME NEW y \in Exchanges, NEW z \in Exchanges, Spent(y)', Spent(z)',
                 exchange'[y].code = exchange'[z].code
          PROVE  y = z
      <3>1. CASE y = x \/ z = x
        BY <1>1, <1>4, <2>2, <3>1
      <3>2. CASE y # x /\ z # x
        BY <1>1, <1>4, <2>2, <3>2 DEF ConsentInv, CodeInv
      <3> QED BY <3>1, <3>2
    <2>3. \A y \in revocation'.sees : refresh'[y] # "none"
      BY <1>0 DEF ConsentInv, CodeInv
    <2> QED BY <2>1, <2>2, <2>3 DEF CodeInv
  <1>6. FenceInv'
    <2>1. ASSUME NEW y \in Exchanges, y # x PROVE FenceSound(y)'
      BY <1>1, <2>1 DEF ConsentInv, FenceInv, FenceSound, Fences
    <2> QED BY <2>1 DEF FenceInv
  <1>7. WithdrawInv'
    <2>1. WithdrawnConsentLeavesNoToken'
      BY <1>1 DEF ConsentInv, WithdrawInv, WithdrawnConsentLeavesNoToken
    <2>2. ASSUME NEW y \in Exchanges, revocation'.pc = "open", ~revocation'.conflict,
                 exchange'[y].pc = "delivered", refresh'[y] = "active"
          PROVE  y \in revocation'.sees
      BY <1>1, <2>2 DEF ConsentInv, WithdrawInv
    <2> QED BY <2>1, <2>2 DEF WithdrawInv
  <1> QED BY <1>2, <1>3, <1>5, <1>6, <1>7 DEF ConsentInv

(* The same for a step after the code was claimed, which writes nothing    *)
(* but the exchange.                                                       *)
LEMMA ExchangeProceeds ==
    ASSUME ConsentInv, NEW x \in Exchanges, NEW k \in ExchangeDoc,
           exchange' = [exchange EXCEPT ![x] = k], k.code = exchange[x].code,
           UNCHANGED <<consent, generation, stamp, page, used, refresh, revocation, approved>>,
           k.pc \in ExchangeState \ {"idle", "replay", "delivered"},
           k.pc \in {"claimed", "checked"} => k.fences = 0,
           k.pc \in {"refused", "gone"} \/ Spent(x),
           FenceSound(x)'
    PROVE  ConsentInv'
  <1>0. /\ exchange \in [Exchanges -> ExchangeDoc] /\ revocation \in RevocationDoc
        /\ used \subseteq Pages /\ refresh \in [Exchanges -> {"none", "active", "revoked"}]
    BY ConsentTyped DEF ConsentInv
  <1>1. exchange'[x] = k
    BY <1>0
  <1>2. Spent(x)' => Spent(x)
    BY <1>1 DEF Spent
  <1>3. CodeSound(x)'
    BY <1>1, <1>2 DEF ConsentInv, CodeInv, CodeSound
  <1>4. Spent(x)' => \A y \in Exchanges : y # x /\ Spent(y) => exchange[y].code # k.code
    BY <1>2 DEF ConsentInv, CodeInv
  <1> QED BY <1>0, <1>3, <1>4, ExchangeMoves

LEMMA ExchangeStepInv ==
    ASSUME ConsentInv, NEW x \in Exchanges, ExchangeStep(x)
    PROVE  ConsentInv'
  <1>0. /\ exchange \in [Exchanges -> ExchangeDoc] /\ exchange[x] \in ExchangeDoc
        /\ refresh \in [Exchanges -> {"none", "active", "revoked"}]
        /\ page \in [Pages -> PageDoc] /\ used \subseteq Pages
        /\ revocation \in RevocationDoc /\ consent \in ConsentRow \cup {NoConsent}
    BY ConsentTyped DEF ConsentInv
  <1>1. CodeSound(x) /\ FenceSound(x)
    BY DEF ConsentInv, CodeInv, FenceInv
  <1>2. Spent(x) => \E p \in Pages : exchange[x].code = {p} /\ page[p].pc = "coded"
    BY <1>0, <1>1 DEF CodeSound
  <1>3. ASSUME NEW label \in {"refused", "checked", "gone", "undo"},
               label \in {"refused", "gone"} \/ Spent(x),
               label = "checked" => exchange[x].fences = 0,
               exchange' = [exchange EXCEPT ![x].pc = label],
               UNCHANGED <<consent, generation, stamp, page, used, refresh, revocation,
                           approved>>
        PROVE  ConsentInv'
    <2> DEFINE k == [exchange[x] EXCEPT !.pc = label]
    <2>1. /\ exchange' = [exchange EXCEPT ![x] = k] /\ k \in ExchangeDoc /\ k.pc = label
          /\ k.code = exchange[x].code /\ k.fences = exchange[x].fences
      BY <1>0, <1>3 DEF ExchangeDoc, ExchangeState
    <2>2. label \in ExchangeState \ {"idle", "replay", "delivered"}
      BY DEF ExchangeState
    <2> HIDE DEF k
    <2>3. exchange'[x] = k
      BY <1>0, <2>1
    <2>4. FenceSound(x)'
      BY <2>1, <2>3 DEF FenceSound
    <2> QED BY <1>3, <2>1, <2>2, <2>4, ExchangeProceeds
  <1>4. ASSUME NEW p \in Pages, ClaimCode(x, p)
        PROVE  ConsentInv'
    <2>0. PICK label \in {"replay", "claimed"} :
               label = IF p \in used THEN "replay" ELSE "claimed"
      OBVIOUS
    <2> DEFINE k == [exchange[x] EXCEPT !.pc = label, !.code = {p}]
    <2>1. /\ exchange[x].pc = "idle" /\ page[p].pc = "coded" /\ used' = used \cup {p}
          /\ UNCHANGED <<consent, generation, stamp, page, refresh, revocation, approved>>
      BY <1>4 DEF ClaimCode
    <2>2. exchange' = [exchange EXCEPT ![x] = k]
      BY <1>0, <1>4, <2>0 DEF ClaimCode
    <2>3. /\ k \in ExchangeDoc /\ k.pc = label /\ k.code = {p} /\ k.fences = exchange[x].fences
      BY <1>0 DEF ExchangeDoc, ExchangeState
    <2> HIDE DEF k
    <2>4. exchange'[x] = k
      BY <1>0, <2>2
    <2>5. refresh[x] = "none" /\ exchange[x].fences = 0
      BY <1>1, <2>1 DEF CodeSound
    <2>6. Spent(x)' <=> label = "claimed"
      BY <2>0, <2>1, <2>3, <2>4, <2>5 DEF Spent
    <2>7. CodeSound(x)' /\ FenceSound(x)'
      BY <2>1, <2>3, <2>4, <2>5, <2>6 DEF CodeSound, FenceSound
    <2>8. Spent(x)' => \A y \in Exchanges : y # x /\ Spent(y) => exchange[y].code # k.code
      BY <2>0, <2>3, <2>6 DEF ConsentInv, CodeInv, CodeSound
    <2> QED BY <1>0, <2>0, <2>1, <2>2, <2>3, <2>7, <2>8, ExchangeMoves
  <1>5. CASE RevokeAfterReplay(x)
    <2> DEFINE k == [exchange[x] EXCEPT !.pc = "refused"]
    <2>1. /\ exchange[x].pc = "replay"
          /\ refresh' = [y \in Exchanges |->
                           IF refresh[y] = "active" THEN "revoked" ELSE refresh[y]]
          /\ UNCHANGED <<consent, generation, stamp, page, used, revocation, approved>>
      BY <1>5 DEF RevokeAfterReplay
    <2>2. exchange' = [exchange EXCEPT ![x] = k]
      BY <1>0, <1>5 DEF RevokeAfterReplay
    <2>3. k \in ExchangeDoc /\ k.pc = "refused" /\ k.code = exchange[x].code
      BY <1>0 DEF ExchangeDoc, ExchangeState
    <2> HIDE DEF k
    <2>4. exchange'[x] = k
      BY <1>0, <2>2
    <2>5. /\ refresh' \in [Exchanges -> {"none", "active", "revoked"}]
          /\ \A y \in Exchanges : /\ refresh'[y] = "none" <=> refresh[y] = "none"
                                  /\ refresh'[y] = "active" => refresh[y] = "active"
      BY <1>0, <2>1
    <2>6. refresh[x] = "none" /\ refresh'[x] = "none"
      BY <1>1, <2>1, <2>5 DEF CodeSound
    <2>7. ~Spent(x)' /\ CodeSound(x)' /\ FenceSound(x)'
      BY <2>3, <2>4, <2>6 DEF CodeSound, FenceSound, Spent
    <2> QED BY <1>0, <2>1, <2>2, <2>3, <2>5, <2>6, <2>7, ExchangeMoves
  <1>6. CASE CheckExchange(x)
    <2>1. PICK p \in exchange[x].code, rest \in BOOLEAN :
            exchange' = [exchange EXCEPT ![x].pc =
              IF /\ rest
                 /\ page[p].additive => UnchangedSince(p)
                 /\ ValidReference(consent, page[p].reference, page[p].asks)
              THEN "checked" ELSE "refused"]
      BY <1>6 DEF CheckExchange
    <2>2. PICK label \in {"refused", "checked"} : exchange' = [exchange EXCEPT ![x].pc = label]
      BY <2>1
    <2>3. /\ exchange[x].pc = "claimed"
          /\ UNCHANGED <<consent, generation, stamp, page, used, refresh, revocation,
                         approved>>
      BY <1>6 DEF CheckExchange
    <2>4. Spent(x) /\ exchange[x].fences = 0
      BY <1>1, <2>3 DEF Spent, CodeSound
    <2> QED BY <1>3, <2>2, <2>3, <2>4
  <1>7. CASE StoreRefresh(x)
    <2> DEFINE k == [exchange[x] EXCEPT !.pc = "stored"]
    <2>1. /\ exchange[x].pc = "checked" /\ refresh' = [refresh EXCEPT ![x] = "active"]
          /\ UNCHANGED <<consent, generation, stamp, page, used, revocation, approved>>
      BY <1>7 DEF StoreRefresh
    <2>2. exchange' = [exchange EXCEPT ![x] = k]
      BY <1>0, <1>7 DEF StoreRefresh
    <2>3. /\ k \in ExchangeDoc /\ k.pc = "stored" /\ k.code = exchange[x].code
          /\ k.fences = exchange[x].fences
      BY <1>0 DEF ExchangeDoc, ExchangeState
    <2> HIDE DEF k
    <2>4. exchange'[x] = k
      BY <1>0, <2>2
    <2>5. /\ refresh' \in [Exchanges -> {"none", "active", "revoked"}]
          /\ refresh'[x] = "active" /\ \A y \in Exchanges : y # x => refresh'[y] = refresh[y]
      BY <1>0, <2>1
    <2>6. Spent(x) /\ exchange[x].fences = 0
      BY <1>1, <2>1 DEF Spent, CodeSound
    <2>7. CodeSound(x)'
      BY <1>1, <2>1, <2>3, <2>4, <2>6 DEF CodeSound
    <2>8. FenceSound(x)'
      BY <2>3, <2>4, <2>6 DEF FenceSound, Fences
    <2>9. \A y \in Exchanges : y # x /\ Spent(y) => exchange[y].code # k.code
      BY <2>3, <2>6 DEF ConsentInv, CodeInv
    <2> QED BY <1>0, <2>1, <2>2, <2>3, <2>5, <2>7, <2>8, <2>9, ExchangeMoves
  <1>8. CASE FenceRead(x)
    <2>1. PICK p \in exchange[x].code :
            exchange' = [exchange EXCEPT
              ![x].pc = IF IF page[p].additive /\ exchange[x].fences = 1
                           THEN UnchangedSince(p)
                           ELSE ValidReference(consent, page[p].reference, page[p].asks)
                        THEN "fencing" ELSE "undo",
              ![x].seen = consent]
      BY <1>8 DEF FenceRead
    <2>2. /\ exchange[x].pc = "stored"
          /\ UNCHANGED <<consent, generation, stamp, page, used, refresh, revocation,
                         approved>>
      BY <1>8 DEF FenceRead
    <2>3. Spent(x) /\ exchange[x].code = {p} /\ p \in Pages
      BY <1>2, <2>1, <2>2 DEF Spent
    <2>4. PICK label \in {"fencing", "undo"} :
            /\ exchange' = [exchange EXCEPT ![x].pc = label, ![x].seen = consent]
            /\ label = "fencing" /\ ~(page[p].additive /\ exchange[x].fences = 1) =>
                 ValidReference(consent, page[p].reference, page[p].asks)
      <3>1. CASE IF page[p].additive /\ exchange[x].fences = 1
                 THEN UnchangedSince(p)
                 ELSE ValidReference(consent, page[p].reference, page[p].asks)
        <4>1. exchange' = [exchange EXCEPT ![x].pc = "fencing", ![x].seen = consent]
          BY <2>1, <3>1
        <4> QED BY <3>1, <4>1
      <3>2. CASE ~(IF page[p].additive /\ exchange[x].fences = 1
                   THEN UnchangedSince(p)
                   ELSE ValidReference(consent, page[p].reference, page[p].asks))
        <4>1. exchange' = [exchange EXCEPT ![x].pc = "undo", ![x].seen = consent]
          BY <2>1, <3>2
        <4> QED BY <4>1
      <3> QED BY <3>1, <3>2
    <2> DEFINE k == [exchange[x] EXCEPT !.pc = label, !.seen = consent]
    <2>5. /\ exchange' = [exchange EXCEPT ![x] = k] /\ k \in ExchangeDoc /\ k.pc = label
          /\ k.code = exchange[x].code /\ k.fences = exchange[x].fences /\ k.seen = consent
      BY <1>0, <2>4 DEF ExchangeDoc, ExchangeState
    <2>6. label \in ExchangeState \ {"idle", "replay", "delivered"}
      BY DEF ExchangeState
    <2> HIDE DEF k
    <2>7. exchange'[x] = k
      BY <1>0, <2>5
    <2>8. /\ exchange[x].fences < Fences(p) /\ Fences(p) = IF page[p].additive THEN 3 ELSE 2
          /\ exchange[x].fences \in Nat
      BY <1>0, <1>1, <2>2, <2>3 DEF FenceSound, Fences, ExchangeDoc
    <2>9. FenceSound(x)'
      <3>1. Fences(p)' = Fences(p)
        BY <2>2 DEF Fences
      <3>2. /\ label = "fencing" /\ exchange[x].fences + 1 = Fences(p) =>
                 ValidReference(consent, page[p].reference, page[p].asks)
        BY <2>4, <2>8
      <3> QED BY <2>2, <2>3, <2>5, <2>7, <2>8, <3>1, <3>2 DEF FenceSound
    <2> QED BY <2>2, <2>3, <2>5, <2>6, <2>9, ExchangeProceeds
  <1>9. CASE FenceWrite(x)
    <2>1. /\ exchange[x].pc = "fencing"
          /\ UNCHANGED <<consent, generation, stamp, page, used, refresh, approved>>
      BY <1>9 DEF FenceWrite
    <2>2. Spent(x)
      BY <2>1 DEF Spent
    <2>3. CASE exchange' = [exchange EXCEPT ![x].pc = "undo"] /\ UNCHANGED revocation
      BY <1>3, <2>1, <2>2, <2>3
    <2>4. CASE consent = exchange[x].seen /\ Fenced(x) /\ Conflict
      <3>1. PICK p \in Pages : exchange[x].code = {p} /\ page[p].pc = "coded"
        BY <1>2, <2>2
      <3>2. /\ exchange[x].fences \in Nat /\ exchange[x].fences + 1 \in 0 .. 3
            /\ exchange[x].fences < Fences(p) /\ Fences(p) \in 2 .. 3
        BY <1>0, <1>1, <2>1, <3>1 DEF FenceSound, Fences, ExchangeDoc
      <3>3. PICK label \in {"delivered", "stored"} :
              /\ exchange' = [exchange EXCEPT ![x].pc = label, ![x].seen = NoConsent,
                                              ![x].fences = exchange[x].fences + 1]
              /\ label = "delivered" => exchange[x].fences + 1 = Fences(p)
              /\ label = "stored" => exchange[x].fences + 1 # Fences(p)
        <4>1. exchange' = [exchange EXCEPT
                 ![x].pc = IF exchange[x].fences + 1 = Fences(p) THEN "delivered"
                           ELSE "stored",
                 ![x].seen = NoConsent, ![x].fences = exchange[x].fences + 1]
          BY <1>0, <2>4, <3>1 DEF Fenced
        <4>2. CASE exchange[x].fences + 1 = Fences(p)
          <5>1. exchange' = [exchange EXCEPT ![x].pc = "delivered", ![x].seen = NoConsent,
                                             ![x].fences = exchange[x].fences + 1]
            BY <4>1, <4>2
          <5> QED BY <4>2, <5>1
        <4>3. CASE exchange[x].fences + 1 # Fences(p)
          <5>1. exchange' = [exchange EXCEPT ![x].pc = "stored", ![x].seen = NoConsent,
                                             ![x].fences = exchange[x].fences + 1]
            BY <4>1, <4>3
          <5> QED BY <4>3, <5>1
        <4> QED BY <4>2, <4>3
      <3> DEFINE k == [exchange[x] EXCEPT !.pc = label, !.seen = NoConsent,
                                          !.fences = exchange[x].fences + 1]
      <3>4. exchange' = [exchange EXCEPT ![x] = k]
        BY <1>0, <3>3
      <3>5. /\ k \in ExchangeDoc /\ k.pc = label /\ k.code = {p} /\ k.seen = NoConsent
            /\ k.fences = exchange[x].fences + 1
        BY <1>0, <3>1, <3>2 DEF ExchangeDoc, ExchangeState
      <3> HIDE DEF k
      <3>6. exchange'[x] = k
        BY <1>0, <3>4
      <3>7. /\ revocation' \in RevocationDoc /\ revocation'.sees = revocation.sees
            /\ revocation'.pc = revocation.pc
            /\ revocation.pc = "open" => revocation'.conflict
        BY <1>0, <2>4, ConflictNoted
      <3>8. label = "delivered" => consent # NoConsent /\ consent.id = page[p].reference.id
        <4>1. label = "delivered" => ValidReference(consent, page[p].reference, page[p].asks)
          BY <1>1, <2>1, <2>4, <3>1, <3>3 DEF FenceSound
        <4> QED BY <4>1 DEF ValidReference, ReferenceOf
      <3>9. CodeSound(x)'
        BY <1>1, <2>1, <2>2, <3>1, <3>5, <3>6 DEF CodeSound
      <3>10. FenceSound(x)'
        <4>1. Fences(p)' = Fences(p)
          BY <2>1 DEF Fences
        <4>2. label = "stored" => exchange[x].fences + 1 < Fences(p)
          BY <3>2, <3>3
        <4> QED BY <3>3, <3>5, <3>6, <4>1, <4>2 DEF FenceSound
      <3>11. \A y \in Exchanges : y # x /\ Spent(y) => exchange[y].code # k.code
        BY <2>2, <3>1, <3>5 DEF ConsentInv, CodeInv
      <3> QED BY <1>0, <2>1, <3>4, <3>5, <3>7, <3>8, <3>9, <3>10, <3>11, ExchangeMoves
    <2> QED BY <1>9, <2>3, <2>4 DEF FenceWrite
  <1>10. CASE UndoRefresh(x)
    <2> DEFINE k == [exchange[x] EXCEPT !.pc = "refused"]
    <2>1. /\ exchange[x].pc = "undo" /\ refresh' = [refresh EXCEPT ![x] = "revoked"]
          /\ UNCHANGED <<consent, generation, stamp, page, used, revocation, approved>>
      BY <1>10 DEF UndoRefresh
    <2>2. exchange' = [exchange EXCEPT ![x] = k]
      BY <1>0, <1>10 DEF UndoRefresh
    <2>3. k \in ExchangeDoc /\ k.pc = "refused" /\ k.code = exchange[x].code
      BY <1>0 DEF ExchangeDoc, ExchangeState
    <2> HIDE DEF k
    <2>4. exchange'[x] = k
      BY <1>0, <2>2
    <2>5. /\ refresh' \in [Exchanges -> {"none", "active", "revoked"}]
          /\ refresh'[x] = "revoked" /\ \A y \in Exchanges : y # x => refresh'[y] = refresh[y]
      BY <1>0, <2>1
    <2>6. Spent(x)
      BY <2>1 DEF Spent
    <2>7. CodeSound(x)' /\ FenceSound(x)'
      BY <1>1, <2>1, <2>3, <2>4, <2>6 DEF CodeSound, FenceSound
    <2>8. \A y \in Exchanges : y # x /\ Spent(y) => exchange[y].code # k.code
      BY <2>3, <2>6 DEF ConsentInv, CodeInv
    <2> QED BY <1>0, <2>1, <2>2, <2>3, <2>5, <2>7, <2>8, ExchangeMoves
  <1>11. CASE Abandon(x)
    BY <1>3, <1>11 DEF Abandon
  <1> QED BY <1>4, <1>5, <1>6, <1>7, <1>8, <1>9, <1>10, <1>11 DEF ExchangeStep

(* A withdrawal opens on what it sees stored, and gives up without change. *)
LEMMA WithdrawalKeeps ==
    ASSUME ConsentInv, RevokeBegin \/ RevokeAbort
    PROVE  ConsentInv'
  <1>0. refresh \in [Exchanges -> {"none", "active", "revoked"}]
    BY ConsentTyped DEF ConsentInv
  <1>1. /\ UNCHANGED <<consent, generation, stamp, page, used, exchange, refresh, approved>>
        /\ revocation' \in RevocationDoc
        /\ revocation'.pc = "open" => revocation'.sees = {x \in Exchanges : refresh[x] = "active"}
        /\ revocation'.pc # "open" => revocation'.sees = {}
    <2> DEFINE active == {x \in Exchanges : refresh[x] = "active"}
    <2>1. active \in SUBSET Exchanges
      OBVIOUS
    <2>2. CASE RevokeBegin
      <3>1. revocation' = [pc |-> "open", conflict |-> FALSE, sees |-> active]
        BY <2>2 DEF RevokeBegin
      <3> HIDE DEF active
      <3>2. revocation' \in RevocationDoc /\ revocation'.pc = "open" /\ revocation'.sees = active
        BY <2>1, <3>1 DEF RevocationDoc
      <3> QED BY <2>2, <3>2 DEF RevokeBegin, active
    <2>3. CASE RevokeAbort
      <3>1. revocation' = [pc |-> "idle", sees |-> {}, conflict |-> FALSE]
        BY <2>3 DEF RevokeAbort
      <3>2. revocation' \in RevocationDoc /\ revocation'.pc = "idle" /\ revocation'.sees = {}
        BY <3>1 DEF RevocationDoc
      <3> QED BY <2>3, <3>2 DEF RevokeAbort
    <2> QED BY <2>2, <2>3
  <1>2. ConsentTypeOK'
    BY <1>1 DEF ConsentInv, ConsentTypeOK, RevocationDoc
  <1>3. StampInv' /\ ApprovedInv'
    BY <1>1 DEF ConsentInv, StampInv, PageSound, ApprovedInv
  <1>4. CodeInv'
    <2>1. \A x \in Exchanges : (Spent(x)' <=> Spent(x)) /\ (CodeSound(x)' <=> CodeSound(x))
      BY <1>1 DEF Spent, CodeSound
    <2> QED BY <1>1, <2>1 DEF ConsentInv, CodeInv
  <1>5. FenceInv'
    BY <1>1 DEF ConsentInv, FenceInv, FenceSound, Fences
  <1>6. WithdrawInv'
    BY <1>1 DEF ConsentInv, WithdrawInv, WithdrawnConsentLeavesNoToken
  <1> QED BY <1>2, <1>3, <1>4, <1>5, <1>6 DEF ConsentInv

(* A withdrawal that commits revokes every token a client holds: it saw    *)
(* them all, because each delivery after its snapshot wrote the row.       *)
LEMMA WithdrawalCommits ==
    ASSUME ConsentInv, RevokeCommit
    PROVE  ConsentInv'
  <1>0. /\ refresh \in [Exchanges -> {"none", "active", "revoked"}]
        /\ revocation \in RevocationDoc /\ revocation.sees \subseteq Exchanges
        /\ generation \in Nat /\ page \in [Pages -> PageDoc]
    BY ConsentTyped DEF ConsentInv, RevocationDoc
  <1>1. /\ revocation.pc = "open" /\ ~revocation.conflict /\ consent' = NoConsent
        /\ generation' = generation + 1 /\ approved' = {}
        /\ refresh' = [x \in Exchanges |-> IF x \in revocation.sees THEN "revoked"
                                           ELSE refresh[x]]
        /\ UNCHANGED <<stamp, page, used, exchange>>
    BY DEF RevokeCommit
  <1>2. revocation' \in RevocationDoc /\ revocation'.pc = "idle" /\ revocation'.sees = {}
    BY <1>0 DEF RevokeCommit, RevocationDoc
  <1>3. /\ refresh' \in [Exchanges -> {"none", "active", "revoked"}]
        /\ \A x \in Exchanges : /\ x \in revocation.sees => refresh'[x] = "revoked"
                                /\ x \notin revocation.sees => refresh'[x] = refresh[x]
    BY <1>0, <1>1
  <1>4. \A x \in Exchanges : refresh'[x] = "none" <=> refresh[x] = "none"
    BY <1>0, <1>3 DEF ConsentInv, CodeInv
  <1>5. ConsentTypeOK'
    BY <1>0, <1>1, <1>2, <1>3 DEF ConsentInv, ConsentTypeOK, RevocationDoc
  <1>6. StampInv' /\ ApprovedInv'
    <2>1. \A p \in Pages : PageSound(p)'
      BY <1>1 DEF ConsentInv, StampInv, PageSound
    <2> QED BY <1>1, <2>1 DEF StampInv, ApprovedInv
  <1>7. CodeInv'
    <2>1. \A x \in Exchanges : (Spent(x)' <=> Spent(x))
      BY <1>1, <1>4 DEF Spent
    <2>2. \A x \in Exchanges : CodeSound(x)'
      BY <1>1, <1>4, <2>1 DEF ConsentInv, CodeInv, CodeSound
    <2> QED BY <1>1, <1>2, <2>1, <2>2 DEF ConsentInv, CodeInv
  <1>8. FenceInv'
    BY <1>1 DEF ConsentInv, FenceInv, FenceSound, Fences
  <1>9. WithdrawInv'
    <2>1. ASSUME NEW x \in Exchanges, exchange'[x].pc = "delivered" PROVE refresh'[x] # "active"
      BY <1>1, <1>3, <2>1 DEF ConsentInv, WithdrawInv
    <2> QED BY <1>2, <2>1 DEF WithdrawInv, WithdrawnConsentLeavesNoToken
  <1> QED BY <1>5, <1>6, <1>7, <1>8, <1>9 DEF ConsentInv

LEMMA ConsentNextInv == ConsentInv /\ [ConsentNext]_consentVars => ConsentInv'
  <1>1. ASSUME ConsentInv, [ConsentNext]_consentVars PROVE ConsentInv'
    <2>1. CASE UNCHANGED consentVars
      BY <1>1, <2>1 DEF consentVars, ConsentInv, ConsentTypeOK, StampInv, PageSound,
         ApprovedInv, CodeInv, CodeSound, Spent, FenceInv, FenceSound, Fences, WithdrawInv,
         WithdrawnConsentLeavesNoToken
    <2> QED BY <1>1, <2>1, PageStepInv, ExchangeStepInv, WithdrawalKeeps, WithdrawalCommits
            DEF ConsentNext
  <1> QED BY <1>1

(* ConsentInv is inductive, for any number of pages, exchanges, rights and *)
(* withdrawals.                                                            *)
THEOREM ConsentInvariant == ConsentSpec => []ConsentInv
  BY ConsentNextInv, ConsentInitInv, PTL DEF ConsentSpec

(* No token that a client holds outlives the consent it was issued under,  *)
(* whatever races the withdrawal (consent_service.rs, the fence of an      *)
(* exchange and the withdrawal's transaction).                             *)
THEOREM WithdrawalLeavesNoToken == ConsentSpec => []WithdrawnConsentLeavesNoToken
  <1>1. ConsentInv => WithdrawnConsentLeavesNoToken
    BY DEF ConsentInv, WithdrawInv
  <1> QED BY <1>1, ConsentInvariant, PTL

(* The row grants what was approved since the last withdrawal: no page     *)
(* shown before it brings a right back, no concurrent decision is lost     *)
(* (consent_service.rs, the generation and the compare-and-replace).       *)
THEOREM RowIsWhatWasApproved == ConsentSpec => []ConsentIsWhatWasApproved
  <1>1. ConsentInv => ConsentIsWhatWasApproved
    BY DEF ConsentInv, ApprovedInv, ConsentIsWhatWasApproved
  <1> QED BY <1>1, ConsentInvariant, PTL

(* A code is worth one token (oauth_service.rs, the conditional update     *)
(* that marks the code used).                                              *)
THEOREM CodeYieldsOneToken == ConsentSpec => []OneTokenPerCode
  <1>1. ConsentInv => OneTokenPerCode
    BY DEF ConsentInv, CodeInv, Spent, OneTokenPerCode
  <1> QED BY <1>1, ConsentInvariant, PTL

(* Only a write of an exchange's last fence delivers.                      *)
LEMMA OnlyFenceDelivers ==
    ASSUME ConsentInv, ConsentNext, NEW x \in Exchanges, exchange[x].pc # "delivered",
           exchange'[x].pc = "delivered", NEW p \in exchange[x].code
    PROVE  ValidReference(consent, page[p].reference, page[p].asks)
  <1>0. /\ exchange \in [Exchanges -> ExchangeDoc] /\ exchange[x] \in ExchangeDoc
        /\ CodeSound(x) /\ FenceSound(x)
    BY ConsentTyped DEF ConsentInv, CodeInv, FenceInv
  <1>1. exchange' # exchange
    OBVIOUS
  <1>2. PICK y \in Exchanges : ExchangeStep(y)
    <2>1. \A q \in Pages : Refuse(q) => UNCHANGED exchange
      BY DEF Refuse
    <2>2. ASSUME NEW q \in Pages, PageStep(q) PROVE UNCHANGED exchange
      <3>1. \A rights, kind : OpenReview(q, rights, kind) => UNCHANGED exchange
        BY DEF OpenReview
      <3>2. \A rights : AuthorizeSilently(q, rights) => UNCHANGED exchange
        BY DEF AuthorizeSilently
      <3>3. \A machine : DecideReview(q, machine) => UNCHANGED exchange
        BY <2>1 DEF DecideReview
      <3>4. DecideIncremental(q) \/ ReplaceIncremental(q) => UNCHANGED exchange
        BY <2>1 DEF DecideIncremental, ReplaceIncremental
      <3>5. CheckBeforeCode(q) \/ InsertCode(q) => UNCHANGED exchange
        BY <2>1 DEF CheckBeforeCode, InsertCode
      <3> QED BY <2>2, <3>1, <3>2, <3>3, <3>4, <3>5 DEF PageStep
    <2>3. RevokeBegin \/ RevokeCommit \/ RevokeAbort => UNCHANGED exchange
      BY DEF RevokeBegin, RevokeCommit, RevokeAbort
    <2> QED BY <1>1, <2>2, <2>3 DEF ConsentNext
  <1>3. ASSUME NEW label, label # "delivered",
               \/ exchange' = [exchange EXCEPT ![y].pc = label]
               \/ \E c : exchange' = [exchange EXCEPT ![y].pc = label, ![y].code = c]
               \/ \E c : exchange' = [exchange EXCEPT ![y].pc = label, ![y].seen = c]
        PROVE  FALSE
    BY <1>0, <1>3 DEF ExchangeDoc
  <1>4. ASSUME NEW q \in Pages, ClaimCode(y, q) PROVE FALSE
    BY <1>3, <1>4 DEF ClaimCode
  <1>5. ~RevokeAfterReplay(y) /\ ~StoreRefresh(y) /\ ~UndoRefresh(y) /\ ~Abandon(y)
    BY <1>3 DEF RevokeAfterReplay, StoreRefresh, UndoRefresh, Abandon
  <1>6. ~CheckExchange(y)
    BY <1>3 DEF CheckExchange
  <1>7. ~FenceRead(y)
    <2>1. SUFFICES ASSUME FenceRead(y) PROVE FALSE
      OBVIOUS
    <2>2. PICK label \in {"fencing", "undo"} :
            exchange' = [exchange EXCEPT ![y].pc = label, ![y].seen = consent]
      <3>1. PICK q \in exchange[y].code :
              exchange' = [exchange EXCEPT
                ![y].pc = IF IF page[q].additive /\ exchange[y].fences = 1
                             THEN UnchangedSince(q)
                             ELSE ValidReference(consent, page[q].reference, page[q].asks)
                          THEN "fencing" ELSE "undo",
                ![y].seen = consent]
        BY <2>1 DEF FenceRead
      <3> QED BY <3>1
    <2> QED BY <1>3, <2>2
  <1>8. FenceWrite(y)
    BY <1>2, <1>4, <1>5, <1>6, <1>7 DEF ExchangeStep
  <1>9. exchange[y].pc = "fencing" /\ consent = exchange[y].seen /\ Fenced(y)
    BY <1>3, <1>8 DEF FenceWrite
  <1>10. PICK q \in exchange[y].code :
           exchange' = [exchange EXCEPT
             ![y].pc = IF exchange[y].fences + 1 = Fences(q) THEN "delivered" ELSE "stored",
             ![y].seen = NoConsent, ![y].fences = exchange[y].fences + 1]
    BY <1>0, <1>9 DEF Fenced
  <1>11. y = x /\ exchange[x].fences + 1 = Fences(q)
    BY <1>0, <1>10 DEF ExchangeDoc
  <1>12. p = q
    BY <1>0, <1>9, <1>10, <1>11 DEF CodeSound, Spent
  <1> QED BY <1>0, <1>9, <1>11, <1>12 DEF FenceSound

(* Tokens are handed out only while the row has the very revision their    *)
(* code was issued from (oauth_service.rs, the last of the fences).        *)
THEOREM DeliveryIsUnderLiveRevision == ConsentSpec => DeliveredUnderLiveRevision
  <1>1. ASSUME ConsentInv, [ConsentNext]_consentVars
        PROVE  [\A x \in Exchanges :
                  exchange'[x].pc = "delivered" /\ exchange[x].pc # "delivered" =>
                    \A p \in exchange[x].code :
                      ValidReference(consent, page[p].reference, page[p].asks)]_consentVars
    BY <1>1, OnlyFenceDelivers DEF consentVars
  <1> QED BY <1>1, ConsentInvariant, PTL DEF ConsentSpec, DeliveredUnderLiveRevision

-----------------------------------------------------------------------------
(* Refresh tokens.  The properties of the run are not inductive by         *)
(* themselves: they need the shape of the chain.  Every id below the       *)
(* newest drawn one is a revoked row that names its successor, every id    *)
(* above it is unused, and the newest has no row exactly as long as its    *)
(* one writer has not inserted it (or never will).                         *)


Chain == \A t \in Tokens : t < drawn => /\ row[t].status = "revoked"
                                        /\ row[t].replaced_by = t + 1

Unused == \A t \in Tokens : t > drawn => row[t].status = "absent"

Newest == session = "live" => row[drawn].status # "revoked"

\* A request about to insert is the only one, and writes the newest id.
Pending == /\ \A q \in Requests : pc[q] = "insert" =>
                 cursor[q] = drawn /\ row[drawn].status = "absent"
           /\ \A p, q \in Requests : pc[p] = "insert" /\ pc[q] = "insert" => p = q

\* Where a request uses its cursor, the cursor names a row id; where it is
\* about to hand out that row, the row is stored.
Cursors == \A q \in Requests :
              /\ pc[q] \in {"walk", "recover", "reuse", "rotate", "reread", "insert"}
                    => cursor[q] \in Tokens
              /\ pc[q] = "reuse" => row[cursor[q]].status # "absent"

\* The session is revoked before its rows are, by whoever revokes it.
SessionFirst == /\ signOut # "no" => session = "revoked"
                /\ \A q \in Requests : pc[q] = "revoke_rows" => session = "revoked"

\* A request that came too late never passes the session check.
Late == \A q \in late : session = "revoked" /\ pc[q] \in {"idle", "session"}

Inv == /\ TypeOK
       /\ Chain /\ Unused /\ Newest /\ Pending
       /\ Cursors /\ SessionFirst /\ Late
       /\ DeliveredIsStored /\ ReuseIsAnswered /\ RevokedSessionIssuesNothing

\* A session starts with one stored token and no request.
LEMMA InitInv == Init => Inv
<1> SUFFICES ASSUME Init PROVE Inv
  OBVIOUS
<1>1. TypeOK
  BY RotationAssumption
  DEF Init, TypeOK, Row, Snapshot, AbsentRow, FreshRow, NoSnapshot, Tokens,
      None, Labels, Outcomes
<1>2. Chain /\ Unused /\ Newest /\ Pending
  BY RotationAssumption
  DEF Init, Chain, Unused, Newest, Pending, Tokens, AbsentRow, FreshRow
<1>3. Cursors /\ SessionFirst /\ Late
  BY DEF Init, Cursors, SessionFirst, Late
<1>4. DeliveredIsStored /\ ReuseIsAnswered /\ RevokedSessionIssuesNothing
  BY RotationAssumption
  DEF Init, DeliveredIsStored, ReuseIsAnswered, RevokedSessionIssuesNothing,
      Tokens, FreshRow, AbsentRow
<1> QED BY <1>1, <1>2, <1>3, <1>4 DEF Inv

\* A row within the grace period may age by one tick.
LEMMA AgedRow ==
    ASSUME NEW r \in Row, r.age <= Grace
    PROVE  [r EXCEPT !.age = @ + 1] \in Row
<1>1. r.age + 1 \in 0 .. (Grace + 1)
  BY RotationAssumption DEF Row
<1> QED BY <1>1 DEF Row

\* The batch of revoke_session leaves rows.
LEMMA BatchType == TypeOK => AllRevoked \in [Tokens -> Row]
<1> SUFFICES ASSUME TypeOK, NEW t \in Tokens
             PROVE  AllRevoked[t] \in Row
  BY DEF AllRevoked
<1>1. row[t] \in Row
  BY DEF TypeOK
<1>2. [row[t] EXCEPT !.status = "revoked"] \in Row
  BY <1>1 DEF Row
<1> QED BY <1>1, <1>2 DEF AllRevoked

\* Every step keeps the types.
LEMMA TypeStep ==
    ASSUME TypeOK, Cursors, [Next]_vars
    PROVE  TypeOK'
<1> USE RotationAssumption DEF TypeOK, Tokens, None, Goto, dbVars, Labels
<1>1. ASSUME NEW q \in Requests, NEW t \in Tokens, Lookup(q, t) PROVE TypeOK'
  <2>1. [status |-> row[t].status, replaced_by |-> row[t].replaced_by] \in Snapshot
    BY DEF Row, Snapshot
  <2> QED BY <1>1, <2>1 DEF Lookup, Outcomes
<1>2. ASSUME NEW q \in Requests, NEW what \in Outcomes, Answer(q, what)
      PROVE  /\ pc' \in [Requests -> Labels]
             /\ outcome' \in [Requests -> Outcomes]
             /\ stored' \in [Requests -> Snapshot]
             /\ cursor' \in [Requests -> 0 .. MaxTokens]
             /\ depth' \in [Requests -> 0 .. MaxDepth]
  BY <1>2 DEF Answer, NoSnapshot, Snapshot
<1>3. ASSUME NEW q \in Requests, SessionRefused(q) PROVE TypeOK'
  BY <1>3, <1>2 DEF SessionRefused, Outcomes
<1>4. ASSUME NEW q \in Requests, SessionAccepted(q) PROVE TypeOK'
  BY <1>4 DEF SessionAccepted, Outcomes
<1>5. ASSUME NEW q \in Requests, Dispose(q) PROVE TypeOK'
  <2>1. stored[q].replaced_by \in 0 .. MaxTokens /\ token[q] \in 0 .. MaxTokens
    BY DEF Snapshot
  <2>2. cursor' \in [Requests -> 0 .. MaxTokens] /\ pc' \in [Requests -> Labels]
    BY <1>5, <2>1 DEF Dispose
  <2> QED BY <1>5, <2>2 DEF Dispose
<1>6. ASSUME NEW q \in Requests, WalkOn(q) PROVE TypeOK'
  <2>1. row[cursor[q]].replaced_by \in 0 .. MaxTokens
    BY <1>6 DEF WalkOn, Walking, Cursors, Row
  <2>2. depth[q] + 1 \in 0 .. MaxDepth
    BY <1>6 DEF WalkOn, LeadsOn
  <2> QED BY <1>6, <2>1, <2>2 DEF WalkOn, Current
<1>7. ASSUME NEW q \in Requests, WalkFound(q) PROVE TypeOK'
  BY <1>7 DEF WalkFound, Outcomes
<1>8. ASSUME NEW q \in Requests, WalkExhausted(q) PROVE TypeOK'
  BY <1>8 DEF WalkExhausted, Outcomes
<1>9. ASSUME NEW q \in Requests, RecoverExhausted(q) PROVE TypeOK'
  BY <1>9, <1>2 DEF RecoverExhausted, Outcomes
<1>10. ASSUME NEW q \in Requests, Reuse(q) PROVE TypeOK'
  BY <1>10, <1>2 DEF Reuse, Outcomes, Cursors
<1>11. ASSUME NEW q \in Requests, RotateWins(q) PROVE TypeOK'
  <2>1. [status |-> "revoked", replaced_by |-> drawn + 1,
         revoked_at |-> "set", age |-> 0] \in Row
    BY <1>11 DEF RotateWins, Row
  <2>2. row' \in [Tokens -> Row]
    BY <1>11, <2>1 DEF RotateWins
  <2>3. drawn + 1 \in Tokens /\ drawn + 1 \in 0 .. MaxTokens
    BY <1>11 DEF RotateWins
  <2> QED BY <1>11, <2>2, <2>3 DEF RotateWins
<1>12. ASSUME NEW q \in Requests, RotateLoses(q) PROVE TypeOK'
  BY <1>12 DEF RotateLoses, Outcomes
<1>13. ASSUME NEW q \in Requests, Reread(q) PROVE TypeOK'
  BY <1>13 DEF Reread, Current, Cursors, Row
<1>14. ASSUME NEW q \in Requests, RereadConflict(q) PROVE TypeOK'
  BY <1>14, <1>2 DEF RereadConflict, Outcomes
<1>15. ASSUME NEW q \in Requests, Insert(q) PROVE TypeOK'
  <2>1. FreshRow \in Row
    BY DEF FreshRow, Row
  <2> QED BY <1>15, <1>2, <2>1 DEF Insert, Cursors, Outcomes
<1>16. ASSUME NEW q \in Requests, InsertAnswerLost(q) PROVE TypeOK'
  <2>1. FreshRow \in Row
    BY DEF FreshRow, Row
  <2> QED BY <1>16, <1>2, <2>1 DEF InsertAnswerLost, Outcomes
<1>17. ASSUME NEW q \in Requests, Abort(q) PROVE TypeOK'
  BY <1>17, <1>2 DEF Abort, Outcomes
<1>18. ASSUME NEW q \in Requests, ReuseRevokesSession(q) PROVE TypeOK'
  BY <1>18 DEF ReuseRevokesSession, Outcomes
<1>19. ASSUME NEW q \in Requests, ReuseRevokesRows(q) PROVE TypeOK'
  <2>1. row' \in [Tokens -> Row]
    BY <1>19, BatchType DEF ReuseRevokesRows
  <2>2. PICK what \in Outcomes : Answer(q, what)
    BY <1>19 DEF ReuseRevokesRows, Outcomes
  <2>3. /\ pc' \in [Requests -> Labels] /\ outcome' \in [Requests -> Outcomes]
        /\ stored' \in [Requests -> Snapshot]
        /\ cursor' \in [Requests -> 0 .. MaxTokens]
        /\ depth' \in [Requests -> 0 .. MaxDepth]
    BY <2>2, <1>2
  <2>4. UNCHANGED <<session, drawn, delivered, token, signOut, late>>
    BY <1>19 DEF ReuseRevokesRows
  <2> QED BY <2>1, <2>3, <2>4
<1>20. ASSUME SignOutSession PROVE TypeOK'
  BY <1>20 DEF SignOutSession
<1>21. ASSUME SignOutRows PROVE TypeOK'
  <2>1. row' \in [Tokens -> Row]
    BY <1>21, BatchType DEF SignOutRows
  <2> QED BY <1>21, <2>1 DEF SignOutRows
<1>22. ASSUME Tick PROVE TypeOK'
  <2>2. row' \in [Tokens -> Row]
    BY <1>22, AgedRow DEF Tick
  <2> QED BY <1>22, <2>2 DEF Tick
<1>23. ASSUME UNCHANGED vars PROVE TypeOK'
  BY <1>23 DEF vars
<1> QED BY <1>1, <1>3, <1>4, <1>5, <1>6, <1>7, <1>8, <1>9, <1>10, <1>11, <1>12, <1>13, <1>14, <1>15, <1>16, <1>17, <1>18, <1>19, <1>20, <1>21, <1>22, <1>23 DEF Next, Step

-----------------------------------------------------------------------------
\* What the invariant says about rows and revocation, and about answers.
RowsInv == /\ Chain /\ Unused /\ Newest /\ Pending /\ SessionFirst
           /\ DeliveredIsStored
CallsInv == Cursors /\ Late /\ ReuseIsAnswered /\ RevokedSessionIssuesNothing

\* A step that leaves rows, session and delivered tokens alone, and moves one
\* request to a label other than the two that announce a write, keeps RowsInv.
LEMMA LocalRows ==
    ASSUME TypeOK, RowsInv, NEW q \in Requests,
           UNCHANGED <<row, session, drawn, delivered, signOut>>,
           \A p \in Requests : p # q => pc'[p] = pc[p] /\ cursor'[p] = cursor[p],
           pc'[q] \notin {"insert", "revoke_rows"}
    PROVE  RowsInv'
<1>1. Chain' /\ Unused' /\ Newest'
  BY DEF RowsInv, Chain, Unused, Newest
<1>2. Pending'
  BY DEF RowsInv, Pending
<1>3. SessionFirst'
  BY DEF RowsInv, SessionFirst
<1>4. DeliveredIsStored'
  BY DEF RowsInv, DeliveredIsStored
<1> QED BY <1>1, <1>2, <1>3, <1>4 DEF RowsInv

\* The steps that only move a request.
LocalStep(q) ==
    \/ \E t \in Tokens : Lookup(q, t)
    \/ SessionRefused(q) \/ SessionAccepted(q) \/ Dispose(q)
    \/ WalkOn(q) \/ WalkFound(q) \/ WalkExhausted(q) \/ RecoverExhausted(q)
    \/ RotateLoses(q) \/ Reread(q) \/ RereadConflict(q) \/ Abort(q)

\* Steps that only read, or only end a request, keep RowsInv.
LEMMA LocalStepRows ==
    ASSUME TypeOK, RowsInv, NEW q \in Requests, LocalStep(q)
    PROVE  RowsInv'
<1>1. UNCHANGED <<row, session, drawn, delivered, signOut>>
  BY DEF LocalStep, Lookup, SessionRefused, SessionAccepted, Dispose, WalkOn,
         WalkFound, WalkExhausted, RecoverExhausted, RotateLoses, Reread,
         RereadConflict, Abort, dbVars
<1>2. \A p \in Requests : p # q => pc'[p] = pc[p] /\ cursor'[p] = cursor[p]
  BY DEF LocalStep, Lookup, SessionRefused, SessionAccepted, Dispose, WalkOn,
         WalkFound, WalkExhausted, RecoverExhausted, RotateLoses, Reread,
         RereadConflict, Abort, Goto, Answer, TypeOK
<1>3. pc'[q] \notin {"insert", "revoke_rows"}
  BY DEF LocalStep, Lookup, SessionRefused, SessionAccepted, Dispose, WalkOn,
         WalkFound, WalkExhausted, RecoverExhausted, RotateLoses, Reread,
         RereadConflict, Abort, Goto, Answer, TypeOK, Walking
<1> QED BY <1>1, <1>2, <1>3, LocalRows

\* Winning the compare-and-set: the row was the newest, because every older
\* one is revoked and every other one has no row; and nobody was inserting.
LEMMA RotateWinsRows ==
    ASSUME TypeOK, RowsInv, Cursors, NEW q \in Requests, RotateWins(q)
    PROVE  RowsInv'
<1> USE RotationAssumption DEF Tokens, TypeOK
<1>1. cursor[q] \in Tokens /\ row[cursor[q]].status = "active"
  BY DEF RotateWins, Cursors
<1>2. cursor[q] = drawn
  BY <1>1 DEF RowsInv, Chain, Unused
<1>3. \A p \in Requests : pc[p] # "insert"
  BY <1>1, <1>2 DEF RowsInv, Pending
<1>4. /\ drawn' = drawn + 1 /\ drawn' \in Tokens
      /\ row'[drawn].status = "revoked" /\ row'[drawn].replaced_by = drawn + 1
      /\ \A t \in Tokens : t # drawn => row'[t] = row[t]
  BY <1>2 DEF RotateWins
<1>5. row'[drawn'].status = "absent"
  <2>1. drawn + 1 \in Tokens /\ drawn + 1 > drawn /\ drawn + 1 # drawn
    BY <1>4
  <2>2. row'[drawn + 1] = row[drawn + 1] /\ row[drawn + 1].status = "absent"
    BY <1>4, <2>1 DEF RowsInv, Unused
  <2> QED BY <1>4, <2>2
<1>6. /\ pc'[q] = "insert" /\ cursor'[q] = drawn'
      /\ \A p \in Requests : p # q => pc'[p] = pc[p]
  BY DEF RotateWins, Goto
<1>7. Chain' /\ Unused'
  <2>1. ASSUME NEW t \in Tokens, t < drawn'
        PROVE  row'[t].status = "revoked" /\ row'[t].replaced_by = t + 1
    <3>1. CASE t = drawn
      BY <1>4, <3>1
    <3>2. CASE t # drawn
      BY <1>4, <2>1, <3>2 DEF RowsInv, Chain
    <3> QED BY <3>1, <3>2
  <2>2. ASSUME NEW t \in Tokens, t > drawn' PROVE row'[t].status = "absent"
    <3>1. t > drawn /\ t # drawn
      BY <1>4, <2>2
    <3> QED BY <1>4, <3>1 DEF RowsInv, Unused
  <2> QED BY <2>1, <2>2 DEF Chain, Unused
<1>8. Newest'
  BY <1>5 DEF Newest
<1>9. Pending'
  BY <1>3, <1>5, <1>6 DEF Pending
<1>10. SessionFirst'
  BY <1>6 DEF RowsInv, SessionFirst, RotateWins
<1>11. DeliveredIsStored'
  BY <1>4 DEF RowsInv, DeliveredIsStored, RotateWins
<1> QED BY <1>7, <1>8, <1>9, <1>10, <1>11 DEF RowsInv

\* The insert turns the newest id into an active row.
LEMMA InsertRows ==
    ASSUME TypeOK, RowsInv, Cursors, NEW q \in Requests,
           Insert(q) \/ InsertAnswerLost(q)
    PROVE  RowsInv'
<1> USE RotationAssumption DEF Tokens, TypeOK
<1>1. cursor[q] = drawn /\ pc[q] = "insert"
  BY DEF Insert, InsertAnswerLost, RowsInv, Pending
<1>2. /\ row'[drawn].status = "active"
      /\ \A t \in Tokens : t # drawn => row'[t] = row[t]
      /\ UNCHANGED <<drawn, session, signOut>>
  BY <1>1 DEF Insert, InsertAnswerLost, FreshRow
<1>3. pc'[q] = "idle" /\ \A p \in Requests : p # q => pc'[p] = pc[p]
  BY DEF Insert, InsertAnswerLost, Answer
<1>4. \A p \in Requests : pc'[p] # "insert"
  BY <1>1, <1>3 DEF RowsInv, Pending
<1>5. Chain' /\ Unused' /\ Newest'
  BY <1>2 DEF RowsInv, Chain, Unused, Newest
<1>6. Pending'
  BY <1>4 DEF Pending
<1>7. SessionFirst'
  BY <1>2, <1>3 DEF RowsInv, SessionFirst
<1>8. delivered' \subseteq delivered \cup {drawn}
  BY <1>1 DEF Insert, InsertAnswerLost
<1>9. DeliveredIsStored'
  BY <1>2, <1>8 DEF RowsInv, DeliveredIsStored
<1> QED BY <1>5, <1>6, <1>7, <1>9 DEF RowsInv

\* The batch revokes what is active; it runs after the session was revoked.
LEMMA BatchRows ==
    ASSUME TypeOK, RowsInv, session = "revoked", session' = session,
           row' = AllRevoked, UNCHANGED <<drawn, delivered>>
    PROVE  Chain' /\ Unused' /\ Newest' /\ DeliveredIsStored'
           /\ (row[drawn].status = "absent" => row'[drawn].status = "absent")
<1>1. \A t \in Tokens : /\ row[t].status # "active" => row'[t] = row[t]
                        /\ row[t].status = "active" => row'[t].status = "revoked"
  BY DEF AllRevoked, TypeOK, Row
<1>2. drawn \in Tokens /\ delivered \in SUBSET Tokens
  BY DEF TypeOK
<1>3. Chain' /\ Unused'
  BY <1>1 DEF RowsInv, Chain, Unused
<1>4. Newest'
  BY DEF Newest
<1>5. DeliveredIsStored'
  BY <1>1, <1>2 DEF RowsInv, DeliveredIsStored
<1> QED BY <1>1, <1>2, <1>3, <1>4, <1>5

\* Every step keeps what the invariant says about rows.
LEMMA RowsStep ==
    ASSUME TypeOK, TypeOK', RowsInv, Cursors, [Next]_vars
    PROVE  RowsInv'
<1>1. ASSUME NEW q \in Requests, LocalStep(q) PROVE RowsInv'
  BY <1>1, LocalStepRows
<1>2. ASSUME NEW q \in Requests, Reuse(q) PROVE RowsInv'
  <2>1. Chain' /\ Unused' /\ Newest'
    BY <1>2 DEF Reuse, dbVars, RowsInv, Chain, Unused, Newest
  <2>2. Pending' /\ SessionFirst'
    BY <1>2 DEF Reuse, dbVars, Answer, RowsInv, Pending, SessionFirst, TypeOK
  <2>3. DeliveredIsStored'
    BY <1>2 DEF Reuse, dbVars, RowsInv, DeliveredIsStored, Cursors
  <2> QED BY <2>1, <2>2, <2>3 DEF RowsInv
<1>3. ASSUME NEW q \in Requests, RotateWins(q) PROVE RowsInv'
  BY <1>3, RotateWinsRows
<1>4. ASSUME NEW q \in Requests, Insert(q) \/ InsertAnswerLost(q) PROVE RowsInv'
  BY <1>4, InsertRows
<1>5. ASSUME NEW q \in Requests, ReuseRevokesSession(q) PROVE RowsInv'
  <2>1. Chain' /\ Unused' /\ Newest' /\ DeliveredIsStored'
    BY <1>5 DEF ReuseRevokesSession, RowsInv, Chain, Unused, Newest, DeliveredIsStored
  <2>2. Pending' /\ SessionFirst'
    BY <1>5 DEF ReuseRevokesSession, Goto, RowsInv, Pending, SessionFirst, TypeOK
  <2> QED BY <2>1, <2>2 DEF RowsInv
<1>6. ASSUME NEW q \in Requests, ReuseRevokesRows(q) PROVE RowsInv'
  <2>1. session = "revoked" /\ session' = session
    BY <1>6 DEF ReuseRevokesRows, RowsInv, SessionFirst
  <2>2. Chain' /\ Unused' /\ Newest' /\ DeliveredIsStored'
        /\ (row[drawn].status = "absent" => row'[drawn].status = "absent")
    BY <1>6, <2>1, BatchRows DEF ReuseRevokesRows
  <2>3. Pending' /\ SessionFirst'
    BY <1>6, <2>1, <2>2
    DEF ReuseRevokesRows, Answer, RowsInv, Pending, SessionFirst, TypeOK
  <2> QED BY <2>2, <2>3 DEF RowsInv
<1>7. ASSUME SignOutSession PROVE RowsInv'
  BY <1>7 DEF SignOutSession, RowsInv, Chain, Unused, Newest, Pending,
              SessionFirst, DeliveredIsStored
<1>8. ASSUME SignOutRows PROVE RowsInv'
  <2>1. session = "revoked" /\ session' = session
    BY <1>8 DEF SignOutRows, RowsInv, SessionFirst
  <2>2. Chain' /\ Unused' /\ Newest' /\ DeliveredIsStored'
        /\ (row[drawn].status = "absent" => row'[drawn].status = "absent")
    BY <1>8, <2>1, BatchRows DEF SignOutRows
  <2>3. Pending' /\ SessionFirst'
    BY <1>8, <2>1, <2>2 DEF SignOutRows, RowsInv, Pending, SessionFirst
  <2> QED BY <2>2, <2>3 DEF RowsInv
<1>9. ASSUME Tick PROVE RowsInv'
  <2>1. \A t \in Tokens : /\ row'[t].status = row[t].status
                          /\ row'[t].replaced_by = row[t].replaced_by
    BY <1>9 DEF Tick, TypeOK, Row
  <2>2. drawn \in Tokens /\ delivered \in SUBSET Tokens
    BY DEF TypeOK
  <2>3. Chain' /\ Unused' /\ Newest' /\ DeliveredIsStored'
    BY <1>9, <2>1, <2>2
    DEF Tick, RowsInv, Chain, Unused, Newest, DeliveredIsStored
  <2>4. Pending' /\ SessionFirst'
    BY <1>9, <2>1, <2>2 DEF Tick, RowsInv, Pending, SessionFirst
  <2> QED BY <2>3, <2>4 DEF RowsInv
<1>10. ASSUME UNCHANGED vars PROVE RowsInv'
  BY <1>10 DEF vars, RowsInv, Chain, Unused, Newest, Pending, SessionFirst,
               DeliveredIsStored
<1> QED BY <1>1, <1>2, <1>3, <1>4, <1>5, <1>6, <1>7, <1>8, <1>9, <1>10
        DEF Next, Step, LocalStep

\* No step removes a stored row.
RowsKept == \A t \in Tokens : row[t].status # "absent" => row'[t].status # "absent"

\* Rotation, insert, batch and clock change rows and remove none.
LEMMA NoRowRemoved ==
    ASSUME TypeOK, [Next]_vars
    PROVE  RowsKept
<1> USE DEF TypeOK, RowsKept
<1>1. CASE UNCHANGED row
  BY <1>1
<1>2. ASSUME NEW q \in Requests, RotateWins(q) PROVE RowsKept
  BY <1>2 DEF RotateWins
<1>3. ASSUME NEW q \in Requests, Insert(q) \/ InsertAnswerLost(q) PROVE RowsKept
  BY <1>3 DEF Insert, InsertAnswerLost, FreshRow
<1>4. CASE row' = AllRevoked
  BY <1>4 DEF AllRevoked, Row
<1>5. CASE Tick
  BY <1>5 DEF Tick, Row
<1> QED BY <1>1, <1>2, <1>3, <1>4, <1>5
        DEF Next, Step, vars, dbVars, Lookup, SessionRefused, SessionAccepted,
            Dispose, WalkOn, WalkFound, WalkExhausted, RecoverExhausted, Reuse,
            RotateLoses, Reread, RereadConflict, Abort, ReuseRevokesSession,
            ReuseRevokesRows, SignOutSession, SignOutRows

\* Every step keeps what the invariant says about the calls in progress.
LEMMA CallsStep ==
    ASSUME TypeOK, TypeOK', RowsInv, CallsInv, [Next]_vars
    PROVE  CallsInv'
<1> USE NoRowRemoved DEF CallsInv, Cursors, Late, ReuseIsAnswered,
        RevokedSessionIssuesNothing, Goto, Answer, TypeOK, dbVars, RowsKept
<1>1. ASSUME NEW q \in Requests, NEW t \in Tokens, Lookup(q, t) PROVE CallsInv'
  BY <1>1 DEF Lookup
<1>2. ASSUME NEW q \in Requests, SessionRefused(q) PROVE CallsInv'
  BY <1>2 DEF SessionRefused
<1>3. ASSUME NEW q \in Requests, SessionAccepted(q) PROVE CallsInv'
  BY <1>3 DEF SessionAccepted
<1>4. ASSUME NEW q \in Requests, Dispose(q) PROVE CallsInv'
  <2>1. stored[q].replaced_by # None => stored[q].replaced_by \in Tokens
    BY DEF Snapshot, Tokens, None
  <2>2. pc'[q] \in {"rotate", "walk"} => cursor'[q] \in Tokens
    BY <1>4, <2>1 DEF Dispose
  <2>3. pc'[q] \in {"rotate", "walk", "revoke_session"} /\ pc[q] = "dispose"
    BY <1>4 DEF Dispose
  <2>4. /\ UNCHANGED <<row, session, late, outcome>>
        /\ \A p \in Requests : p # q => pc'[p] = pc[p] /\ cursor'[p] = cursor[p]
    BY <1>4 DEF Dispose
  <2> QED BY <2>2, <2>3, <2>4
<1>5. ASSUME NEW q \in Requests, WalkOn(q) PROVE CallsInv'
  <2>1. row[cursor[q]] \in Row /\ pc[q] \in {"walk", "recover"}
    BY <1>5 DEF WalkOn, Walking
  <2>2. cursor'[q] \in Tokens
    BY <1>5, <2>1 DEF WalkOn, LeadsOn, Current, Row, Tokens, None
  <2>3. /\ UNCHANGED <<row, session, late, outcome, pc>>
        /\ \A p \in Requests : p # q => cursor'[p] = cursor[p]
    BY <1>5 DEF WalkOn
  <2> QED BY <2>1, <2>2, <2>3
<1>6. ASSUME NEW q \in Requests, WalkFound(q) PROVE CallsInv'
  BY <1>6 DEF WalkFound, Walking, Found, Current
<1>7. ASSUME NEW q \in Requests, WalkExhausted(q) PROVE CallsInv'
  BY <1>7 DEF WalkExhausted, Walking
<1>8. ASSUME NEW q \in Requests, RecoverExhausted(q) PROVE CallsInv'
  BY <1>8 DEF RecoverExhausted
<1>9. ASSUME NEW q \in Requests, Reuse(q) PROVE CallsInv'
  BY <1>9 DEF Reuse
<1>10. ASSUME NEW q \in Requests, RotateWins(q) PROVE CallsInv'
  BY <1>10 DEF RotateWins, Tokens
<1>11. ASSUME NEW q \in Requests, RotateLoses(q) PROVE CallsInv'
  BY <1>11 DEF RotateLoses
<1>12. ASSUME NEW q \in Requests, Reread(q) PROVE CallsInv'
  BY <1>12 DEF Reread, Current, Row, Tokens, None
<1>13. ASSUME NEW q \in Requests, RereadConflict(q) PROVE CallsInv'
  BY <1>13 DEF RereadConflict
<1>14. ASSUME NEW q \in Requests, Insert(q) PROVE CallsInv'
  BY <1>14 DEF Insert
<1>15. ASSUME NEW q \in Requests, InsertAnswerLost(q) PROVE CallsInv'
  BY <1>15 DEF InsertAnswerLost
<1>16. ASSUME NEW q \in Requests, Abort(q) PROVE CallsInv'
  BY <1>16 DEF Abort
<1>17. ASSUME NEW q \in Requests, ReuseRevokesSession(q) PROVE CallsInv'
  BY <1>17 DEF ReuseRevokesSession
<1>18. ASSUME NEW q \in Requests, ReuseRevokesRows(q) PROVE CallsInv'
  BY <1>18 DEF ReuseRevokesRows, RowsInv, SessionFirst
<1>19. ASSUME SignOutSession PROVE CallsInv'
  BY <1>19 DEF SignOutSession
<1>20. ASSUME SignOutRows PROVE CallsInv'
  BY <1>20 DEF SignOutRows
<1>21. ASSUME Tick PROVE CallsInv'
  BY <1>21 DEF Tick
<1>22. ASSUME UNCHANGED vars PROVE CallsInv'
  BY <1>22 DEF vars
<1> QED BY <1>1, <1>2, <1>3, <1>4, <1>5, <1>6, <1>7, <1>8, <1>9, <1>10, <1>11, <1>12, <1>13, <1>14, <1>15, <1>16, <1>17, <1>18, <1>19, <1>20, <1>21, <1>22 DEF Next, Step

LEMMA RotationNextInv == Inv /\ [Next]_vars => Inv'
<1> SUFFICES ASSUME Inv, [Next]_vars PROVE Inv'
  OBVIOUS
<1>1. TypeOK /\ RowsInv /\ CallsInv /\ Cursors
  BY DEF Inv, RowsInv, CallsInv
<1>2. TypeOK'
  BY <1>1, TypeStep
<1>3. RowsInv' /\ CallsInv'
  BY <1>1, <1>2, RowsStep, CallsStep
<1> QED BY <1>2, <1>3 DEF Inv, RowsInv, CallsInv

\* The invariant of refresh tokens holds in every reachable state, for any
\* number of concurrent requests and tokens.
THEOREM Safety == Spec => []Inv
  BY RotationNextInv, InitInv, PTL DEF Spec

\* Two requests never leave a session with two usable refresh tokens, however
\* many of them race and however many tokens the session has seen.
THEOREM NoTwoActiveTokens == Spec => []OneActiveToken
<1>1. Inv => OneActiveToken
  <2> SUFFICES ASSUME Inv, NEW t \in ActiveRows, NEW u \in ActiveRows
               PROVE  t = u
    BY DEF OneActiveToken
  <2>1. ASSUME NEW v \in ActiveRows PROVE v = drawn
    BY <2>1, RotationAssumption
    DEF ActiveRows, Inv, TypeOK, Chain, Unused, Tokens
  <2> QED BY <2>1
<1> QED BY <1>1, Safety, PTL

\* The replacements of a session's refresh tokens form one chain that ends in
\* the newest token, which is not revoked while the session lives.
THEOREM ReplacementsFormOneChain == Spec => []OneChain
<1>1. Inv => OneChain
  BY RotationAssumption DEF Inv, TypeOK, Chain, Newest, OneChain, Tokens
<1> QED BY <1>1, Safety, PTL

\* No request that begins after the session was revoked is handed a token,
\* and nobody is handed a token that has no row.
THEOREM IssuedTokensAreSound ==
    Spec => [](RevokedSessionIssuesNothing /\ DeliveredIsStored)
<1>1. Inv => RevokedSessionIssuesNothing /\ DeliveredIsStored
  BY DEF Inv
<1> QED BY <1>1, Safety, PTL

\* Whoever is told that a refresh token was reused finds the session revoked.
THEOREM ReuseRevokesTheSession == Spec => []ReuseIsAnswered
<1>1. Inv => ReuseIsAnswered
  BY DEF Inv
<1> QED BY <1>1, Safety, PTL

-----------------------------------------------------------------------------
(* The parts side by side.                                                 *)

\* Whichever part a behaviour uses, every document keeps its type: no step of
\* a refresh, a consent or an approval writes what the code cannot read back.
THEOREM AuthorityIsTyped == AuthoritySpec => []AuthorityTypeOK
<1> DEFINE All == Inv /\ ConsentInv /\ ApprovalInv
<1>1. AuthorityInit => All
  BY InitInv, ConsentInitInv, ApprovalInitInv DEF AuthorityInit
<1>2. All /\ [AuthorityNext]_authorityVars => All'
  <2> SUFFICES ASSUME All, [AuthorityNext]_authorityVars PROVE All'
    OBVIOUS
  <2>1. [Next]_vars /\ [ConsentNext]_consentVars /\ [ApprovalNext]_approvalVars
    BY DEF AuthorityNext, authorityVars
  <2> QED BY <2>1, RotationNextInv, ConsentNextInv, ApprovalNextInv
<1>3. All => AuthorityTypeOK
  BY DEF Inv, ConsentInv, ApprovalInv, AuthorityTypeOK
<1> QED BY <1>1, <1>2, <1>3, PTL DEF AuthoritySpec
=============================================================================
