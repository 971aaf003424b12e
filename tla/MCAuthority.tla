---------------------------- MODULE MCAuthority ----------------------------
(* What lets a client act for a user: the refresh tokens of a session, the *)
(* consent to an OAuth client, the approvals of calls.  They share         *)
(* nothing, so a behaviour uses one of them and the others rest.           *)
EXTENDS RefreshRotation, ConsentGrants, Approvals, TLC

VARIABLE part

authorityVars == <<part, vars, consentVars, approvalVars>>

(* The parts name their requests, pages and calls alike, and so on, which  *)
(* gives each of them its whole symmetry from one small group.             *)
MCSymmetry == Permutations(Calls) \cup Permutations(Decisions) \cup Permutations(Sweeps)

AuthorityInit ==
    /\ part \in {"session", "consent", "approval"}
    /\ Init /\ ConsentInit /\ ApprovalInit
    /\ part # "consent" => consent = NoConsent
    /\ part # "approval" => mode = "grant"

(* Only refreshes have to be able to go on for ever.                       *)
AuthorityNext ==
    /\ UNCHANGED part
    /\ \/ part = "session" /\ Next /\ UNCHANGED <<consentVars, approvalVars>>
       \/ part = "consent" /\ ConsentNext /\ UNCHANGED <<vars, approvalVars>>
       \/ part = "approval" /\ ApprovalNext /\ UNCHANGED <<vars, consentVars>>
       \/ part # "session" /\ UNCHANGED <<vars, consentVars, approvalVars>>

AuthoritySpec == AuthorityInit /\ [][AuthorityNext]_authorityVars

(* Every variable of every part has its type.                              *)
AuthorityTypeOK == TypeOK /\ ConsentTypeOK /\ ApprovalTypeOK
=============================================================================
