-------------------------- MODULE RefreshRotation --------------------------
(***************************************************************************)
(* services/token_service.rs: the refresh tokens of one first-party        *)
(* session.  refresh_tokens rotates the presented token, lets a retry      *)
(* within the grace period converge on the replacement, and answers any    *)
(* other reuse by revoking the session.  It takes no transaction: each     *)
(* read and write below is its own step, and requests from several tabs,   *)
(* retries and replicas interleave between them.                           *)
(*                                                                         *)
(* Left out: row expiry (30 days, against a grace period of two minutes),  *)
(* the OAuth clients with their consent fence, and the claims of the JWTs. *)
(***************************************************************************)
EXTENDS Naturals, FiniteSets

CONSTANTS Requests,  \* concurrent calls of refresh_tokens
          MaxTokens, \* bound: rows of this family, the first included
          Grace,     \* REUSE_GRACE_PERIOD_SECS, in clock ticks
          MaxDepth   \* MAX_REPLACEMENT_CHAIN_DEPTH

ASSUME RotationAssumption == /\ MaxTokens \in Nat \ {0}
                             /\ Grace \in Nat
                             /\ MaxDepth \in Nat \ {0}

Tokens == 1 .. MaxTokens
None == 0

\* revoked_at is not set on rows that a batch revoked; age is the time since
\* revoked_at, counted up to the first tick past the grace.
Row == [status : {"absent", "active", "revoked"}, replaced_by : 0 .. MaxTokens,
        revoked_at : {"none", "set"}, age : 0 .. (Grace + 1)]

Snapshot == [status : {"absent", "active", "revoked"},
             replaced_by : 0 .. MaxTokens]

VARIABLES row,       \* the refresh_tokens rows, by id
          session,   \* the sessions row: "live" or "revoked"
          drawn,     \* row ids drawn so far; ids are never drawn twice
          delivered, \* tokens some client was handed
          pc,        \* where each request is
          token,     \* the token it presented
          stored,    \* what its first read found in that row
          cursor,    \* the row its chain walk reads next, or the row it uses
          depth,     \* rows the chain walk has read
          signOut,   \* the user's own revoke_session: "no", "rows" or "done"
          outcome,   \* what the request answered
          late       \* history: requests that began after the revocation

dbVars == <<row, session, drawn>>
vars == <<row, session, drawn, delivered, pc, token, stored, cursor, depth,
          signOut, outcome, late>>

Labels == {"idle", "session", "dispose", "walk", "reuse", "rotate", "reread",
           "recover", "insert", "revoke_session", "revoke_rows"}
Outcomes == {"none", "issued", "session_revoked", "reused", "revoked",
             "conflict", "error"}

TypeOK == /\ row \in [Tokens -> Row]
          /\ session \in {"live", "revoked"}
          /\ drawn \in Tokens
          /\ delivered \in SUBSET Tokens
          /\ pc \in [Requests -> Labels]
          /\ token \in [Requests -> Tokens]
          /\ stored \in [Requests -> Snapshot]
          /\ cursor \in [Requests -> 0 .. MaxTokens]
          /\ depth \in [Requests -> 0 .. MaxDepth]
          /\ signOut \in {"no", "rows", "done"}
          /\ outcome \in [Requests -> Outcomes]
          /\ late \in SUBSET Requests

AbsentRow == [status |-> "absent", replaced_by |-> None, revoked_at |-> "none",
              age |-> 0]
FreshRow == [status |-> "active", replaced_by |-> None, revoked_at |-> "none",
             age |-> 0]
NoSnapshot == [status |-> "absent", replaced_by |-> None]

\* prepare_session_tokens created the session with its first refresh token.
Init == /\ row = [t \in Tokens |-> IF t = 1 THEN FreshRow ELSE AbsentRow]
        /\ session = "live"
        /\ drawn = 1
        /\ delivered = {1}
        /\ pc = [q \in Requests |-> "idle"]
        /\ token = [q \in Requests |-> 1]
        /\ stored = [q \in Requests |-> NoSnapshot]
        /\ cursor = [q \in Requests |-> None]
        /\ depth = [q \in Requests |-> 0]
        /\ signOut = "no"
        /\ outcome = [q \in Requests |-> "none"]
        /\ late = {}

Goto(q, label) == pc' = [pc EXCEPT ![q] = label]

\* The request ends; its locals go out of scope.
Answer(q, what) == /\ pc' = [pc EXCEPT ![q] = "idle"]
                   /\ outcome' = [outcome EXCEPT ![q] = what]
                   /\ stored' = [stored EXCEPT ![q] = NoSnapshot]
                   /\ cursor' = [cursor EXCEPT ![q] = None]
                   /\ depth' = [depth EXCEPT ![q] = 0]

\* within_grace: revoked_at.map(elapsed <= grace).unwrap_or(true).
WithinGrace(r) == r.revoked_at = "set" => r.age <= Grace

-----------------------------------------------------------------------------
\* A client presents a token it was handed; the row is looked up by its jti.
Lookup(q, t) ==
    /\ pc[q] = "idle"
    /\ t \in delivered
    /\ token' = [token EXCEPT ![q] = t]
    /\ stored' = [stored EXCEPT ![q] = [status |-> row[t].status,
                                       replaced_by |-> row[t].replaced_by]]
    /\ late' = IF session = "revoked" THEN late \cup {q} ELSE late \ {q}
    /\ outcome' = [outcome EXCEPT ![q] = "none"]
    /\ Goto(q, "session")
    /\ UNCHANGED <<dbVars, delivered, cursor, depth, signOut>>

\* A slip: a token bound to a session is not checked against it.
SessionNotChecked(q) ==
    /\ pc[q] = "session"
    /\ Goto(q, "dispose")
    /\ UNCHANGED <<dbVars, delivered, token, stored, cursor, depth, signOut,
                   outcome, late>>

\* validate_refresh_session: a signed-out device is refused before reuse
\* detection can cascade again.
SessionRefused(q) ==
    /\ pc[q] = "session"
    /\ session = "revoked"
    /\ Answer(q, "session_revoked")
    /\ UNCHANGED <<dbVars, delivered, token, signOut, late>>

SessionAccepted(q) ==
    /\ pc[q] = "session"
    /\ session = "live"
    /\ Goto(q, "dispose")
    /\ UNCHANGED <<dbVars, delivered, token, stored, cursor, depth, signOut,
                   outcome, late>>

\* The disposition: rotate a live row, follow a rotated one within grace;
\* anything else is reuse.  It judges by the row read at the beginning.
Dispose(q) ==
    LET s == stored[q] IN
    /\ pc[q] = "dispose"
    /\ \/ /\ s.status = "active"
          /\ Goto(q, "rotate")
          /\ cursor' = [cursor EXCEPT ![q] = token[q]]
       \/ /\ s.status = "revoked" /\ s.replaced_by # None
          /\ WithinGrace(row[token[q]])
          /\ Goto(q, "walk")
          /\ cursor' = [cursor EXCEPT ![q] = s.replaced_by]
       \/ /\ s.status = "revoked"
          /\ s.replaced_by = None \/ ~WithinGrace(row[token[q]])
          /\ Goto(q, "revoke_session")
          /\ UNCHANGED cursor
    /\ UNCHANGED <<dbVars, delivered, token, stored, depth, signOut, outcome,
                   late>>

-----------------------------------------------------------------------------
(* follow_active_replacement_chain reads one row after the other, at most  *)
(* MaxDepth of them: an active row is the answer, a replaced row leads on, *)
(* and anything else, a row that does not exist yet included, ends it.     *)
(* (LeadsOnUnbounded is a slip: the walk forgets to count.)                *)

Walking(q) == pc[q] \in {"walk", "recover"}
Current(q) == row[cursor[q]]
Found(q) == depth[q] < MaxDepth /\ Current(q).status = "active"
LeadsOnUnbounded(q) == Current(q).status = "revoked" /\ Current(q).replaced_by # None
LeadsOn(q) == /\ depth[q] < MaxDepth
              /\ Current(q).status = "revoked"
              /\ Current(q).replaced_by # None

WalkOn(q) ==
    /\ Walking(q)
    /\ LeadsOn(q)
    /\ cursor' = [cursor EXCEPT ![q] = Current(q).replaced_by]
    /\ depth' = [depth EXCEPT ![q] = @ + 1]
    /\ UNCHANGED <<dbVars, delivered, pc, token, stored, signOut, outcome, late>>

WalkFound(q) ==
    /\ Walking(q)
    /\ Found(q)
    /\ Goto(q, "reuse")
    /\ UNCHANGED <<dbVars, delivered, token, stored, cursor, depth, signOut,
                   outcome, late>>

\* On the first walk an exhausted chain counts as theft.
WalkExhausted(q) ==
    /\ pc[q] = "walk"
    /\ ~Found(q) /\ ~LeadsOn(q)
    /\ Goto(q, "revoke_session")
    /\ UNCHANGED <<dbVars, delivered, token, stored, cursor, depth, signOut,
                   outcome, late>>

\* After a lost compare-and-set it is only a conflict.
RecoverExhausted(q) ==
    /\ pc[q] = "recover"
    /\ ~Found(q) /\ ~LeadsOn(q)
    /\ Answer(q, "conflict")
    /\ UNCHANGED <<dbVars, delivered, token, signOut, late>>

\* build_reused_refresh_response: the client is handed the replacement.
Reuse(q) ==
    /\ pc[q] = "reuse"
    /\ delivered' = delivered \cup {cursor[q]}
    /\ Answer(q, "issued")
    /\ UNCHANGED <<dbVars, token, signOut, late>>

-----------------------------------------------------------------------------
\* A slip: the update does not require revoked: false.
RotateUnguarded(q) ==
    /\ pc[q] = "rotate"
    /\ drawn < MaxTokens
    /\ drawn' = drawn + 1
    /\ row' = [row EXCEPT ![cursor[q]] =
                   [status |-> "revoked", replaced_by |-> drawn + 1,
                    revoked_at |-> "set", age |-> 0]]
    /\ cursor' = [cursor EXCEPT ![q] = drawn + 1]
    /\ Goto(q, "insert")
    /\ UNCHANGED <<session, delivered, token, stored, depth, signOut, outcome,
                   late>>

\* The rotation's compare-and-set on revoked: false names the replacement.
RotateWins(q) ==
    /\ pc[q] = "rotate"
    /\ row[cursor[q]].status = "active"
    /\ drawn < MaxTokens
    /\ drawn' = drawn + 1
    /\ row' = [row EXCEPT ![cursor[q]] =
                   [status |-> "revoked", replaced_by |-> drawn + 1,
                    revoked_at |-> "set", age |-> 0]]
    /\ cursor' = [cursor EXCEPT ![q] = drawn + 1]
    /\ Goto(q, "insert")
    /\ UNCHANGED <<session, delivered, token, stored, depth, signOut, outcome,
                   late>>

\* Another request rotated or revoked the row first.
RotateLoses(q) ==
    /\ pc[q] = "rotate"
    /\ row[cursor[q]].status # "active"
    /\ Goto(q, "reread")
    /\ UNCHANGED <<dbVars, delivered, token, stored, cursor, depth, signOut,
                   outcome, late>>

\* The row is read again: its replacement is followed, if it names one.
Reread(q) ==
    /\ pc[q] = "reread"
    /\ Current(q).replaced_by # None
    /\ cursor' = [cursor EXCEPT ![q] = Current(q).replaced_by]
    /\ Goto(q, "recover")
    /\ UNCHANGED <<dbVars, delivered, token, stored, depth, signOut, outcome,
                   late>>

RereadConflict(q) ==
    /\ pc[q] = "reread"
    /\ Current(q).replaced_by = None
    /\ Answer(q, "conflict")
    /\ UNCHANGED <<dbVars, delivered, token, signOut, late>>

\* insert_one of the replacement, a write of its own, and the answer.
Insert(q) ==
    /\ pc[q] = "insert"
    /\ row' = [row EXCEPT ![cursor[q]] = FreshRow]
    /\ delivered' = delivered \cup {cursor[q]}
    /\ Answer(q, "issued")
    /\ UNCHANGED <<session, drawn, token, signOut, late>>

\* The row is stored, but the answer is lost or a later step errs.
InsertAnswerLost(q) ==
    /\ pc[q] = "insert"
    /\ row' = [row EXCEPT ![cursor[q]] = FreshRow]
    /\ Answer(q, "error")
    /\ UNCHANGED <<session, drawn, delivered, token, signOut, late>>

\* A database error, a dropped connection or a crash ends the request.
Abort(q) ==
    /\ pc[q] # "idle"
    /\ Answer(q, "error")
    /\ UNCHANGED <<dbVars, delivered, token, signOut, late>>

-----------------------------------------------------------------------------
\* The batch of revoke_session: revoked without revoked_at or replaced_by.
AllRevoked == [t \in Tokens |-> IF row[t].status = "active"
                               THEN [row[t] EXCEPT !.status = "revoked"]
                               ELSE row[t]]

\* Reuse detection calls revoke_session: the session first, then its rows.
ReuseRevokesSession(q) ==
    /\ pc[q] = "revoke_session"
    /\ session' = "revoked"
    /\ Goto(q, "revoke_rows")
    /\ UNCHANGED <<row, drawn, delivered, token, stored, cursor, depth, signOut,
                   outcome, late>>

ReuseRevokesRows(q) ==
    /\ pc[q] = "revoke_rows"
    /\ row' = AllRevoked
    /\ Answer(q, IF stored[q].replaced_by = None THEN "revoked" ELSE "reused")
    /\ UNCHANGED <<session, drawn, delivered, token, signOut, late>>

\* The user signs the device out: the same two writes.
SignOutSession ==
    /\ signOut = "no"
    /\ session' = "revoked"
    /\ signOut' = "rows"
    /\ UNCHANGED <<row, drawn, delivered, pc, token, stored, cursor, depth,
                   outcome, late>>

SignOutRows ==
    /\ signOut = "rows"
    /\ row' = AllRevoked
    /\ signOut' = "done"
    /\ UNCHANGED <<session, drawn, delivered, pc, token, stored, cursor, depth,
                   outcome, late>>

\* Time passes; what a rotated row remembers is how long ago that was.
Tick ==
    /\ \E t \in Tokens : row[t].revoked_at = "set" /\ row[t].age <= Grace
    /\ row' = [t \in Tokens |-> IF row[t].revoked_at = "set" /\ row[t].age <= Grace
                               THEN [row[t] EXCEPT !.age = @ + 1]
                               ELSE row[t]]
    /\ UNCHANGED <<session, drawn, delivered, pc, token, stored, cursor, depth,
                   signOut, outcome, late>>

Step(q) == \/ \E t \in Tokens : Lookup(q, t)
           \/ SessionRefused(q) \/ SessionAccepted(q) \/ Dispose(q)
           \/ WalkOn(q) \/ WalkFound(q) \/ WalkExhausted(q)
           \/ RecoverExhausted(q) \/ Reuse(q)
           \/ RotateWins(q) \/ RotateLoses(q) \/ Reread(q) \/ RereadConflict(q)
           \/ Insert(q) \/ InsertAnswerLost(q) \/ Abort(q)
           \/ ReuseRevokesSession(q) \/ ReuseRevokesRows(q)

Next == \/ \E q \in Requests : Step(q)
        \/ SignOutSession \/ SignOutRows \/ Tick

Spec == Init /\ [][Next]_vars

-----------------------------------------------------------------------------
ActiveRows == {t \in Tokens : row[t].status = "active"}

\* However many requests race to rotate, the session never has two usable
\* refresh tokens: the compare-and-set on revoked: false lets one of them
\* name a replacement.
OneActiveToken == \A t, u \in ActiveRows : t = u

\* The replacements form one chain without forks: every superseded token
\* names its successor, so a retry with any of them walks to the newest; and
\* while the session lives the newest is not revoked.
OneChain == /\ \A t \in 1 .. (drawn - 1) : /\ row[t].status = "revoked"
                                            /\ row[t].replaced_by = t + 1
            /\ session = "live" => row[drawn].status # "revoked"

\* A request that begins after the session was revoked is never handed a
\* token, although a rotation that was under way may still insert a row
\* after revoke_session's batch, and that row stays active for good.
RevokedSessionIssuesNothing ==
    \A q \in late : outcome[q] # "issued"

\* A client is only handed a token whose row is stored, whatever failed on
\* the way: a JWT without a row would log the client out.
DeliveredIsStored == \A t \in delivered : row[t].status # "absent"

\* Whoever is told that the token was reused finds the session revoked.
ReuseIsAnswered ==
    \A q \in Requests : outcome[q] \in {"reused", "revoked"} => session = "revoked"

\* What the comment on REUSE_GRACE_PERIOD_SECS promises: within the grace
\* period the reuse of a rotated token is a retry, not theft.  It does not
\* hold: between the compare-and-set and the insert the replacement has no
\* row, and a retry that walks the chain then revokes the session.
GraceReuseIsARetry ==
    \A q \in Requests :
        outcome[q] = "reused" /\ signOut = "no" => ~WithinGrace(row[token[q]])
=============================================================================
