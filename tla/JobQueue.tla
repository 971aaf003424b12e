------------------------------ MODULE JobQueue ------------------------------
(***************************************************************************)
(* What a queue of jobs promises, however many work on it and however      *)
(* often they fail: a job goes from waiting to under way to over, may come *)
(* back to wait only while it has done nothing, and is never heard of      *)
(* again once it is over; no more than a limit are under way; and what a   *)
(* job does to the world needs a permit, which is given with the start and *)
(* used up by the effect.  Several jobs may move in one step.              *)
(***************************************************************************)
EXTENDS Naturals, FiniteSets

CONSTANT Jobs

VARIABLES phase,   \* how far each job is
          permit,  \* whether somebody may still bring about its effect
          effects, \* how often it took effect
          limit    \* how many jobs may be under way

jobVars == <<phase, permit, effects, limit>>

Init == /\ phase = [j \in Jobs |-> "absent"]
        /\ permit = [j \in Jobs |-> FALSE]
        /\ effects = [j \in Jobs |-> 0]

UnderWay == {j \in Jobs : phase[j] = "under way"}

Rests(j) == UNCHANGED <<phase[j], permit[j], effects[j]>>

\* A job is taken in to wait, or is over before it could.
Enters(j) == /\ phase[j] = "absent" /\ phase'[j] \in {"waiting", "over"}
             /\ UNCHANGED <<permit[j], effects[j]>>

\* The one step that gives a permit.
Starts(j) == /\ phase[j] = "waiting" /\ phase'[j] = "under way"
             /\ ~permit[j] /\ permit'[j]
             /\ UNCHANGED effects[j]

\* The effect uses up the permit; the job may be over with it, or already.
TakesEffect(j) == /\ permit[j] /\ ~permit'[j]
                  /\ effects'[j] = effects[j] + 1
                  /\ phase'[j] \in {phase[j], "over"}

\* A failed attempt that did nothing: another may be made.
Returns(j) == /\ phase[j] = "under way" /\ phase'[j] = "waiting"
              /\ effects[j] = 0 /\ effects'[j] = 0
              /\ ~permit'[j]

\* The job is given up; whoever is at it may still be.
Ends(j) == /\ phase[j] \in {"waiting", "under way"} /\ phase'[j] = "over"
           /\ permit'[j] => permit[j]
           /\ UNCHANGED effects[j]

\* Whoever was at it is gone, and nobody knows.
Abandons(j) == /\ permit[j] /\ ~permit'[j]
               /\ UNCHANGED <<phase[j], effects[j]>>

Move(j) == \/ Rests(j) \/ Enters(j) \/ Starts(j) \/ TakesEffect(j)
           \/ Returns(j) \/ Ends(j) \/ Abandons(j)

Next == /\ \A j \in Jobs : Move(j)
        /\ Cardinality(UnderWay') <= limit
        /\ UNCHANGED limit

Spec == Init /\ [][Next]_jobVars

(* A job takes effect once at most.                                        *)
AtMostOnce == \A j \in Jobs : effects[j] <= 1
=============================================================================
