---------------------------- MODULE FencedLease ----------------------------
(***************************************************************************)
(* What a lease promises its users: a register that only the present owner *)
(* may write.  Ownership is granted in generations; a generation that      *)
(* ended never returns, and what was committed stays until a later commit. *)
(***************************************************************************)
EXTENDS Naturals

CONSTANTS Values,   \* what an owner may commit
          NoValue   \* nothing was committed yet

VARIABLES grants,   \* how many generations were granted
          owner,    \* the generation that owns the register, 0 when none does
          value,    \* what was committed last, or NoValue
          author    \* the generation that committed it, 0 when none did

vars == <<grants, owner, value, author>>

Init == /\ grants = 0
        /\ owner = 0
        /\ value = NoValue
        /\ author = 0

\* A free register is granted to a generation that never owned it.
Grant == /\ owner = 0
         /\ grants' = grants + 1
         /\ owner' = grants + 1
         /\ UNCHANGED <<value, author>>

\* Ownership ends: the owner gave it up or its time ran out.
Lapse == /\ owner # 0
         /\ owner' = 0
         /\ UNCHANGED <<grants, value, author>>

\* The owner commits a value.
Commit == \E v \in Values :
             /\ owner # 0
             /\ value' = v
             /\ author' = owner
             /\ UNCHANGED <<grants, owner>>

Next == Grant \/ Lapse \/ Commit

Spec == Init /\ [][Next]_vars
=============================================================================
