------------------------------ MODULE MCQueues ------------------------------
(* What people wait in line for, one queue at a time: direct chat with     *)
(* three turns that queue for one slot, whose slots may expire under their *)
(* guards; direct chat with two that queue and one that never does, for    *)
(* two slots; and the tasks of an oracle pool with two workers.            *)
EXTENDS DirectChatQueue, OracleTasks, TLC

VARIABLE part

Pair == INSTANCE DirectChatQueue WITH
    QueueTurns <- {1, 2}, NowTurns <- {3}, MaxInFlight <- 2, MaxQueued <- 1,
    TTL <- 2, MaxNow <- 0, MaxFaults <- 1, Timely <- TRUE

MCSymmetry == Permutations(OracleWorkers)

QueuesInit ==
    /\ OracleInit
    /\ \/ part \in {"line", "task"} /\ Init
       \/ part = "pair" /\ Pair!Init
    /\ part # "task" => \A n \in PoolSizes : poolSize <= n

QueuesNext ==
    /\ UNCHANGED part
    /\ \/ part = "line" /\ Next /\ UNCHANGED oracleVars
       \/ part = "pair" /\ Pair!Next /\ UNCHANGED oracleVars
       \/ part = "task" /\ OracleNext /\ UNCHANGED vars

QueuesSpec == QueuesInit /\ [][QueuesNext]_<<part, vars, oracleVars>>

(* A turn that starts to run overtakes nobody that was in line, with a     *)
(* place still live, when its running slot was taken: neither a newcomer   *)
(* that found a free slot nor a queued turn whose claim was started long   *)
(* before, even when slots expire under their guards (rate_limit.rs).      *)
NobodyIsOvertaken == [][part = "line" => OvertakesNobody]_vars

(* No queue lets through more than its limit: while renewals and           *)
(* cancellations are on time a person never has more replies running than  *)
(* DIRECT_CHAT_MAX_IN_FLIGHT slots, over all replicas, whatever releases   *)
(* were lost, delayed or late and however slots changed hands; and a pool  *)
(* never hands out more tasks than it has workers (rate_limit.rs,          *)
(* oracle_task_service.rs).                                                *)
LimitsHold == PoolCapacity /\ (part = "pair" => Pair!Capacity)
=============================================================================
