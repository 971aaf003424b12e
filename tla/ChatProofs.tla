----------------------------- MODULE ChatProofs -----------------------------
(***************************************************************************)
(* What the direct-chat limiter keeps, for any number of turns, slots and  *)
(* places, any life of a slot and any number of faults.                    *)
(*                                                                         *)
(* What a turn holds follows from how far its admission got (Stage).  Two  *)
(* facts about the documents lead to the limit: nobody writes over one     *)
(* that is live, and while renewals are on time a guard has its document   *)
(* (Backed).  That nobody is overtaken rests on a turn taking its place    *)
(* once (Past), on places being stamped with a clock that does not go back *)
(* (Stamped), and on what the two ways to a running slot look at:          *)
(* a newcomer at all places (Unpassed), a claim at the older ones (First). *)
(***************************************************************************)
EXTENDS DirectChatQueue, FiniteSetTheorems, TLAPS

Stages == {"idle", "slot", "line", "place", "request", "waiting", "running", "done"}

RowsTyped ==
    /\ rows = [ns \in Pools |-> rows[ns]]
    /\ \A ns \in Pools : rows[ns] \in [Slots(ns) -> SlotRow]

ProbeDoc == [slot : Nat, left : 0 .. MaxInFlight + MaxQueued]
Guards == [Pools -> {"none", "held", "lost"}]

TurnsTyped ==
    /\ guard \in [Turns -> Guards]
    /\ probe \in [Turns -> ProbeDoc]
    /\ pc \in [Turns -> Stages]
    /\ claim \in [Turns -> {"none", "acquire", "got"}]
    /\ now \in 0 .. MaxNow /\ faults \in 0 .. MaxFaults
    /\ ahead \in [Turns -> SUBSET Turns]

(* A place is stamped with the time it was taken.                          *)
Stamped == \A s \in Slots("queue") : rows["queue"][s].at <= now

Holds(t, ns, s) == rows[ns][s].turn = t /\ rows[ns][s].owner = "kept"
Past == {"request", "waiting", "running", "done"}

(* What a turn holds, and which task of it is at work.                     *)
Stage(t) ==
    /\ guard[t]["queue"] # "none" => pc[t] \in {"request", "waiting"}
    /\ pc[t] = "waiting" => guard[t]["queue"] # "none"
    /\ guard[t]["run"] # "none" =>
         \/ pc[t] \in {"line", "running"} \/ claim[t] = "got"
         \/ pc[t] = "request" /\ guard[t]["queue"] = "none"
    /\ pc[t] \in {"line", "running"} \/ claim[t] = "got" => guard[t]["run"] # "none"
    /\ pc[t] = "request" => guard[t]["run"] # "none" \/ guard[t]["queue"] # "none"
    /\ claim[t] # "none" => pc[t] \in {"waiting", "done"}
    /\ pc[t] \in {"line", "place"} => t \in QueueTurns

(* The documents a turn keeps: one at most in each pool, each with its     *)
(* guard, and a loop that looks for one probes slots that exist.           *)
Documents(t) == \A ns \in Pools :
    /\ Probing(t, ns) => probe[t].slot \in Slots(ns)
    /\ \A s, u \in Slots(ns) : Holds(t, ns, s) /\ Holds(t, ns, u) => s = u
    /\ \A s \in Slots(ns) : Holds(t, ns, s) => guard[t][ns] # "none"

(* While renewals are on time no guard is without its document.            *)
Backed(t) == Timely =>
    \A ns \in Pools : guard[t][ns] # "none" => \E s \in Slots(ns) : Holds(t, ns, s)

(* Those ahead of a turn have taken their place; once it has looked at the *)
(* line and goes on with its slot, none of them has it still.              *)
Unpassed(t) ==
    /\ \A u \in ahead[t] : pc[u] \in Past
    /\ t \in QueueTurns /\ pc[t] = "request" /\ guard[t]["run"] # "none" =>
         \A u \in ahead[t] : \A s \in Slots("queue") : ~Holds(u, "queue", s)

(* A claim was started by the first in line, and newer places are younger. *)
First(t) ==
    /\ pc[t] = "waiting" /\ claim[t] = "acquire" =>
         \A p, s \in Slots("queue") :
            Holds(t, "queue", p) /\ rows["queue"][s].ttl > 0 =>
               rows["queue"][p].at <= rows["queue"][s].at
    /\ pc[t] = "waiting" /\ claim[t] = "got" => ahead[t] = {}

TurnInv(t) == Stage(t) /\ Documents(t) /\ Backed(t) /\ Unpassed(t) /\ First(t)

ChatInv == RowsTyped /\ TurnsTyped /\ Stamped /\ \A t \in Turns : TurnInv(t)

-----------------------------------------------------------------------------
(* The documents, read and written.                                        *)

LEMMA PoolFacts ==
    /\ Pools = {"run", "queue"} /\ "run" # "queue"
    /\ \A ns \in Pools : Limit(ns) \in Nat \ {0} /\ Slots(ns) \subseteq Nat
    /\ Slots("run") = 0 .. MaxInFlight - 1 /\ Slots("queue") = 0 .. MaxQueued - 1
  BY DirectChatAssumption DEF Pools, Limit, Slots

(* What the fields of a document may be; one that is not live is Free.     *)
LEMMA RowFacts ==
    ASSUME NEW r \in SlotRow
    PROVE  /\ r.ttl \in Nat /\ r.at \in 0 .. MaxNow
           /\ r.owner = "kept" => r.ttl > 0 /\ r.turn \in Turns
           /\ r.owner \in {"kept", "dropped", "orphan"} => r # Free
           /\ r # Free => r.ttl \in 1 .. TTL
           /\ r.ttl = 0 => r = Free
           /\ Free.owner = "none" /\ Free.at = 0 /\ Free.ttl = 0
  <1>1. CASE r = Free
    BY <1>1, DirectChatAssumption DEF Free
  <1>2. CASE r # Free
    BY <1>2, DirectChatAssumption DEF SlotRow, Free
  <1> QED BY <1>1, <1>2

(* A document whose owner or life changes is one still.                    *)
LEMMA OwnerChanged ==
    ASSUME NEW r \in SlotRow, r # Free, NEW o \in {"kept", "dropped", "orphan"},
           NEW q, q = [r EXCEPT !.owner = o]
    PROVE  q \in SlotRow /\ q.owner = o /\ q.turn = r.turn /\ q.at = r.at /\ q.ttl = r.ttl
  BY DEF SlotRow, Free

LEMMA LifeChanged ==
    ASSUME NEW r \in SlotRow, r # Free, NEW n \in 1 .. TTL,
           NEW q, q = [r EXCEPT !.ttl = n]
    PROVE  q \in SlotRow /\ q.owner = r.owner /\ q.turn = r.turn /\ q.at = r.at /\ q.ttl = n
  BY DEF SlotRow, Free

With(ns, k, r) == [rows EXCEPT ![ns][k] = r]

(* One document is written.                                                *)
LEMMA WriteReads ==
    ASSUME RowsTyped, NEW ns \in Pools, NEW k \in Slots(ns), NEW r \in SlotRow,
           rows' = With(ns, k, r)
    PROVE  /\ RowsTyped'
           /\ \A m \in Pools : \A s \in Slots(m) :
                rows'[m][s] = IF m = ns /\ s = k THEN r ELSE rows[m][s]
  <1>1. rows' = [rows EXCEPT ![ns] = [rows[ns] EXCEPT ![k] = r]]
    BY DEF With
  <1>2. DOMAIN rows = Pools
    BY DEF RowsTyped
  <1>3. ASSUME NEW m \in Pools
        PROVE  rows'[m] = IF m = ns THEN [rows[ns] EXCEPT ![k] = r] ELSE rows[m]
    BY <1>1, <1>2
  <1>4. rows' = [m \in Pools |-> rows'[m]]
    BY <1>1, <1>2 DEF RowsTyped
  <1>5. ASSUME NEW m \in Pools PROVE rows'[m] \in [Slots(m) -> SlotRow]
    BY <1>3 DEF RowsTyped
  <1> QED BY <1>3, <1>4, <1>5 DEF RowsTyped

(* A turn loses what it kept in some pools: the documents stay, with their *)
(* stamps and lives, until they are released or expire.                    *)
Loses(t, pools) == \A m \in Pools : \A s \in Slots(m) :
    /\ rows'[m][s].at = rows[m][s].at /\ rows'[m][s].ttl = rows[m][s].ttl
    /\ m \in pools /\ Holds(t, m, s) => rows'[m][s].owner # "kept"
    /\ ~(m \in pools /\ Holds(t, m, s)) => rows'[m][s] = rows[m][s]

LEMMA OwnerChanges ==
    ASSUME RowsTyped, NEW t \in Turns, NEW pools \in SUBSET Pools, NEW o \in {"dropped", "orphan"},
           rows' = [ns \in Pools |-> [s \in Slots(ns) |->
                      IF ns \in pools /\ s \in Kept(t, ns)
                      THEN [rows[ns][s] EXCEPT !.owner = o] ELSE rows[ns][s]]]
    PROVE  RowsTyped' /\ Loses(t, pools)
  <1>1. ASSUME NEW m \in Pools, NEW s \in Slots(m)
        PROVE  /\ rows[m][s] \in SlotRow
               /\ s \in Kept(t, m) <=> Holds(t, m, s)
               /\ Holds(t, m, s) => rows[m][s] # Free
    <2>1. rows[m][s] \in SlotRow
      BY DEF RowsTyped
    <2> QED BY <2>1, RowFacts DEF Kept, Holds
  <1>2. ASSUME NEW m \in Pools, NEW s \in Slots(m)
        PROVE  rows'[m][s] = IF m \in pools /\ Holds(t, m, s)
                             THEN [rows[m][s] EXCEPT !.owner = o] ELSE rows[m][s]
    BY <1>1
  <1>3. ASSUME NEW m \in Pools, NEW s \in Slots(m)
        PROVE  /\ rows'[m][s] \in SlotRow
               /\ rows'[m][s].at = rows[m][s].at /\ rows'[m][s].ttl = rows[m][s].ttl
               /\ m \in pools /\ Holds(t, m, s) => rows'[m][s].owner # "kept"
    <2>1. CASE m \in pools /\ Holds(t, m, s)
      <3>1. rows'[m][s] = [rows[m][s] EXCEPT !.owner = o]
        BY <1>2, <2>1
      <3> QED BY <1>1, <2>1, <3>1, OwnerChanged
    <2>2. CASE ~(m \in pools /\ Holds(t, m, s))
      BY <1>1, <1>2, <2>2
    <2> QED BY <2>1, <2>2
  <1>4. RowsTyped'
    <2>1. ASSUME NEW m \in Pools
          PROVE  rows'[m] = [s \in Slots(m) |-> rows'[m][s]]
      OBVIOUS
    <2>2. ASSUME NEW m \in Pools PROVE rows'[m] \in [Slots(m) -> SlotRow]
      BY <1>3, <2>1
    <2> QED BY <2>2 DEF RowsTyped
  <1> QED BY <1>2, <1>3, <1>4 DEF Loses

LEMMA DropReads ==
    ASSUME RowsTyped, NEW t \in Turns, NEW pools \in SUBSET Pools, Drop(t, pools)
    PROVE  RowsTyped' /\ Loses(t, pools)
  BY OwnerChanges DEF Drop

(* A renewal gives what a turn keeps its full life again.                  *)
LEMMA RenewReads ==
    ASSUME RowsTyped, NEW t \in Turns, NEW ns \in Pools, rows' = Renewed(t, ns)
    PROVE  /\ RowsTyped'
           /\ \A m \in Pools : \A s \in Slots(m) :
                /\ rows'[m][s].turn = rows[m][s].turn
                /\ rows'[m][s].owner = rows[m][s].owner
                /\ rows'[m][s].at = rows[m][s].at
                /\ rows'[m][s].ttl > 0 => rows[m][s].ttl > 0
  <1> DEFINE new == [s \in Slots(ns) |->
                       IF s \in Kept(t, ns) THEN [rows[ns][s] EXCEPT !.ttl = TTL] ELSE rows[ns][s]]
  <1>0. rows' = [rows EXCEPT ![ns] = new] /\ DOMAIN rows = Pools
    BY DEF Renewed, RowsTyped
  <1>1. ASSUME NEW s \in Slots(ns)
        PROVE  /\ new[s] \in SlotRow
               /\ new[s].turn = rows[ns][s].turn /\ new[s].owner = rows[ns][s].owner
               /\ new[s].at = rows[ns][s].at
               /\ new[s].ttl > 0 => rows[ns][s].ttl > 0
    <2>1. rows[ns][s] \in SlotRow
      BY DEF RowsTyped
    <2>2. CASE s \in Kept(t, ns)
      <3>1. rows[ns][s] # Free /\ rows[ns][s].ttl > 0
        BY <2>1, <2>2, RowFacts DEF Kept
      <3>2. new[s] = [rows[ns][s] EXCEPT !.ttl = TTL] /\ TTL \in 1 .. TTL
        BY <2>2, DirectChatAssumption
      <3> QED BY <2>1, <3>1, <3>2, LifeChanged
    <2>3. CASE s \notin Kept(t, ns)
      BY <2>1, <2>3
    <2> QED BY <2>2, <2>3
  <1>2. new \in [Slots(ns) -> SlotRow]
    BY <1>1
  <1>3. ASSUME NEW m \in Pools PROVE rows'[m] = IF m = ns THEN new ELSE rows[m]
    BY <1>0
  <1> HIDE DEF new
  <1>4. rows' = [m \in Pools |-> rows'[m]]
    BY <1>0 DEF RowsTyped
  <1>5. RowsTyped'
    BY <1>2, <1>3, <1>4 DEF RowsTyped
  <1> QED BY <1>1, <1>3, <1>5

(* A tick takes from every life, and frees what has none left.             *)
LEMMA TickReads ==
    ASSUME RowsTyped, rows' = [ns \in Pools |-> [s \in Slots(ns) |-> Aged(rows[ns][s])]]
    PROVE  /\ RowsTyped'
           /\ \A m \in Pools : \A s \in Slots(m) :
                \/ rows'[m][s] = Free /\ rows[m][s].ttl <= 1
                \/ /\ rows'[m][s].turn = rows[m][s].turn
                   /\ rows'[m][s].owner = rows[m][s].owner
                   /\ rows'[m][s].at = rows[m][s].at
                   /\ rows[m][s].ttl > 0
  <1>1. ASSUME NEW m \in Pools, NEW s \in Slots(m)
        PROVE  /\ rows'[m][s] \in SlotRow
               /\ \/ rows'[m][s] = Free /\ rows[m][s].ttl <= 1
                  \/ /\ rows'[m][s].turn = rows[m][s].turn
                     /\ rows'[m][s].owner = rows[m][s].owner
                     /\ rows'[m][s].at = rows[m][s].at
                     /\ rows[m][s].ttl > 0
    <2>1. rows[m][s] \in SlotRow /\ rows'[m][s] = Aged(rows[m][s])
      BY DEF RowsTyped
    <2>2. CASE rows[m][s].ttl <= 1
      BY <2>1, <2>2 DEF Aged, SlotRow
    <2>3. CASE ~(rows[m][s].ttl <= 1)
      <3>1. rows[m][s].ttl \in Nat /\ rows[m][s] # Free
        BY <2>1, <2>3, RowFacts DEF Free
      <3>2. rows[m][s].ttl - 1 \in 1 .. TTL
        <4>1. rows[m][s].ttl \in 1 .. TTL /\ TTL \in Nat
          BY <2>1, <3>1, RowFacts, DirectChatAssumption
        <4> QED BY <2>3, <4>1
      <3>3. rows'[m][s] = [rows[m][s] EXCEPT !.ttl = rows[m][s].ttl - 1]
        BY <2>1, <2>3 DEF Aged
      <3> QED BY <2>1, <2>3, <3>1, <3>2, <3>3, LifeChanged
    <2> QED BY <2>2, <2>3
  <1>2. ASSUME NEW m \in Pools PROVE rows'[m] \in [Slots(m) -> SlotRow]
    <2>1. rows'[m] = [s \in Slots(m) |-> rows'[m][s]]
      OBVIOUS
    <2> QED BY <1>1, <2>1
  <1> QED BY <1>1, <1>2 DEF RowsTyped

-----------------------------------------------------------------------------
(* What a step may do to those who do not take it.                         *)

(* Time does not go back, a place that appears is stamped with it, and who *)
(* has had a place gets no other.                                          *)
Orderly ==
    /\ now <= now'
    /\ \A s \in Slots("queue") : rows'["queue"][s].ttl > 0 =>
          \/ rows["queue"][s].ttl > 0 /\ rows'["queue"][s].at = rows["queue"][s].at
          \/ rows'["queue"][s].at = now
    /\ \A v \in Turns : pc[v] \in Past =>
          /\ pc'[v] \in Past
          /\ \A s \in Slots("queue") : Holds(v, "queue", s)' => Holds(v, "queue", s)

Spared(u) ==
    /\ \A m \in Pools : \A s \in Slots(m) :
          Holds(u, m, s)' => Holds(u, m, s) /\ rows'[m][s].at = rows[m][s].at
    /\ Timely => \A m \in Pools : \A s \in Slots(m) : Holds(u, m, s) => Holds(u, m, s)'

Unmoved(u) ==
    /\ \A ns \in Pools : guard'[u][ns] = "none" <=> guard[u][ns] = "none"
    /\ probe'[u] = probe[u] /\ pc'[u] = pc[u] /\ claim'[u] = claim[u] /\ ahead'[u] = ahead[u]

LEMMA Bystander ==
    ASSUME ChatInv, RowsTyped', Orderly, NEW u \in Turns, Spared(u), Unmoved(u)
    PROVE  TurnInv(u)'
  <1>0. TurnInv(u) /\ ahead[u] \subseteq Turns /\ "queue" \in Pools /\ "run" \in Pools
    BY DEF ChatInv, TurnsTyped, Pools
  <1>1. Stage(u)'
    BY <1>0 DEF TurnInv, Stage, Unmoved
  <1>2. Documents(u)'
    BY <1>0 DEF TurnInv, Documents, Unmoved, Spared, Probing
  <1>3. Backed(u)'
    BY <1>0 DEF TurnInv, Backed, Unmoved, Spared
  <1>4. Unpassed(u)'
    BY <1>0 DEF TurnInv, Unpassed, Unmoved, Orderly
  <1>5. First(u)'
    <2>1. ASSUME NEW p \in Slots("queue"), NEW s \in Slots("queue"),
                 pc[u] = "waiting", claim[u] = "acquire",
                 Holds(u, "queue", p)', rows'["queue"][s].ttl > 0
          PROVE  rows'["queue"][p].at <= rows'["queue"][s].at
      <3>1. Holds(u, "queue", p) /\ rows'["queue"][p].at = rows["queue"][p].at
        BY <1>0, <2>1 DEF Spared
      <3>2. rows["queue"][p].at <= now
        BY <2>1 DEF ChatInv, Stamped
      <3>3. CASE rows'["queue"][s].at = now
        BY <3>1, <3>2, <3>3
      <3>4. CASE rows["queue"][s].ttl > 0 /\ rows'["queue"][s].at = rows["queue"][s].at
        BY <1>0, <2>1, <3>1, <3>4 DEF TurnInv, First
      <3> QED BY <2>1, <3>3, <3>4 DEF Orderly
    <2>2. pc[u] = "waiting" /\ claim[u] = "got" => ahead[u] = {}
      BY <1>0 DEF TurnInv, First
    <2> QED BY <2>1, <2>2 DEF First, Unmoved
  <1> QED BY <1>1, <1>2, <1>3, <1>4, <1>5 DEF TurnInv

(* A step of one turn: the others look on.                                 *)
LEMMA OneTurnSteps ==
    ASSUME ChatInv, NEW t \in Turns, RowsTyped', TurnsTyped', Stamped', Orderly,
           \A u \in Turns \ {t} : Spared(u) /\ Unmoved(u), TurnInv(t)'
    PROVE  ChatInv'
  <1>1. ASSUME NEW u \in Turns \ {t} PROVE TurnInv(u)'
    BY <1>1, Bystander
  <1> QED BY <1>1 DEF ChatInv

(* Nothing is written.                                                     *)
LEMMA RowsRest ==
    ASSUME ChatInv, rows' = rows, now' = now,
           \A v \in Turns : pc[v] \in Past => pc'[v] \in Past
    PROVE  RowsTyped' /\ Stamped' /\ Orderly /\ \A u \in Turns : Spared(u)
  <1>1. now <= now' /\ RowsTyped' /\ Stamped'
    BY DEF ChatInv, TurnsTyped, RowsTyped, Stamped
  <1>2. ASSUME NEW u, NEW m, NEW s PROVE Holds(u, m, s)' <=> Holds(u, m, s)
    BY DEF Holds
  <1> QED BY <1>1, <1>2 DEF Orderly, Spared

(* A turn loses documents.                                                 *)
LEMMA RowsLost ==
    ASSUME ChatInv, NEW t \in Turns, NEW pools \in SUBSET Pools, RowsTyped', Loses(t, pools),
           now' = now, \A v \in Turns : pc[v] \in Past => pc'[v] \in Past
    PROVE  /\ Stamped' /\ Orderly /\ \A u \in Turns \ {t} : Spared(u)
           /\ \A m \in Pools : \A s \in Slots(m) :
                Holds(t, m, s)' <=> Holds(t, m, s) /\ m \notin pools
  <1>0. now <= now' /\ "queue" \in Pools
    BY DEF ChatInv, TurnsTyped, Pools
  <1>1. Stamped'
    BY <1>0 DEF ChatInv, Stamped, Loses
  <1>2. ASSUME NEW u \in Turns \ {t}, NEW m \in Pools, NEW s \in Slots(m)
        PROVE  Holds(u, m, s)' <=> Holds(u, m, s)
    BY DEF Loses, Holds
  <1>3. ASSUME NEW m \in Pools, NEW s \in Slots(m)
        PROVE  Holds(t, m, s)' <=> Holds(t, m, s) /\ m \notin pools
    BY DEF Loses, Holds
  <1>4. \A u \in Turns \ {t} : Spared(u)
    BY <1>2 DEF Spared, Loses
  <1>5. Orderly
    BY <1>0, <1>2, <1>3 DEF Orderly, Loses
  <1> QED BY <1>1, <1>3, <1>4, <1>5

(* A document that is not live takes the turn's lease.                     *)
LEMMA RowWritten ==
    ASSUME ChatInv, NEW t \in Turns, NEW ns \in Pools, NEW o \in {"kept", "orphan"},
           probe[t].slot \in Slots(ns), probe[t].slot \notin Live(ns),
           rows' = Written(t, ns, o), now' = now,
           o = "kept" /\ ns = "queue" => pc[t] \notin Past,
           \A v \in Turns : pc[v] \in Past => pc'[v] \in Past
    PROVE  /\ RowsTyped' /\ Stamped' /\ Orderly /\ \A u \in Turns \ {t} : Spared(u)
           /\ \A m \in Pools : \A s \in Slots(m) :
                Holds(t, m, s)' <=> \/ m = ns /\ s = probe[t].slot /\ o = "kept"
                                    \/ Holds(t, m, s)
  <1> DEFINE k == probe[t].slot
             stamp == IF ns = "queue" THEN now ELSE 0
             r == [turn |-> t, owner |-> o, at |-> stamp, ttl |-> TTL]
  <1>0. now \in 0 .. MaxNow /\ "queue" \in Pools /\ RowsTyped /\ TTL \in 1 .. TTL /\ MaxNow \in Nat
    BY DirectChatAssumption DEF ChatInv, TurnsTyped, Pools
  <1>1. r \in SlotRow /\ r.turn = t /\ r.owner = o /\ r.at = stamp /\ r.ttl = TTL
    BY <1>0 DEF SlotRow
  <1>2. rows' = With(ns, k, r) /\ k \in Slots(ns)
    BY DEF Written, With
  <1> HIDE DEF r, k
  <1>3. /\ RowsTyped'
        /\ \A m \in Pools : \A s \in Slots(m) :
             rows'[m][s] = IF m = ns /\ s = k THEN r ELSE rows[m][s]
    BY <1>0, <1>1, <1>2, WriteReads
  <1>4. \A u \in Turns : ~Holds(u, ns, k)
    <2>1. rows[ns][k] \in SlotRow
      BY <1>0, <1>2 DEF RowsTyped
    <2>2. ~(rows[ns][k].ttl > 0)
      BY <1>2 DEF Live, k
    <2> QED BY <2>1, <2>2, RowFacts DEF Holds
  <1>5. ASSUME NEW m \in Pools, NEW s \in Slots(m)
        PROVE  /\ Holds(t, m, s)' <=> (m = ns /\ s = k /\ o = "kept") \/ Holds(t, m, s)
               /\ \A u \in Turns \ {t} : Holds(u, m, s)' <=> Holds(u, m, s)
    <2>1. CASE m = ns /\ s = k
      BY <1>1, <1>3, <1>4, <2>1 DEF Holds
    <2>2. CASE ~(m = ns /\ s = k)
      BY <1>3, <2>2 DEF Holds
    <2> QED BY <2>1, <2>2
  <1>6. Stamped'
    <2>1. ASSUME NEW s \in Slots("queue") PROVE rows'["queue"][s].at <= now
      <3>1. CASE ns = "queue" /\ s = k
        BY <1>0, <1>1, <1>3, <3>1
      <3>2. CASE ~(ns = "queue" /\ s = k)
        BY <1>0, <1>3, <3>2 DEF ChatInv, Stamped
      <3> QED BY <3>1, <3>2
    <2> QED BY <2>1 DEF Stamped
  <1>7. ASSUME NEW u \in Turns \ {t} PROVE Spared(u)
    <2>1. ASSUME NEW m \in Pools, NEW s \in Slots(m), Holds(u, m, s)
          PROVE  rows'[m][s].at = rows[m][s].at
      BY <1>3, <1>4, <2>1
    <2> QED BY <1>5, <2>1 DEF Spared
  <1>8. Orderly
    <2>1. ASSUME NEW s \in Slots("queue"), rows'["queue"][s].ttl > 0
          PROVE  \/ rows["queue"][s].ttl > 0 /\ rows'["queue"][s].at = rows["queue"][s].at
                 \/ rows'["queue"][s].at = now
      <3>1. CASE ns = "queue" /\ s = k
        BY <1>0, <1>1, <1>3, <3>1
      <3>2. CASE ~(ns = "queue" /\ s = k)
        BY <1>0, <1>3, <2>1, <3>2
      <3> QED BY <3>1, <3>2
    <2>2. ASSUME NEW v \in Turns, pc[v] \in Past, NEW s \in Slots("queue"), Holds(v, "queue", s)'
          PROVE  Holds(v, "queue", s)
      BY <1>0, <1>5, <2>2
    <2> QED BY <1>0, <2>1, <2>2 DEF Orderly
  <1> QED BY <1>3, <1>5, <1>6, <1>7, <1>8 DEF k

-----------------------------------------------------------------------------
(* The steps that write no document.                                       *)

LEMMA ProbeStarts ==
    ASSUME ChatInv, NEW t \in Turns, NEW ns \in Pools, StartProbe(t, ns)
    PROVE  /\ probe' \in [Turns -> ProbeDoc]
           /\ probe'[t].slot \in Slots(ns)
           /\ \A u \in Turns \ {t} : probe'[u] = probe[u]
  <1>1. PICK s \in Slots(ns) : probe' = [probe EXCEPT ![t] = [slot |-> s, left |-> Limit(ns)]]
    BY DEF StartProbe, SlotStart
  <1>2. Limit(ns) \in 0 .. MaxInFlight + MaxQueued /\ s \in Nat
    BY PoolFacts, DirectChatAssumption DEF Limit
  <1> DEFINE d == [slot |-> s, left |-> Limit(ns)]
  <1>3. d \in ProbeDoc /\ d.slot = s
    BY <1>2 DEF ProbeDoc
  <1>4. probe \in [Turns -> ProbeDoc] /\ probe' = [probe EXCEPT ![t] = d]
    BY <1>1 DEF ChatInv, TurnsTyped
  <1> HIDE DEF d
  <1> QED BY <1>3, <1>4

LEMMA NoProbeTyped == NoProbe \in ProbeDoc
  BY DirectChatAssumption DEF NoProbe, ProbeDoc

(* A turn goes on without touching a document or a guard.                  *)
LEMMA QuietStep ==
    ASSUME ChatInv, NEW t \in Turns, UNCHANGED <<rows, guard, now, ahead>>,
           TurnsTyped', \A u \in Turns \ {t} : Unmoved(u),
           pc[t] \in Past => pc'[t] \in Past,
           \A ns \in Pools : Probing(t, ns)' => probe'[t].slot \in Slots(ns),
           Stage(t)', Unpassed(t)', First(t)'
    PROVE  ChatInv'
  <1>1. \A v \in Turns : pc[v] \in Past => pc'[v] \in Past
    BY DEF Unmoved
  <1>2. RowsTyped' /\ Stamped' /\ Orderly /\ \A u \in Turns : Spared(u)
    BY <1>1, RowsRest
  <1>3. Documents(t)' /\ Backed(t)'
    BY DEF ChatInv, TurnInv, Documents, Backed, Holds
  <1> QED BY <1>2, <1>3, OneTurnSteps DEF TurnInv

(* Those ahead stay where they have no place any more.                     *)
LEMMA UnpassedStays ==
    ASSUME ChatInv, NEW t \in Turns, UNCHANGED <<rows, guard, ahead>>,
           \A u \in Turns \ {t} : Unmoved(u), pc[t] \in Past => pc'[t] \in Past,
           pc'[t] = "request" => pc[t] = "request"
    PROVE  Unpassed(t)'
  BY DEF ChatInv, TurnInv, TurnsTyped, Unpassed, Unmoved, Holds

(* What the variables of one turn are before it moves.                     *)
LEMMA TurnFacts ==
    ASSUME ChatInv, NEW t \in Turns
    PROVE  /\ TurnInv(t) /\ Stage(t) /\ Documents(t) /\ Backed(t) /\ Unpassed(t) /\ First(t)
           /\ guard[t] \in Guards /\ probe[t] \in ProbeDoc /\ pc[t] \in Stages
           /\ claim[t] \in {"none", "acquire", "got"} /\ ahead[t] \in SUBSET Turns
           /\ "run" \in Pools /\ "queue" \in Pools
  BY DEF ChatInv, TurnsTyped, TurnInv, Pools

LEMMA ArriveKeeps ==
    ASSUME ChatInv, NEW t \in Turns, Arrive(t)
    PROVE  ChatInv'
  <1>0. Stage(t) /\ "run" \in Pools
    BY TurnFacts
  <1>1. /\ probe' \in [Turns -> ProbeDoc] /\ probe'[t].slot \in Slots("run")
        /\ \A u \in Turns \ {t} : probe'[u] = probe[u]
    BY <1>0, ProbeStarts DEF Arrive
  <1>2. UNCHANGED <<rows, guard, claim, now, faults, ahead>>
    BY DEF Arrive
  <1>3. TurnsTyped' /\ pc[t] = "idle" /\ pc'[t] = "slot" /\ \A u \in Turns \ {t} : Unmoved(u)
    BY <1>1, <1>2 DEF Arrive, ChatInv, TurnsTyped, Stages, Unmoved
  <1>4. \A ns \in Pools : Probing(t, ns)' => probe'[t].slot \in Slots(ns)
    BY <1>0, <1>1, <1>2, <1>3 DEF Probing, Stage
  <1>5. Stage(t)' /\ First(t)'
    BY <1>0, <1>2, <1>3 DEF Stage, First
  <1>6. Unpassed(t)'
    BY <1>2, <1>3, UnpassedStays DEF Past
  <1> QED BY <1>2, <1>3, <1>4, <1>5, <1>6, QuietStep DEF Past

LEMMA AskPlaceKeeps ==
    ASSUME ChatInv, NEW t \in Turns, AskPlace(t)
    PROVE  ChatInv'
  <1>0. Stage(t) /\ "queue" \in Pools
    BY TurnFacts
  <1>1. /\ probe' \in [Turns -> ProbeDoc] /\ probe'[t].slot \in Slots("queue")
        /\ \A u \in Turns \ {t} : probe'[u] = probe[u]
    BY <1>0, ProbeStarts DEF AskPlace
  <1>2. UNCHANGED <<rows, guard, claim, now, faults, ahead>>
    BY DEF AskPlace
  <1>3. /\ TurnsTyped' /\ pc[t] = "slot" /\ pc'[t] = "place" /\ t \in QueueTurns
        /\ \A u \in Turns \ {t} : Unmoved(u)
    BY <1>1, <1>2 DEF AskPlace, ChatInv, TurnsTyped, Stages, Unmoved
  <1>4. \A ns \in Pools : Probing(t, ns)' => probe'[t].slot \in Slots(ns)
    BY <1>0, <1>1, <1>2, <1>3 DEF Probing, Stage
  <1>5. Stage(t)' /\ First(t)'
    BY <1>0, <1>2, <1>3 DEF Stage, First
  <1>6. Unpassed(t)'
    BY <1>2, <1>3, UnpassedStays DEF Past
  <1> QED BY <1>2, <1>3, <1>4, <1>5, <1>6, QuietStep DEF Past

LEMMA AdmitRequestKeeps ==
    ASSUME ChatInv, NEW t \in Turns, AdmitRequest(t)
    PROVE  ChatInv'
  <1>0. Stage(t) /\ Documents(t)
    BY TurnFacts
  <1>2. UNCHANGED <<rows, guard, probe, claim, now, faults, ahead>>
    BY DEF AdmitRequest
  <1>3. /\ TurnsTyped' /\ pc[t] = "request"
        /\ pc'[t] = IF guard[t]["run"] # "none" THEN "running" ELSE "waiting"
        /\ \A u \in Turns \ {t} : Unmoved(u)
    BY <1>2 DEF AdmitRequest, ChatInv, TurnsTyped, Stages, Unmoved
  <1>4. \A ns \in Pools : Probing(t, ns)' => probe'[t].slot \in Slots(ns)
    BY <1>0, <1>2, <1>3 DEF Probing, Documents
  <1>5. Stage(t)' /\ First(t)'
    BY <1>0, <1>2, <1>3 DEF Stage, First
  <1>6. Unpassed(t)'
    BY <1>2, <1>3, UnpassedStays DEF Past
  <1> QED BY <1>2, <1>3, <1>4, <1>5, <1>6, QuietStep DEF Past

(* The first in line starts to claim: no place is older than its own.      *)
LEMMA CheckOldestKeeps ==
    ASSUME ChatInv, NEW t \in Turns, CheckOldest(t)
    PROVE  ChatInv'
  <1>0. Stage(t) /\ Documents(t) /\ "run" \in Pools /\ "queue" \in Pools
    BY TurnFacts
  <1>1. /\ probe' \in [Turns -> ProbeDoc] /\ probe'[t].slot \in Slots("run")
        /\ \A u \in Turns \ {t} : probe'[u] = probe[u]
    BY <1>0, ProbeStarts DEF CheckOldest
  <1>2. UNCHANGED <<rows, guard, pc, now, faults, ahead>>
    BY DEF CheckOldest
  <1>3. /\ TurnsTyped' /\ pc[t] = "waiting" /\ claim[t] = "none" /\ claim'[t] = "acquire"
        /\ \A u \in Turns \ {t} : Unmoved(u)
    BY <1>1, <1>2 DEF CheckOldest, ChatInv, TurnsTyped, Unmoved
  <1>4. \A ns \in Pools : Probing(t, ns)' => probe'[t].slot \in Slots(ns)
    BY <1>1, <1>2, <1>3 DEF Probing
  <1>5. Stage(t)'
    BY <1>0, <1>2, <1>3 DEF Stage
  <1>6. Unpassed(t)'
    BY <1>2, <1>3, UnpassedStays
  <1>7. First(t)'
    <2>1. PICK q \in Slots("queue") :
            /\ Holds(t, "queue", q)
            /\ \A s \in Live("queue") \ {q} : Before(rows["queue"][q], rows["queue"][s])
      BY DEF CheckOldest, OldestLive, Kept, Holds
    <2>2. ASSUME NEW p \in Slots("queue"), NEW s \in Slots("queue"),
                 Holds(t, "queue", p), rows["queue"][s].ttl > 0
          PROVE  rows["queue"][p].at <= rows["queue"][s].at
      <3>1. p = q
        BY <1>0, <2>1, <2>2 DEF Documents
      <3>2. rows["queue"][p].at \in Nat /\ rows["queue"][s].at \in Nat
        <4>1. rows["queue"][p] \in SlotRow /\ rows["queue"][s] \in SlotRow
          BY <1>0 DEF ChatInv, RowsTyped
        <4> QED BY <4>1, RowFacts, DirectChatAssumption
      <3>3. CASE s = q
        BY <3>1, <3>2, <3>3
      <3>4. CASE s # q
        BY <2>1, <2>2, <3>1, <3>2, <3>4 DEF Live, Before
      <3> QED BY <3>3, <3>4
    <2> QED BY <1>2, <1>3, <2>2 DEF First, Holds
  <1> QED BY <1>2, <1>3, <1>4, <1>5, <1>6, <1>7, QuietStep

LEMMA ClaimNothingKeeps ==
    ASSUME ChatInv, NEW t \in Turns, ClaimNothing(t)
    PROVE  ChatInv'
  <1>0. Stage(t) /\ Documents(t) /\ probe \in [Turns -> ProbeDoc]
    BY TurnFacts DEF ChatInv, TurnsTyped
  <1>2. UNCHANGED <<rows, guard, pc, now, faults, ahead>>
    BY DEF ClaimNothing
  <1>3. /\ TurnsTyped' /\ claim[t] = "acquire" /\ claim'[t] = "none"
        /\ \A u \in Turns \ {t} : Unmoved(u)
    <2>1. probe' = [probe EXCEPT ![t] = NoProbe] /\ claim' = [claim EXCEPT ![t] = "none"]
      BY DEF ClaimNothing
    <2>2. probe' \in [Turns -> ProbeDoc]
      BY <1>0, <2>1, NoProbeTyped
    <2> QED BY <1>2, <2>1, <2>2 DEF ClaimNothing, ChatInv, TurnsTyped, Unmoved
  <1>4. \A ns \in Pools : Probing(t, ns)' => probe'[t].slot \in Slots(ns)
    BY <1>0, <1>2, <1>3 DEF Probing, Stage
  <1>5. Stage(t)' /\ First(t)'
    BY <1>0, <1>2, <1>3 DEF Stage, First
  <1>6. Unpassed(t)'
    BY <1>2, <1>3, UnpassedStays
  <1> QED BY <1>2, <1>3, <1>4, <1>5, <1>6, QuietStep

(* The loop goes on to the next slot, round the pool.                      *)
LEMMA MissKeeps ==
    ASSUME ChatInv, NEW t \in Turns, NEW ns \in Pools, Miss(t, ns)
    PROVE  ChatInv'
  <1>0. /\ Stage(t) /\ Documents(t) /\ First(t) /\ probe \in [Turns -> ProbeDoc]
        /\ probe[t] \in ProbeDoc
    BY TurnFacts DEF ChatInv, TurnsTyped
  <1>2. UNCHANGED <<rows, guard, pc, claim, now, faults, ahead>>
    BY DEF Miss
  <1> DEFINE d == [slot |-> (probe[t].slot + 1) % Limit(ns), left |-> probe[t].left - 1]
  <1>3. probe' = [probe EXCEPT ![t] = d]
    BY DEF Miss
  <1>4. d \in ProbeDoc /\ d.slot \in Slots(ns)
    <2>1. probe[t].slot \in Nat /\ probe[t].left \in 0 .. MaxInFlight + MaxQueued /\ probe[t].left > 1
      BY <1>0 DEF ProbeDoc, Miss
    <2>2. Limit(ns) \in Nat \ {0}
      BY PoolFacts
    <2>3. (probe[t].slot + 1) % Limit(ns) \in 0 .. Limit(ns) - 1
      BY <2>1, <2>2
    <2>4. probe[t].left - 1 \in 0 .. MaxInFlight + MaxQueued
      BY <2>1, DirectChatAssumption
    <2> QED BY <2>2, <2>3, <2>4 DEF ProbeDoc, Slots
  <1> HIDE DEF d
  <1>5. TurnsTyped' /\ probe'[t] = d /\ \A u \in Turns \ {t} : Unmoved(u)
    BY <1>0, <1>2, <1>3, <1>4 DEF ChatInv, TurnsTyped, Unmoved
  <1>6. \A m \in Pools : Probing(t, m)' => probe'[t].slot \in Slots(m)
    BY <1>0, <1>2, <1>4, <1>5 DEF Probing, Miss, Stage
  <1>7. Stage(t)' /\ First(t)'
    BY <1>0, <1>2 DEF Stage, First, Holds
  <1>8. Unpassed(t)'
    BY <1>2, <1>5, UnpassedStays
  <1> QED BY <1>2, <1>5, <1>6, <1>7, <1>8, QuietStep

-----------------------------------------------------------------------------
(* The steps that let go of documents.                                     *)

LEMMA GuardDropped ==
    ASSUME ChatInv, NEW t \in Turns, NEW pools \in SUBSET Pools, Drop(t, pools)
    PROVE  /\ guard' \in [Turns -> Guards]
           /\ \A ns \in Pools : guard'[t][ns] = IF ns \in pools THEN "none" ELSE guard[t][ns]
           /\ \A u \in Turns \ {t} : guard'[u] = guard[u]
  <1> DEFINE g == [ns \in Pools |-> IF ns \in pools THEN "none" ELSE guard[t][ns]]
  <1>1. guard \in [Turns -> Guards] /\ guard[t] \in Guards
    BY DEF ChatInv, TurnsTyped
  <1>2. guard' = [guard EXCEPT ![t] = g]
    BY DEF Drop
  <1>3. g \in Guards /\ \A ns \in Pools : g[ns] = IF ns \in pools THEN "none" ELSE guard[t][ns]
    BY <1>1 DEF Guards
  <1> HIDE DEF g
  <1> QED BY <1>1, <1>2, <1>3

(* A turn loses what it kept, and the guards with it.                      *)
LEMMA LosingStep ==
    ASSUME ChatInv, NEW t \in Turns, NEW pools \in SUBSET Pools,
           RowsTyped', Loses(t, pools), now' = now, TurnsTyped',
           \A ns \in Pools : guard'[t][ns] = IF ns \in pools THEN "none" ELSE guard[t][ns],
           \A u \in Turns \ {t} : Unmoved(u),
           pc[t] \in Past => pc'[t] \in Past,
           \A ns \in Pools : Probing(t, ns)' => probe'[t].slot \in Slots(ns),
           Stage(t)',
           ahead'[t] = {} \/ (ahead'[t] = ahead[t] /\ pc'[t] # "request"),
           pc'[t] = "waiting" => claim'[t] = "none"
    PROVE  ChatInv'
  <1>1. \A v \in Turns : pc[v] \in Past => pc'[v] \in Past
    BY DEF Unmoved
  <1>2. /\ Stamped' /\ Orderly /\ \A u \in Turns \ {t} : Spared(u)
        /\ \A m \in Pools : \A s \in Slots(m) :
             Holds(t, m, s)' <=> Holds(t, m, s) /\ m \notin pools
    BY <1>1, RowsLost
  <1>3. Documents(t)'
    BY <1>2, TurnFacts DEF Documents
  <1>4. Backed(t)'
    BY <1>2, TurnFacts DEF Backed
  <1>5. Unpassed(t)'
    BY <1>1, TurnFacts DEF Unpassed
  <1>6. First(t)'
    BY DEF First
  <1> QED BY <1>2, <1>3, <1>4, <1>5, <1>6, OneTurnSteps DEF TurnInv

LEMMA DropStep ==
    ASSUME ChatInv, NEW t \in Turns, NEW pools \in SUBSET Pools,
           Drop(t, pools), now' = now, faults' = faults,
           pc' \in [Turns -> Stages], claim' \in [Turns -> {"none", "acquire", "got"}],
           probe' \in [Turns -> ProbeDoc], ahead' \in [Turns -> SUBSET Turns],
           \A u \in Turns \ {t} : /\ pc'[u] = pc[u] /\ claim'[u] = claim[u]
                                  /\ probe'[u] = probe[u] /\ ahead'[u] = ahead[u],
           pc[t] \in Past => pc'[t] \in Past,
           \A ns \in Pools : Probing(t, ns)' => probe'[t].slot \in Slots(ns),
           Stage(t)',
           ahead'[t] = {} \/ (ahead'[t] = ahead[t] /\ pc'[t] # "request"),
           pc'[t] = "waiting" => claim'[t] = "none"
    PROVE  ChatInv'
  <1>1. RowsTyped' /\ Loses(t, pools)
    BY DropReads DEF ChatInv
  <1>2. /\ guard' \in [Turns -> Guards]
        /\ \A ns \in Pools : guard'[t][ns] = IF ns \in pools THEN "none" ELSE guard[t][ns]
        /\ \A u \in Turns \ {t} : guard'[u] = guard[u]
    BY GuardDropped
  <1>3. TurnsTyped'
    BY <1>2 DEF ChatInv, TurnsTyped
  <1>4. \A u \in Turns \ {t} : Unmoved(u)
    BY <1>2 DEF Unmoved
  <1> QED BY <1>1, <1>2, <1>3, <1>4, LosingStep

(* Somebody is in line: the newcomer gives its slot back and asks for a    *)
(* place; or nobody is, and nobody it could overtake has a place.          *)
LEMMA CheckLineKeeps ==
    ASSUME ChatInv, NEW t \in Turns, CheckLine(t)
    PROVE  ChatInv'
  <1>0. /\ Stage(t) /\ Documents(t) /\ Unpassed(t) /\ "run" \in Pools /\ "queue" \in Pools
        /\ guard[t] \in Guards /\ TurnsTyped
    BY TurnFacts DEF ChatInv
  <1>a. pc[t] = "line" /\ UNCHANGED <<claim, now, faults>>
    BY DEF CheckLine
  <1>1. CASE AnyLive("queue")
    <2>1. Drop(t, {"run"}) /\ StartProbe(t, "queue")
      BY <1>1 DEF CheckLine
    <2>2. /\ probe' \in [Turns -> ProbeDoc] /\ probe'[t].slot \in Slots("queue")
          /\ \A u \in Turns \ {t} : probe'[u] = probe[u]
      BY <1>0, <2>1, ProbeStarts
    <2>3. /\ pc' \in [Turns -> Stages] /\ pc'[t] = "place"
          /\ ahead' \in [Turns -> SUBSET Turns] /\ ahead'[t] = {}
          /\ \A u \in Turns \ {t} : pc'[u] = pc[u] /\ ahead'[u] = ahead[u]
      BY <1>0, <1>1 DEF CheckLine, TurnsTyped, Stages
    <2>4. guard'[t]["run"] = "none" /\ guard'[t]["queue"] = guard[t]["queue"]
      BY <1>0, <2>1, GuardDropped
    <2>5. Stage(t)' /\ \A ns \in Pools : Probing(t, ns)' => probe'[t].slot \in Slots(ns)
      BY <1>0, <1>a, <2>2, <2>3, <2>4 DEF Stage, Probing
    <2>6. claim' \in [Turns -> {"none", "acquire", "got"}]
      BY <1>0, <1>a DEF TurnsTyped
    <2> QED BY <1>0, <1>a, <2>1, <2>2, <2>3, <2>5, <2>6, DropStep DEF Past
  <1>2. CASE ~AnyLive("queue")
    <2>1. UNCHANGED <<rows, guard, probe, claim, now, faults, ahead>>
      BY <1>2 DEF CheckLine
    <2>2. /\ TurnsTyped' /\ pc'[t] = "request" /\ \A u \in Turns \ {t} : Unmoved(u)
      BY <1>0, <1>2, <2>1 DEF CheckLine, TurnsTyped, Stages, Unmoved
    <2>3. ASSUME NEW s \in Slots("queue"), NEW u \in Turns PROVE ~Holds(u, "queue", s)
      <3>1. rows["queue"][s] \in SlotRow /\ ~(rows["queue"][s].ttl > 0)
        BY <1>0, <1>2 DEF AnyLive, Live, ChatInv, RowsTyped
      <3> QED BY <3>1, RowFacts DEF Holds
    <2>4. Stage(t)' /\ First(t)'
      BY <1>0, <1>a, <2>1, <2>2 DEF Stage, First
    <2>5. \A ns \in Pools : Probing(t, ns)' => probe'[t].slot \in Slots(ns)
      BY <1>0, <1>a, <2>1, <2>2 DEF Stage, Probing
    <2>6. Unpassed(t)'
      <3>1. \A u \in ahead[t] : u \in Turns /\ pc'[u] \in Past
        BY <1>0, <2>2 DEF Unpassed, Unmoved, Past, TurnsTyped
      <3> QED BY <2>1, <2>3, <3>1 DEF Unpassed, Holds
    <2> QED BY <1>a, <2>1, <2>2, <2>4, <2>5, <2>6, QuietStep DEF Past
  <1> QED BY <1>1, <1>2

(* The admission ends: refused, or given up.                               *)
LEMMA EndAdmissionKeeps ==
    ASSUME ChatInv, NEW t \in Turns, pc[t] \in {"slot", "line", "place", "request"},
           EndAdmission(t)
    PROVE  ChatInv'
  <1>0. Stage(t) /\ TurnsTyped /\ "run" \in Pools /\ "queue" \in Pools
    BY TurnFacts DEF ChatInv
  <1>1. Drop(t, Pools) /\ UNCHANGED <<claim, now, faults>>
    BY DEF EndAdmission
  <1>2. /\ pc' \in [Turns -> Stages] /\ pc'[t] = "done"
        /\ ahead' \in [Turns -> SUBSET Turns] /\ ahead'[t] = {}
        /\ probe' \in [Turns -> ProbeDoc]
        /\ \A u \in Turns \ {t} : pc'[u] = pc[u] /\ ahead'[u] = ahead[u] /\ probe'[u] = probe[u]
    BY <1>0, NoProbeTyped DEF EndAdmission, TurnsTyped, Stages
  <1>3. guard'[t]["run"] = "none" /\ guard'[t]["queue"] = "none"
    BY <1>0, <1>1, GuardDropped
  <1>4. Stage(t)' /\ \A ns \in Pools : Probing(t, ns)' => probe'[t].slot \in Slots(ns)
    BY <1>0, <1>1, <1>2, <1>3 DEF Stage, Probing
  <1>5. claim' \in [Turns -> {"none", "acquire", "got"}]
    BY <1>0, <1>1 DEF TurnsTyped
  <1> QED BY <1>1, <1>2, <1>4, <1>5, DropStep DEF Past

(* The place is traded for the slot, or the slot given back.               *)
LEMMA TakeSlotKeeps ==
    ASSUME ChatInv, NEW t \in Turns, TakeSlot(t)
    PROVE  ChatInv'
  <1>0. /\ Stage(t) /\ TurnsTyped /\ "run" \in Pools /\ "queue" \in Pools
        /\ guard[t] \in Guards
    BY TurnFacts DEF ChatInv
  <1>1. /\ UNCHANGED <<probe, now, faults, ahead>>
        /\ pc[t] = "waiting" /\ claim[t] = "got" /\ claim'[t] = "none"
        /\ claim' \in [Turns -> {"none", "acquire", "got"}]
        /\ \A u \in Turns \ {t} : claim'[u] = claim[u]
    BY <1>0 DEF TakeSlot, TurnsTyped
  <1>2. probe' \in [Turns -> ProbeDoc] /\ ahead' \in [Turns -> SUBSET Turns]
    BY <1>0, <1>1 DEF TurnsTyped
  <1>3. CASE guard[t]["queue"] = "held"
    <2>1. Drop(t, {"queue"})
      BY <1>3 DEF TakeSlot
    <2>2. /\ pc' \in [Turns -> Stages] /\ pc'[t] = "running"
          /\ \A u \in Turns \ {t} : pc'[u] = pc[u]
      BY <1>0, <1>3 DEF TakeSlot, TurnsTyped, Stages
    <2>3. guard'[t]["run"] = guard[t]["run"] /\ guard'[t]["queue"] = "none"
      BY <1>0, <2>1, GuardDropped
    <2>4. Stage(t)' /\ \A ns \in Pools : Probing(t, ns)' => probe'[t].slot \in Slots(ns)
      BY <1>0, <1>1, <2>2, <2>3 DEF Stage, Probing
    <2> QED BY <1>0, <1>1, <1>2, <2>1, <2>2, <2>4, DropStep DEF Past
  <1>4. CASE guard[t]["queue"] # "held"
    <2>1. Drop(t, {"run"}) /\ pc' = pc
      BY <1>4 DEF TakeSlot
    <2>2. guard'[t]["run"] = "none" /\ guard'[t]["queue"] = guard[t]["queue"]
      BY <1>0, <2>1, GuardDropped
    <2>3. pc' \in [Turns -> Stages]
      BY <1>0, <2>1 DEF TurnsTyped
    <2>4. Stage(t)' /\ \A ns \in Pools : Probing(t, ns)' => probe'[t].slot \in Slots(ns)
      BY <1>0, <1>1, <2>1, <2>2 DEF Stage, Probing
    <2> QED BY <1>0, <1>1, <1>2, <2>1, <2>3, <2>4, DropStep
  <1> QED BY <1>3, <1>4

(* A waiter leaves; its claim goes on without it or is dropped.            *)
LEMMA LeaveKeeps ==
    ASSUME ChatInv, NEW t \in Turns, Leave(t)
    PROVE  ChatInv'
  <1>0. /\ Stage(t) /\ Documents(t) /\ TurnsTyped /\ "run" \in Pools /\ "queue" \in Pools
        /\ claim[t] \in {"none", "acquire", "got"}
    BY TurnFacts DEF ChatInv
  <1>1. Drop(t, Pools) /\ UNCHANGED <<probe, now, faults>> /\ pc[t] = "waiting"
    BY DEF Leave
  <1>2. /\ pc' \in [Turns -> Stages] /\ pc'[t] = "done"
        /\ ahead' \in [Turns -> SUBSET Turns] /\ ahead'[t] = {}
        /\ claim' \in [Turns -> {"none", "acquire", "got"}]
        /\ claim'[t] = (IF claim[t] = "got" THEN "none" ELSE claim[t])
        /\ \A u \in Turns \ {t} : pc'[u] = pc[u] /\ ahead'[u] = ahead[u] /\ claim'[u] = claim[u]
    BY <1>0 DEF Leave, TurnsTyped, Stages
  <1>3. guard'[t]["run"] = "none" /\ guard'[t]["queue"] = "none"
    BY <1>0, <1>1, GuardDropped
  <1>4. Stage(t)' /\ \A ns \in Pools : Probing(t, ns)' => probe'[t].slot \in Slots(ns)
    BY <1>0, <1>1, <1>2, <1>3 DEF Stage, Probing, Documents
  <1>5. probe' \in [Turns -> ProbeDoc]
    BY <1>0, <1>1 DEF TurnsTyped
  <1> QED BY <1>1, <1>2, <1>4, <1>5, DropStep DEF Past

(* A claim whose waiter is gone gives its slot back.                       *)
LEMMA DropClaimKeeps ==
    ASSUME ChatInv, NEW t \in Turns, DropClaim(t)
    PROVE  ChatInv'
  <1>0. Stage(t) /\ TurnsTyped /\ "run" \in Pools /\ "queue" \in Pools
    BY TurnFacts DEF ChatInv
  <1>1. /\ Drop(t, {"run"}) /\ UNCHANGED <<probe, pc, now, faults>>
        /\ pc[t] # "waiting" /\ claim[t] = "got"
    BY DEF DropClaim
  <1>2. /\ ahead' \in [Turns -> SUBSET Turns] /\ ahead'[t] = {}
        /\ claim' \in [Turns -> {"none", "acquire", "got"}] /\ claim'[t] = "none"
        /\ \A u \in Turns \ {t} : ahead'[u] = ahead[u] /\ claim'[u] = claim[u]
    BY <1>0 DEF DropClaim, TurnsTyped
  <1>3. guard'[t]["run"] = "none" /\ guard'[t]["queue"] = guard[t]["queue"]
    BY <1>0, <1>1, GuardDropped
  <1>4. Stage(t)' /\ \A ns \in Pools : Probing(t, ns)' => probe'[t].slot \in Slots(ns)
    BY <1>0, <1>1, <1>2, <1>3 DEF Stage, Probing
  <1>5. probe' \in [Turns -> ProbeDoc] /\ pc' \in [Turns -> Stages]
    BY <1>0, <1>1 DEF TurnsTyped
  <1> QED BY <1>0, <1>1, <1>2, <1>4, <1>5, DropStep

LEMMA FinishKeeps ==
    ASSUME ChatInv, NEW t \in Turns, Finish(t)
    PROVE  ChatInv'
  <1>0. Stage(t) /\ TurnsTyped /\ "run" \in Pools /\ "queue" \in Pools
    BY TurnFacts DEF ChatInv
  <1>1. Drop(t, Pools) /\ UNCHANGED <<probe, claim, now, faults>> /\ pc[t] = "running"
    BY DEF Finish
  <1>2. /\ pc' \in [Turns -> Stages] /\ pc'[t] = "done"
        /\ ahead' \in [Turns -> SUBSET Turns] /\ ahead'[t] = {}
        /\ \A u \in Turns \ {t} : pc'[u] = pc[u] /\ ahead'[u] = ahead[u]
    BY <1>0 DEF Finish, TurnsTyped, Stages
  <1>3. guard'[t]["run"] = "none" /\ guard'[t]["queue"] = "none"
    BY <1>0, <1>1, GuardDropped
  <1>4. Stage(t)' /\ \A ns \in Pools : Probing(t, ns)' => probe'[t].slot \in Slots(ns)
    BY <1>0, <1>1, <1>2, <1>3 DEF Stage, Probing
  <1>5. probe' \in [Turns -> ProbeDoc] /\ claim' \in [Turns -> {"none", "acquire", "got"}]
    BY <1>0, <1>1 DEF TurnsTyped
  <1> QED BY <1>1, <1>2, <1>4, <1>5, DropStep DEF Past

LEMMA FaultCounted ==
    ASSUME ChatInv, Fault
    PROVE  faults' \in 0 .. MaxFaults
  BY DirectChatAssumption DEF Fault, ChatInv, TurnsTyped

(* The replica stops: the documents are orphans, nobody has their guards.  *)
LEMMA CrashKeeps ==
    ASSUME ChatInv, NEW t \in Turns, Crash(t)
    PROVE  ChatInv'
  <1>0. Stage(t) /\ TurnsTyped /\ "run" \in Pools /\ "queue" \in Pools /\ RowsTyped
    BY TurnFacts DEF ChatInv
  <1>1. RowsTyped' /\ Loses(t, Pools)
    <2>1. rows' = [ns \in Pools |-> [s \in Slots(ns) |->
                     IF ns \in Pools /\ s \in Kept(t, ns)
                     THEN [rows[ns][s] EXCEPT !.owner = "orphan"] ELSE rows[ns][s]]]
      BY DEF Crash
    <2> QED BY <1>0, <2>1, OwnerChanges
  <1>2. /\ guard' \in [Turns -> Guards]
        /\ \A ns \in Pools : guard'[t][ns] = "none"
        /\ \A u \in Turns \ {t} : guard'[u] = guard[u]
    <2> DEFINE g == [ns \in Pools |-> "none"]
    <2>1. guard' = [guard EXCEPT ![t] = g] /\ guard \in [Turns -> Guards]
      BY <1>0 DEF Crash, TurnsTyped
    <2>2. g \in Guards /\ \A ns \in Pools : g[ns] = "none"
      BY DEF Guards
    <2> HIDE DEF g
    <2> QED BY <2>1, <2>2
  <1>3. /\ pc' \in [Turns -> Stages] /\ pc'[t] = "done"
        /\ ahead' \in [Turns -> SUBSET Turns] /\ ahead'[t] = {}
        /\ claim' \in [Turns -> {"none", "acquire", "got"}] /\ claim'[t] = "none"
        /\ probe' \in [Turns -> ProbeDoc]
        /\ \A u \in Turns \ {t} : /\ pc'[u] = pc[u] /\ ahead'[u] = ahead[u]
                                  /\ claim'[u] = claim[u] /\ probe'[u] = probe[u]
    BY <1>0, NoProbeTyped DEF Crash, TurnsTyped, Stages
  <1>4. now' = now /\ faults' \in 0 .. MaxFaults
    BY FaultCounted DEF Crash
  <1>5. TurnsTyped' /\ \A u \in Turns \ {t} : Unmoved(u)
    BY <1>0, <1>2, <1>3, <1>4 DEF TurnsTyped, Unmoved
  <1>6. Stage(t)' /\ \A ns \in Pools : Probing(t, ns)' => probe'[t].slot \in Slots(ns)
    BY <1>0, <1>2, <1>3 DEF Stage, Probing
  <1> QED BY <1>1, <1>2, <1>3, <1>4, <1>5, <1>6, LosingStep DEF Past

-----------------------------------------------------------------------------
(* The steps that take a document.                                         *)

LEMMA HitStep ==
    ASSUME ChatInv, NEW t \in Turns, NEW ns \in Pools, Hit(t, ns), Probing(t, ns),
           now' = now, faults' = faults,
           pc' \in [Turns -> Stages], claim' \in [Turns -> {"none", "acquire", "got"}],
           ahead' \in [Turns -> SUBSET Turns],
           \A u \in Turns \ {t} : pc'[u] = pc[u] /\ claim'[u] = claim[u] /\ ahead'[u] = ahead[u],
           pc[t] \in Past => pc'[t] \in Past, \A m \in Pools : ~Probing(t, m)'
    PROVE  /\ \A m \in Pools : guard'[t][m] = IF m = ns THEN "held" ELSE guard[t][m]
           /\ Stage(t)' /\ Unpassed(t)' /\ First(t)' => ChatInv'
  <1>0. /\ Stage(t) /\ Documents(t) /\ Backed(t) /\ TurnsTyped /\ guard[t] \in Guards
        /\ "run" \in Pools /\ "queue" \in Pools
    BY TurnFacts DEF ChatInv
  <1>1. /\ guard[t][ns] = "none" /\ probe[t].slot \in Slots(ns)
        /\ ns = "queue" => pc[t] \notin Past
    BY <1>0 DEF Stage, Documents, Probing, Past, Pools
  <1>2. /\ guard' \in [Turns -> Guards]
        /\ \A m \in Pools : guard'[t][m] = IF m = ns THEN "held" ELSE guard[t][m]
        /\ \A u \in Turns \ {t} : guard'[u] = guard[u]
    <2> DEFINE g == [guard[t] EXCEPT ![ns] = "held"]
    <2>1. guard' = [guard EXCEPT ![t] = g] /\ guard \in [Turns -> Guards]
      BY <1>0 DEF Hit, TurnsTyped
    <2>2. g \in Guards /\ \A m \in Pools : g[m] = IF m = ns THEN "held" ELSE guard[t][m]
      BY <1>0 DEF Guards
    <2> HIDE DEF g
    <2> QED BY <2>1, <2>2
  <1>3. probe' \in [Turns -> ProbeDoc] /\ \A u \in Turns \ {t} : probe'[u] = probe[u]
    <2>1. probe' = [probe EXCEPT ![t] = NoProbe] /\ probe \in [Turns -> ProbeDoc]
      BY <1>0 DEF Hit, TurnsTyped
    <2> QED BY <2>1, NoProbeTyped
  <1>4. TurnsTyped' /\ \A u \in Turns \ {t} : Unmoved(u)
    BY <1>0, <1>2, <1>3 DEF TurnsTyped, Unmoved
  <1>5. \A v \in Turns : pc[v] \in Past => pc'[v] \in Past
    OBVIOUS
  <1>6. /\ RowsTyped' /\ Stamped' /\ Orderly /\ \A u \in Turns \ {t} : Spared(u)
        /\ \A m \in Pools : \A s \in Slots(m) :
             Holds(t, m, s)' <=> (m = ns /\ s = probe[t].slot) \/ Holds(t, m, s)
    <2>1. rows' = Written(t, ns, "kept") /\ probe[t].slot \notin Live(ns)
      BY DEF Hit
    <2> QED BY <1>1, <1>5, <2>1, RowWritten
  <1>7. \A s \in Slots(ns) : ~Holds(t, ns, s)
    BY <1>0, <1>1 DEF Documents
  <1>8. Documents(t)'
    BY <1>0, <1>2, <1>6, <1>7 DEF Documents
  <1>9. Backed(t)'
    BY <1>0, <1>1, <1>2, <1>6 DEF Backed
  <1>10. ASSUME Stage(t)', Unpassed(t)', First(t)' PROVE ChatInv'
    BY <1>4, <1>6, <1>8, <1>9, <1>10, OneTurnSteps DEF TurnInv
  <1> QED BY <1>2, <1>10

(* Those with a live place, of whom note is taken.                         *)
LEMMA AheadNoted ==
    ASSUME ChatInv, NEW t \in Turns, NoteAhead(t)
    PROVE  /\ ahead' \in [Turns -> SUBSET Turns]
           /\ \A u \in Turns \ {t} : ahead'[u] = ahead[u]
           /\ \A u \in ahead'[t] : u \in Turns \ {t} /\ pc[u] \in Past
           /\ \A u \in ahead'[t] : guard[t]["queue"] # "none" =>
                \E s, p \in Slots("queue") :
                   /\ Holds(u, "queue", s) /\ Holds(t, "queue", p)
                   /\ rows["queue"][s].at < rows["queue"][p].at
  <1> DEFINE A == {u \in Turns \ {t} :
                     \E s \in Kept(u, "queue") :
                        \/ guard[t]["queue"] = "none"
                        \/ \E p \in Kept(t, "queue") : rows["queue"][s].at < rows["queue"][p].at}
  <1>1. ahead' = [ahead EXCEPT ![t] = A] /\ ahead \in [Turns -> SUBSET Turns]
    BY DEF NoteAhead, ChatInv, TurnsTyped
  <1>2. A \in SUBSET Turns
    OBVIOUS
  <1>3. ASSUME NEW u \in A
        PROVE  /\ u \in Turns \ {t} /\ pc[u] \in Past
               /\ guard[t]["queue"] # "none" =>
                    \E s, p \in Slots("queue") :
                       /\ Holds(u, "queue", s) /\ Holds(t, "queue", p)
                       /\ rows["queue"][s].at < rows["queue"][p].at
    <2>1. \E s \in Slots("queue") : Holds(u, "queue", s)
      BY DEF Kept, Holds
    <2>2. pc[u] \in Past
      BY <2>1, TurnFacts DEF Documents, Stage, Past
    <2>3. ASSUME guard[t]["queue"] # "none"
          PROVE  \E s, p \in Slots("queue") :
                    /\ Holds(u, "queue", s) /\ Holds(t, "queue", p)
                    /\ rows["queue"][s].at < rows["queue"][p].at
      BY <2>3 DEF Kept, Holds
    <2> QED BY <2>2, <2>3
  <1> HIDE DEF A
  <1> QED BY <1>1, <1>2, <1>3

LEMMA TakeFirstKeeps ==
    ASSUME ChatInv, NEW t \in Turns, TakeFirst(t)
    PROVE  ChatInv'
  <1>0. Stage(t) /\ TurnsTyped /\ "run" \in Pools /\ "queue" \in Pools
    BY TurnFacts DEF ChatInv
  <1>1. Hit(t, "run") /\ NoteAhead(t) /\ UNCHANGED <<claim, now, faults>> /\ pc[t] = "slot"
    BY DEF TakeFirst
  <1>2. /\ pc' \in [Turns -> Stages] /\ \A u \in Turns \ {t} : pc'[u] = pc[u]
        /\ pc'[t] = IF t \in QueueTurns THEN "line" ELSE "request"
    BY <1>0 DEF TakeFirst, TurnsTyped, Stages
  <1>3. /\ ahead' \in [Turns -> SUBSET Turns]
        /\ \A u \in Turns \ {t} : ahead'[u] = ahead[u]
        /\ \A u \in ahead'[t] : u \in Turns \ {t} /\ pc[u] \in Past
    BY <1>1, AheadNoted
  <1>4. claim' \in [Turns -> {"none", "acquire", "got"}] /\ claim'[t] = "none"
    BY <1>0, <1>1 DEF TurnsTyped, Stage
  <1>5. Probing(t, "run") /\ \A m \in Pools : ~Probing(t, m)'
    BY <1>1, <1>2, <1>4 DEF Probing
  <1>6. /\ \A m \in Pools : guard'[t][m] = IF m = "run" THEN "held" ELSE guard[t][m]
        /\ Stage(t)' /\ Unpassed(t)' /\ First(t)' => ChatInv'
    BY <1>0, <1>1, <1>2, <1>3, <1>4, <1>5, HitStep DEF Past
  <1>7. Stage(t)'
    BY <1>0, <1>1, <1>2, <1>4, <1>6 DEF Stage
  <1>8. Unpassed(t)' /\ First(t)'
    BY <1>2, <1>3 DEF Unpassed, First
  <1> QED BY <1>6, <1>7, <1>8

LEMMA TakePlaceKeeps ==
    ASSUME ChatInv, NEW t \in Turns, TakePlace(t)
    PROVE  ChatInv'
  <1>0. Stage(t) /\ Unpassed(t) /\ TurnsTyped /\ "run" \in Pools /\ "queue" \in Pools
    BY TurnFacts DEF ChatInv
  <1>1. Hit(t, "queue") /\ UNCHANGED <<claim, now, faults, ahead>> /\ pc[t] = "place"
    BY DEF TakePlace
  <1>2. /\ pc' \in [Turns -> Stages] /\ \A u \in Turns \ {t} : pc'[u] = pc[u]
        /\ pc'[t] = "request"
    BY <1>0 DEF TakePlace, TurnsTyped, Stages
  <1>3. claim' \in [Turns -> {"none", "acquire", "got"}] /\ claim'[t] = "none"
    BY <1>0, <1>1 DEF TurnsTyped, Stage
  <1>4. Probing(t, "queue") /\ \A m \in Pools : ~Probing(t, m)'
    BY <1>1, <1>2, <1>3 DEF Probing
  <1>5. ahead' \in [Turns -> SUBSET Turns]
    BY <1>0, <1>1 DEF TurnsTyped
  <1>6. /\ \A m \in Pools : guard'[t][m] = IF m = "queue" THEN "held" ELSE guard[t][m]
        /\ Stage(t)' /\ Unpassed(t)' /\ First(t)' => ChatInv'
    BY <1>0, <1>1, <1>2, <1>3, <1>4, <1>5, HitStep DEF Past
  <1>7. Stage(t)' /\ guard'[t]["run"] = "none"
    BY <1>0, <1>1, <1>2, <1>3, <1>6 DEF Stage
  <1>8. Unpassed(t)' /\ First(t)'
    <2>1. \A u \in ahead[t] : u \in Turns /\ pc'[u] \in Past
      BY <1>0, <1>2 DEF Unpassed, TurnsTyped, Past
    <2> QED BY <1>1, <1>2, <1>7, <2>1 DEF Unpassed, First
  <1> QED BY <1>6, <1>7, <1>8

(* The claim of the first in line takes a slot: no older place is left.    *)
LEMMA ClaimHitKeeps ==
    ASSUME ChatInv, NEW t \in Turns, ClaimHit(t)
    PROVE  ChatInv'
  <1>0. /\ Stage(t) /\ First(t) /\ TurnsTyped /\ "run" \in Pools /\ "queue" \in Pools
        /\ RowsTyped
    BY TurnFacts DEF ChatInv
  <1>1. /\ Hit(t, "run") /\ NoteAhead(t) /\ UNCHANGED <<pc, now, faults>>
        /\ claim[t] = "acquire"
    BY DEF ClaimHit
  <1>2. /\ claim' \in [Turns -> {"none", "acquire", "got"}] /\ claim'[t] = "got"
        /\ \A u \in Turns \ {t} : claim'[u] = claim[u]
        /\ pc' \in [Turns -> Stages]
    BY <1>0, <1>1 DEF ClaimHit, TurnsTyped
  <1>3. /\ ahead' \in [Turns -> SUBSET Turns]
        /\ \A u \in Turns \ {t} : ahead'[u] = ahead[u]
        /\ \A u \in ahead'[t] : u \in Turns \ {t} /\ pc[u] \in Past
        /\ \A u \in ahead'[t] : guard[t]["queue"] # "none" =>
             \E s, p \in Slots("queue") :
                /\ Holds(u, "queue", s) /\ Holds(t, "queue", p)
                /\ rows["queue"][s].at < rows["queue"][p].at
    BY <1>1, AheadNoted
  <1>4. Probing(t, "run") /\ \A m \in Pools : ~Probing(t, m)'
    BY <1>0, <1>1, <1>2 DEF Probing, Stage
  <1>5. /\ \A m \in Pools : guard'[t][m] = IF m = "run" THEN "held" ELSE guard[t][m]
        /\ Stage(t)' /\ Unpassed(t)' /\ First(t)' => ChatInv'
    BY <1>0, <1>1, <1>2, <1>3, <1>4, HitStep
  <1>6. Stage(t)'
    BY <1>0, <1>1, <1>2, <1>5 DEF Stage
  <1>7. Unpassed(t)'
    BY <1>0, <1>1, <1>3 DEF Unpassed, Stage
  <1>8. First(t)'
    <2>1. ASSUME pc[t] = "waiting", NEW u \in ahead'[t] PROVE FALSE
      <3>1. guard[t]["queue"] # "none"
        BY <1>0, <2>1 DEF Stage
      <3>2. PICK s \in Slots("queue"), p \in Slots("queue") :
              /\ Holds(u, "queue", s) /\ Holds(t, "queue", p)
              /\ rows["queue"][s].at < rows["queue"][p].at
        BY <1>3, <3>1
      <3>3. rows["queue"][s] \in SlotRow /\ rows["queue"][p] \in SlotRow
        BY <1>0 DEF RowsTyped
      <3>4. /\ rows["queue"][s].ttl > 0
            /\ rows["queue"][s].at \in Nat /\ rows["queue"][p].at \in Nat
        BY <3>2, <3>3, RowFacts, DirectChatAssumption DEF Holds
      <3>5. rows["queue"][p].at <= rows["queue"][s].at
        BY <1>0, <1>1, <2>1, <3>2, <3>4 DEF First
      <3> QED BY <3>2, <3>4, <3>5
    <2> QED BY <1>1, <1>2, <2>1 DEF First
  <1> QED BY <1>5, <1>6, <1>7, <1>8

-----------------------------------------------------------------------------
(* Renewal, release, failure and time, which no turn takes part in.        *)

(* Everyone looks on.                                                      *)
LEMMA NobodySteps ==
    ASSUME ChatInv, RowsTyped', TurnsTyped', Stamped', Orderly,
           \A u \in Turns : Spared(u) /\ Unmoved(u)
    PROVE  ChatInv'
  BY Bystander DEF ChatInv

(* A renewal succeeds, finds its document gone, or reports an error, with  *)
(* or without effect: what is kept stays kept.                             *)
LEMMA RenewalKeeps ==
    ASSUME ChatInv, NEW t \in Turns, NEW ns \in Pools, Renew(t, ns) \/ RenewFails(t, ns)
    PROVE  ChatInv'
  <1>0. RowsTyped /\ TurnsTyped /\ "queue" \in Pools /\ guard[t] \in Guards
    BY TurnFacts DEF ChatInv
  <1>1. UNCHANGED <<probe, pc, claim, now, ahead>> /\ faults' \in 0 .. MaxFaults
    BY <1>0, FaultCounted DEF Renew, RenewFails, TurnsTyped
  <1>2. /\ guard[t][ns] = "held"
        /\ guard' = guard \/ guard' = [guard EXCEPT ![t][ns] = "lost"]
        /\ rows' = rows \/ rows' = Renewed(t, ns)
    BY DEF Renew, RenewFails
  <1>3. /\ guard' \in [Turns -> Guards]
        /\ \A u \in Turns : \A m \in Pools : guard'[u][m] = "none" <=> guard[u][m] = "none"
    <2> DEFINE g == [guard[t] EXCEPT ![ns] = "lost"]
    <2>1. g \in Guards /\ \A m \in Pools : g[m] = "none" <=> guard[t][m] = "none"
      BY <1>0, <1>2 DEF Guards
    <2>2. guard' = guard \/ guard' = [guard EXCEPT ![t] = g]
      BY <1>2
    <2>3. guard \in [Turns -> Guards]
      BY <1>0 DEF TurnsTyped
    <2> HIDE DEF g
    <2> QED BY <2>1, <2>2, <2>3
  <1>4. TurnsTyped' /\ \A u \in Turns : Unmoved(u)
    BY <1>0, <1>1, <1>3 DEF TurnsTyped, Unmoved
  <1>5. /\ RowsTyped'
        /\ \A m \in Pools : \A s \in Slots(m) :
             /\ rows'[m][s].turn = rows[m][s].turn
             /\ rows'[m][s].owner = rows[m][s].owner
             /\ rows'[m][s].at = rows[m][s].at
             /\ rows'[m][s].ttl > 0 => rows[m][s].ttl > 0
    <2>1. CASE rows' = rows
      BY <1>0, <2>1 DEF RowsTyped
    <2>2. CASE rows' = Renewed(t, ns)
      BY <1>0, <2>2, RenewReads
    <2> QED BY <1>2, <2>1, <2>2
  <1>6. Stamped' /\ Orderly
    BY <1>0, <1>1, <1>5 DEF ChatInv, Stamped, Orderly, Holds, TurnsTyped
  <1>7. \A u \in Turns : Spared(u)
    BY <1>5 DEF Spared, Holds
  <1> QED BY <1>4, <1>5, <1>6, <1>7, NobodySteps

(* A document that nobody keeps is deleted or becomes an orphan.           *)
LEMMA ReleaseKeeps ==
    ASSUME ChatInv, NEW ns \in Pools, NEW k \in Slots(ns), Release(ns, k) \/ ReleaseFails(ns, k)
    PROVE  ChatInv'
  <1>0. RowsTyped /\ TurnsTyped /\ "queue" \in Pools /\ rows[ns][k] \in SlotRow
    BY DEF ChatInv, Pools, RowsTyped
  <1>1. UNCHANGED <<guard, probe, pc, claim, now, ahead>> /\ faults' \in 0 .. MaxFaults
    BY <1>0, FaultCounted DEF Release, ReleaseFails, TurnsTyped
  <1>2. rows[ns][k].owner = "dropped" /\ rows[ns][k] # Free
    BY <1>0, RowFacts DEF Release, ReleaseFails
  <1>3. PICK q \in SlotRow :
          /\ rows' = With(ns, k, q)
          /\ q = Free \/ (q.owner = "orphan" /\ q.at = rows[ns][k].at /\ q.ttl = rows[ns][k].ttl)
    <2>1. CASE Release(ns, k)
      <3>1. Free \in SlotRow /\ rows' = With(ns, k, Free)
        BY <2>1 DEF Release, With, SlotRow
      <3> QED BY <3>1
    <2>2. CASE ReleaseFails(ns, k)
      <3> DEFINE q == [rows[ns][k] EXCEPT !.owner = "orphan"]
      <3>1. rows' = With(ns, k, q)
        BY <2>2 DEF ReleaseFails, With
      <3>2. /\ q \in SlotRow /\ q.owner = "orphan" /\ q.at = rows[ns][k].at
            /\ q.ttl = rows[ns][k].ttl
        BY <1>0, <1>2, OwnerChanged
      <3> HIDE DEF q
      <3> QED BY <3>1, <3>2
    <2> QED BY <2>1, <2>2
  <1>4. /\ RowsTyped'
        /\ \A m \in Pools : \A s \in Slots(m) :
             rows'[m][s] = IF m = ns /\ s = k THEN q ELSE rows[m][s]
    BY <1>0, <1>3, WriteReads
  <1>5. q.owner # "kept" /\ (q.ttl > 0 => q.ttl = rows[ns][k].ttl /\ q.at = rows[ns][k].at)
        /\ q.at <= rows[ns][k].at
    <2>1. rows[ns][k].at \in Nat
      BY <1>0, RowFacts, DirectChatAssumption
    <2>2. Free.owner = "none" /\ Free.at = 0 /\ Free.ttl = 0
      BY DEF Free
    <2> QED BY <1>3, <2>1, <2>2
  <1>6. \A u \in Turns : \A m \in Pools : \A s \in Slots(m) :
          /\ Holds(u, m, s)' <=> Holds(u, m, s)
          /\ Holds(u, m, s) => rows'[m][s].at = rows[m][s].at
    BY <1>2, <1>4, <1>5 DEF Holds
  <1>7. TurnsTyped' /\ \A u \in Turns : Unmoved(u)
    BY <1>0, <1>1 DEF TurnsTyped, Unmoved
  <1>8. Stamped'
    <2>1. ASSUME NEW s \in Slots("queue") PROVE rows'["queue"][s].at <= now
      <3>1. /\ rows["queue"][s].at <= now
            /\ now \in Nat /\ rows["queue"][s].at \in Nat /\ q.at \in Nat
        <4>1. rows["queue"][s] \in SlotRow
          BY <1>0 DEF RowsTyped
        <4> QED BY <1>0, <1>3, <4>1, RowFacts, DirectChatAssumption DEF ChatInv, Stamped, TurnsTyped
      <3> QED BY <1>0, <1>4, <1>5, <3>1
    <2> QED BY <1>1, <2>1 DEF Stamped
  <1>9. Orderly
    <2>1. ASSUME NEW s \in Slots("queue"), rows'["queue"][s].ttl > 0
          PROVE  rows["queue"][s].ttl > 0 /\ rows'["queue"][s].at = rows["queue"][s].at
      BY <1>0, <1>4, <1>5, <2>1
    <2> QED BY <1>0, <1>1, <1>6, <2>1 DEF Orderly, TurnsTyped
  <1>10. \A u \in Turns : Spared(u)
    BY <1>6 DEF Spared
  <1> QED BY <1>4, <1>7, <1>8, <1>9, <1>10, NobodySteps

(* Time passes; while renewals are on time no document that is kept ends.  *)
LEMMA TickKeeps ==
    ASSUME ChatInv, Tick
    PROVE  ChatInv'
  <1>0. RowsTyped /\ TurnsTyped /\ "queue" \in Pools /\ MaxNow \in Nat
    BY DirectChatAssumption DEF ChatInv, Pools
  <1>1. UNCHANGED <<guard, probe, pc, claim, faults, ahead>>
    BY DEF Tick
  <1>2. now' \in 0 .. MaxNow /\ now <= now' /\ now \in Nat
    BY <1>0 DEF Tick, TurnsTyped
  <1>3. TurnsTyped' /\ \A u \in Turns : Unmoved(u)
    BY <1>0, <1>1, <1>2 DEF TurnsTyped, Unmoved
  <1>4. /\ RowsTyped'
        /\ \A m \in Pools : \A s \in Slots(m) :
             \/ rows'[m][s] = Free /\ rows[m][s].ttl <= 1
             \/ /\ rows'[m][s].turn = rows[m][s].turn
                /\ rows'[m][s].owner = rows[m][s].owner
                /\ rows'[m][s].at = rows[m][s].at
                /\ rows[m][s].ttl > 0
    BY <1>0, TickReads DEF Tick
  <1>5. Free.owner = "none" /\ Free.at = 0 /\ Free.ttl = 0
    BY DEF Free
  <1>6. ASSUME NEW u \in Turns, NEW m \in Pools, NEW s \in Slots(m)
        PROVE  /\ Holds(u, m, s)' => Holds(u, m, s) /\ rows'[m][s].at = rows[m][s].at
               /\ Timely /\ Holds(u, m, s) => Holds(u, m, s)'
    <2>1. Holds(u, m, s)' => Holds(u, m, s) /\ rows'[m][s].at = rows[m][s].at
      BY <1>4, <1>5 DEF Holds
    <2>2. ASSUME Timely, Holds(u, m, s) PROVE Holds(u, m, s)'
      <3>1. rows[m][s].ttl > 1 /\ rows[m][s] \in SlotRow
        BY <1>0, <2>2 DEF Tick, OnTime, Holds, RowsTyped
      <3>2. rows[m][s].ttl \in Nat
        BY <3>1, RowFacts
      <3> QED BY <1>4, <2>2, <3>1, <3>2 DEF Holds
    <2> QED BY <2>1, <2>2
  <1>7. Stamped'
    <2>1. ASSUME NEW s \in Slots("queue") PROVE rows'["queue"][s].at <= now'
      <3>1. rows["queue"][s].at <= now /\ rows["queue"][s].at \in Nat
        <4>1. rows["queue"][s] \in SlotRow
          BY <1>0 DEF RowsTyped
        <4> QED BY <1>0, <4>1, RowFacts DEF ChatInv, Stamped
      <3> QED BY <1>0, <1>2, <1>4, <1>5, <3>1
    <2> QED BY <2>1 DEF Stamped
  <1>8. Orderly
    <2>1. ASSUME NEW s \in Slots("queue"), rows'["queue"][s].ttl > 0
          PROVE  rows["queue"][s].ttl > 0 /\ rows'["queue"][s].at = rows["queue"][s].at
      BY <1>0, <1>4, <1>5, <2>1
    <2> QED BY <1>0, <1>1, <1>2, <1>6, <2>1 DEF Orderly
  <1>9. \A u \in Turns : Spared(u)
    BY <1>6 DEF Spared
  <1> QED BY <1>3, <1>4, <1>7, <1>8, <1>9, NobodySteps

(* A command of the acquire loop fails, perhaps after it took effect.      *)
LEMMA AcquireFailsKeeps ==
    ASSUME ChatInv, NEW t \in Turns, NEW ns \in Pools, AcquireFails(t, ns)
    PROVE  ChatInv'
  <1>0. /\ Stage(t) /\ Documents(t) /\ Backed(t) /\ Unpassed(t) /\ TurnsTyped
        /\ pc[t] \in Stages /\ Probing(t, ns) /\ "run" \in Pools /\ "queue" \in Pools
    BY TurnFacts DEF ChatInv, AcquireFails
  <1>1. UNCHANGED <<guard, now, ahead>> /\ faults' \in 0 .. MaxFaults
    BY FaultCounted DEF AcquireFails
  <1>2. /\ claim' \in [Turns -> {"none", "acquire", "got"}] /\ claim'[t] = "none"
        /\ pc' \in [Turns -> Stages]
        /\ pc'[t] = (IF pc[t] \in {"slot", "place"} THEN "done" ELSE pc[t])
        /\ \A u \in Turns \ {t} : pc'[u] = pc[u] /\ claim'[u] = claim[u]
    BY <1>0 DEF AcquireFails, TurnsTyped, Stages
  <1>3. probe' \in [Turns -> ProbeDoc] /\ \A u \in Turns \ {t} : probe'[u] = probe[u]
    <2>1. probe' = [probe EXCEPT ![t] = NoProbe] /\ probe \in [Turns -> ProbeDoc]
      BY <1>0 DEF AcquireFails, TurnsTyped
    <2> QED BY <2>1, NoProbeTyped
  <1>4. TurnsTyped' /\ \A u \in Turns \ {t} : Unmoved(u)
    BY <1>0, <1>1, <1>2, <1>3 DEF TurnsTyped, Unmoved
  <1>5. Stage(t)' /\ First(t)' /\ \A m \in Pools : ~Probing(t, m)'
    <2>1. claim[t] # "got"
      BY <1>0 DEF Probing, Stage
    <2> QED BY <1>0, <1>1, <1>2, <2>1 DEF Stage, First, Probing
  <1>6. \A v \in Turns : pc[v] \in Past => pc'[v] \in Past
    BY <1>2 DEF Past
  <1>7. CASE rows' = rows
    <2>1. Unpassed(t)'
      BY <1>1, <1>2, <1>4, <1>6, <1>7, UnpassedStays
    <2> QED BY <1>1, <1>4, <1>5, <1>6, <1>7, <2>1, QuietStep
  <1>8. CASE probe[t].slot \notin Live(ns) /\ rows' = Written(t, ns, "orphan")
    <2>1. probe[t].slot \in Slots(ns)
      BY <1>0 DEF Documents
    <2>2. /\ RowsTyped' /\ Stamped' /\ Orderly /\ \A u \in Turns \ {t} : Spared(u)
          /\ \A m \in Pools : \A s \in Slots(m) : Holds(t, m, s)' <=> Holds(t, m, s)
      BY <1>1, <1>6, <1>8, <2>1, RowWritten
    <2>3. Documents(t)' /\ Backed(t)'
      BY <1>0, <1>1, <1>5, <2>2 DEF Documents, Backed
    <2>4. Unpassed(t)'
      <3>1. \A u \in ahead[t] : u \in Turns /\ pc[u] \in Past
        BY <1>0 DEF Unpassed, TurnsTyped
      <3>2. pc'[t] = "request" => pc[t] = "request"
        BY <1>2
      <3> QED BY <1>0, <1>1, <1>6, <2>2, <3>1, <3>2 DEF Unpassed, Orderly
    <2> QED BY <1>4, <1>5, <2>2, <2>3, <2>4, OneTurnSteps DEF TurnInv
  <1> QED BY <1>7, <1>8 DEF AcquireFails

-----------------------------------------------------------------------------
(* Every step keeps the invariant.                                         *)

LEMMA ChatInitially == Init => ChatInv
  <1> SUFFICES ASSUME Init PROVE ChatInv
    OBVIOUS
  <1>0. "run" \in Pools /\ "queue" \in Pools
    BY DEF Pools
  <1>1. RowsTyped /\ \A ns \in Pools : \A s \in Slots(ns) : rows[ns][s] = Free
    <2>1. Free \in SlotRow
      BY DEF SlotRow
    <2>2. \A ns \in Pools : rows[ns] = [s \in Slots(ns) |-> Free]
      BY DEF Init
    <2>3. rows = [ns \in Pools |-> rows[ns]]
      BY DEF Init
    <2> QED BY <2>1, <2>2, <2>3 DEF RowsTyped
  <1>2. TurnsTyped
    <2> DEFINE g == [ns \in Pools |-> "none"]
    <2>1. g \in Guards
      BY DEF Guards
    <2>2. guard \in [Turns -> Guards]
      BY <2>1 DEF Init
    <2>3. now \in 0 .. MaxNow /\ faults \in 0 .. MaxFaults
      BY DirectChatAssumption DEF Init
    <2> QED BY <2>2, <2>3, NoProbeTyped DEF Init, TurnsTyped, Stages
  <1>3. Stamped
    BY <1>0, <1>1, DirectChatAssumption DEF Stamped, Init, Free
  <1>4. ASSUME NEW t \in Turns PROVE TurnInv(t)
    <2>1. \A ns \in Pools : \A s \in Slots(ns) : ~Holds(t, ns, s)
      BY <1>1 DEF Holds, Free
    <2>2. /\ pc[t] = "idle" /\ claim[t] = "none" /\ ahead[t] = {}
          /\ guard[t]["run"] = "none" /\ guard[t]["queue"] = "none"
          /\ \A ns \in Pools : guard[t][ns] = "none"
      BY <1>0 DEF Init
    <2> QED BY <2>1, <2>2 DEF TurnInv, Stage, Documents, Probing, Backed, Unpassed, First
  <1> QED BY <1>1, <1>2, <1>3, <1>4 DEF ChatInv

LEMMA ChatStep == ChatInv /\ [Next]_vars => ChatInv'
  <1> SUFFICES ASSUME ChatInv, [Next]_vars PROVE ChatInv'
    OBVIOUS
  <1>1. ASSUME NEW t \in Turns, TurnStep(t) PROVE ChatInv'
    <2>1. CASE Refuse(t)
      BY <2>1, EndAdmissionKeeps DEF Refuse
    <2>2. CASE \E ns \in Pools : Miss(t, ns)
      BY <2>2, MissKeeps
    <2> QED BY <1>1, <2>1, <2>2, TakeFirstKeeps, AskPlaceKeeps, CheckLineKeeps, TakePlaceKeeps,
               AdmitRequestKeeps, CheckOldestKeeps, ClaimHitKeeps, ClaimNothingKeeps,
               TakeSlotKeeps, DropClaimKeeps, FinishKeeps DEF TurnStep
  <1>2. ASSUME NEW t \in Turns, Abort(t) PROVE ChatInv'
    BY <1>2, EndAdmissionKeeps DEF Abort
  <1>3. ASSUME NEW t \in Turns, NEW ns \in Pools,
               Renew(t, ns) \/ RenewFails(t, ns) \/ AcquireFails(t, ns)
        PROVE  ChatInv'
    BY <1>3, RenewalKeeps, AcquireFailsKeeps
  <1>4. ASSUME NEW ns \in Pools, NEW s \in Slots(ns), Release(ns, s) \/ ReleaseFails(ns, s)
        PROVE  ChatInv'
    BY <1>4, ReleaseKeeps
  <1>5. CASE UNCHANGED vars
    <2>1. rows' = rows /\ UNCHANGED <<guard, probe, pc, claim, now, faults, ahead>>
      BY <1>5 DEF vars
    <2>2. RowsTyped' /\ Stamped' /\ Orderly /\ \A u \in Turns : Spared(u)
      BY <2>1, RowsRest
    <2>3. TurnsTyped' /\ \A u \in Turns : Unmoved(u)
      BY <2>1 DEF ChatInv, TurnsTyped, Unmoved
    <2> QED BY <2>2, <2>3, NobodySteps
  <1> QED BY <1>1, <1>2, <1>3, <1>4, <1>5, ArriveKeeps, LeaveKeeps, CrashKeeps, TickKeeps DEF Next

(* The inductive invariant of slots, places and admissions.                *)
THEOREM ChatInvariant == Spec => []ChatInv
  BY ChatInitially, ChatStep, PTL DEF Spec

(* A turn keeps one document of a pool at most.                            *)
LEMMA ChatTyped == ChatInv => TypeOK
  <1> SUFFICES ASSUME ChatInv PROVE TypeOK
    OBVIOUS
  <1>1. ASSUME NEW t \in Turns, NEW ns \in Pools
        PROVE  /\ Probing(t, ns) => probe[t].slot \in Slots(ns)
               /\ Cardinality(Kept(t, ns)) <= 1
               /\ Kept(t, ns) # {} => guard[t][ns] # "none"
    <2>1. Documents(t)
      BY TurnFacts
    <2>2. \A s, u \in Kept(t, ns) : s = u
      BY <2>1 DEF Documents, Kept, Holds
    <2>3. CASE Kept(t, ns) = {}
      BY <2>1, <2>3, FS_EmptySet DEF Documents
    <2>4. CASE Kept(t, ns) # {}
      <3>1. PICK s : s \in Kept(t, ns)
        BY <2>4
      <3>2. Kept(t, ns) = {s}
        BY <2>2, <3>1
      <3>3. Cardinality(Kept(t, ns)) = 1
        BY <3>2, FS_Singleton
      <3>4. guard[t][ns] # "none"
        BY <2>1, <3>1 DEF Documents, Kept, Holds
      <3> QED BY <2>1, <3>3, <3>4 DEF Documents
    <2> QED BY <2>3, <2>4
  <1>2. \A ns \in Pools : rows[ns] \in [Slots(ns) -> SlotRow]
    BY DEF ChatInv, RowsTyped
  <1> QED BY <1>1, <1>2 DEF TypeOK, ChatInv, TurnsTyped, Guards, ProbeDoc, Stages

(* Every variable keeps its type, the acquire loop probes slots that       *)
(* exist, and every document that is kept has its guard                    *)
(* (SlotStore::acquire, RenewableSlotGuard).                               *)
THEOREM ChatIsTyped == Spec => []TypeOK
  BY ChatInvariant, ChatTyped, PTL

(* Running turns have running slots of their own, so there are no more of  *)
(* them than slots.                                                        *)
LEMMA ChatCapacity == ChatInv => Capacity
  <1> SUFFICES ASSUME ChatInv, Timely
               PROVE  Cardinality({t \in Turns : pc[t] = "running"}) <= MaxInFlight
    BY DEF Capacity
  <1> DEFINE R == {t \in Turns : pc[t] = "running"}
             f == [t \in R |-> CHOOSE s \in Slots("run") : Holds(t, "run", s)]
  <1>1. ASSUME NEW t \in R PROVE f[t] \in Slots("run") /\ Holds(t, "run", f[t])
    <2>1. \E s \in Slots("run") : Holds(t, "run", s)
      BY TurnFacts DEF Stage, Backed
    <2> QED BY <2>1
  <1>2. f \in [R -> Slots("run")]
    BY <1>1
  <1> HIDE DEF f
  <1>3. ASSUME NEW t \in R, NEW u \in R, f[t] = f[u] PROVE t = u
    BY <1>1, <1>3 DEF Holds
  <1>4. f \in Injection(R, Slots("run"))
    BY <1>2, <1>3 DEF Injection, IsInjective
  <1>5. /\ IsFiniteSet(Slots("run")) /\ Cardinality(Slots("run")) = MaxInFlight
    <2>1. MaxInFlight \in Nat \ {0} /\ Slots("run") = 0 .. MaxInFlight - 1
      BY PoolFacts, DirectChatAssumption
    <2>2. 0 \in Int /\ MaxInFlight - 1 \in Int /\ ~(0 > MaxInFlight - 1)
          /\ MaxInFlight - 1 - 0 + 1 = MaxInFlight
      BY <2>1
    <2> QED BY <2>1, <2>2, FS_Interval
  <1>6. Cardinality(R) <= Cardinality(Slots("run"))
    BY <1>4, <1>5, FS_Injection
  <1> QED BY <1>5, <1>6

(* While renewals and cancellations are on time, a person never has more   *)
(* than MaxInFlight replies running at once, over all replicas             *)
(* (try_acquire, admit, take_slot).                                        *)
THEOREM ChatWithinCapacity == Spec => []Capacity
  BY ChatInvariant, ChatCapacity, PTL

(* The two steps by which a turn starts to run.                            *)
LEMMA ChatLineKept == ChatInv /\ [Next]_vars => OvertakesNobody
  <1> SUFFICES ASSUME ChatInv, [Next]_vars, NEW t \in QueueTurns,
                      pc[t] # "running", pc'[t] = "running", NEW u \in ahead[t]
               PROVE  ~LiveGuard(u, "queue")
    BY DEF OvertakesNobody
  <1>0. t \in Turns /\ Stage(t) /\ Unpassed(t) /\ First(t) /\ pc \in [Turns -> Stages]
    BY TurnFacts DEF Turns, ChatInv, TurnsTyped
  <1>1. AdmitRequest(t) \/ TakeSlot(t)
    <2>1. ASSUME NEW v \in Turns, TurnStep(v) PROVE AdmitRequest(t) \/ TakeSlot(t)
      BY <1>0, <2>1 DEF TurnStep, TakeFirst, AskPlace, CheckLine, TakePlace, Refuse,
         EndAdmission, AdmitRequest, CheckOldest, ClaimHit, ClaimNothing, TakeSlot,
         DropClaim, Finish, Miss
    <2>2. ASSUME NEW v \in Turns, Arrive(v) \/ Abort(v) \/ Leave(v) \/ Crash(v) PROVE FALSE
      BY <1>0, <2>2 DEF Arrive, Abort, EndAdmission, Leave, Crash
    <2>3. ASSUME NEW v \in Turns, NEW ns \in Pools,
                 Renew(v, ns) \/ RenewFails(v, ns) \/ AcquireFails(v, ns)
          PROVE  FALSE
      BY <1>0, <2>3 DEF Renew, RenewFails, AcquireFails
    <2>4. ASSUME NEW ns \in Pools, NEW s \in Slots(ns), Release(ns, s) \/ ReleaseFails(ns, s)
          PROVE  FALSE
      BY <2>4 DEF Release, ReleaseFails
    <2>5. ~Tick /\ ~UNCHANGED vars
      BY DEF Tick, vars
    <2> QED BY <2>1, <2>2, <2>3, <2>4, <2>5 DEF Next
  <1>2. CASE AdmitRequest(t)
    <2>1. pc[t] = "request" /\ guard[t]["run"] # "none"
      BY <1>0, <1>2 DEF AdmitRequest
    <2> QED BY <1>0, <2>1 DEF Unpassed, LiveGuard, Kept, Holds
  <1>3. CASE TakeSlot(t)
    BY <1>0, <1>3 DEF TakeSlot, First
  <1> QED BY <1>1, <1>2, <1>3

(* A turn that starts to run overtakes nobody that was in line, with a     *)
(* place still live, when its running slot was taken, even when slots and  *)
(* places expire under their guards (admit, claim_slot, take_slot).        *)
THEOREM ChatKeepsTheLine == Spec => [][OvertakesNobody]_vars
<1>1. ChatInv /\ [Next]_vars => [OvertakesNobody]_vars
  BY ChatLineKept
<1> QED BY <1>1, ChatInvariant, PTL DEF Spec
=============================================================================
