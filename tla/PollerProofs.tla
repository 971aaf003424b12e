---------------------------- MODULE PollerProofs ----------------------------
(***************************************************************************)
(* The Telegram poller loses no update and moves its durable offset only   *)
(* forward, for any number of replicas, grants, updates and writes that    *)
(* outlive their caller.                                                   *)
(*                                                                         *)
(* Whatever a replica, the lease document or a late write counts as done   *)
(* has been handled.  A grant that was lost is lost for good: no operation *)
(* on the document makes a token active that was not, except the one that  *)
(* draws a fresh id.  So the only ones that can move the checkpoint are    *)
(* the leader, and one write of a leader that is gone, and each of them    *)
(* would move it forward.                                                  *)
(***************************************************************************)
EXTENDS TelegramPoller, TLAPS

(* Every update below n has been handled.                                  *)
Handled(n) == \A u \in Updates : u < n => u \in processed

(* What a replica counts as done has been done.                            *)
Done(r) ==
    /\ Handled(offset[r])
    /\ pc[r] \in {"process", "store"} =>
          /\ head[r] \in Updates /\ head[r] <= last[r] /\ offset[r] <= head[r]
          /\ Handled(head[r])
    /\ pc[r] = "store" => head[r] \in processed

(* A leader has a grant, and no write of it outlived its caller.           *)
Granted(r) ==
    /\ pc[r] # "idle" => grant[r] \in LeaseIds
    /\ pc[r] \in Leading => \A m \in inFlight : m.token # Token(r)

(* The leader would move the checkpoint forward.                           *)
Forward(r) == pc[r] \in {"poll", "process", "store"} /\ Leads(r) => DurableOffset <= offset[r]

(* A replica that handled an update after it lost the lease handles no     *)
(* other under the same grant.                                             *)
Deposed(r) == stale[r] # 0 => /\ stale[r] = 1 /\ ~Leads(r)
                              /\ pc[r] \in {"store", "delete", "expire"}

ReplicaInv(r) == Done(r) /\ Granted(r) /\ Forward(r) /\ Deposed(r)

(* A write that outlived its caller would move the checkpoint forward, to  *)
(* what has been handled; a grant has one such write at most.              *)
WriteInv ==
    /\ \A m \in inFlight : /\ Handled(m.checkpoint)
                           /\ Active(lease, m.token) => DurableOffset <= m.checkpoint
    /\ \A m, n \in inFlight : m.token = n.token => m = n

(* What the document says has been handled; if it may be removed, it says  *)
(* nothing.                                                                *)
DurableInv ==
    /\ Handled(DurableOffset)
    /\ (lease # Absent /\ lease.record_kind = "ephemeral") => lease.checkpoint = NoCheckpoint

PollerInv == /\ TypeOK /\ (\A r \in Holders : ReplicaInv(r))
             /\ WriteInv /\ DurableInv /\ NoUpdateLost

-----------------------------------------------------------------------------
(* The lease document.                                                     *)

AnyToken == [holder : Holders, lease_id : LeaseIds \cup {NoLease}]
Write == [token : LeaseToken, checkpoint : Checkpoints]

LEMMA Numbers ==
    /\ MaxUpdates \in Nat /\ Checkpoints = 1 .. (MaxUpdates + 1) /\ 0 \notin Checkpoints
    /\ NoCheckpoint \notin Checkpoints /\ Absent \notin Document /\ TTL \in Nat \ {0}
BY PollerAssumption, SentinelAssumption, TTLAssumption

LEMMA TokenType ==
    ASSUME TypeOK, NEW r \in Holders
    PROVE  /\ Token(r) \in AnyToken /\ Token(r).holder = r /\ Token(r).lease_id = grant[r]
           /\ grant[r] \in LeaseIds => Token(r) \in LeaseToken
BY DEF TypeOK, Token, AnyToken, LeaseToken

LEMMA OffsetType ==
    ASSUME lease \in Document \cup {Absent}
    PROVE  /\ DurableOffset \in 0 .. (MaxUpdates + 1)
           /\ lease # Absent /\ lease.checkpoint # NoCheckpoint =>
                 DurableOffset = lease.checkpoint /\ lease.checkpoint \in Checkpoints
           /\ (lease = Absent \/ lease.checkpoint = NoCheckpoint) => DurableOffset = 0
<1>1. lease # Absent => lease.checkpoint \in Checkpoints \cup {NoCheckpoint}
  BY DEF Document
<1> QED BY <1>1, Numbers DEF DurableOffset

(* A step that leaves the offset alone and makes no token active.          *)
LeaseRests ==
    /\ lease' \in Document \cup {Absent}
    /\ DurableOffset' = DurableOffset
    /\ \A t \in AnyToken : Active(lease', t) => Active(lease, t)
    /\ (lease' # Absent /\ lease'.record_kind = "ephemeral") => lease'.checkpoint = NoCheckpoint

LEMMA UnchangedRests == PollerInv /\ UNCHANGED lease => LeaseRests
BY DEF PollerInv, TypeOK, DurableInv, LeaseRests, DurableOffset

(* Only the term of the document changes, and not to revive it.            *)
LEMMA TermRests ==
    ASSUME PollerInv, lease # Absent, NEW n \in 0 .. TTL,
           lease' = [lease EXCEPT !.left = n], n > 0 => lease.left > 0
    PROVE  LeaseRests
<1>1. lease \in Document
  BY DEF PollerInv, TypeOK
<1>2. /\ lease' \in Document /\ lease'.holder = lease.holder /\ lease'.left = n
      /\ lease'.lease_id = lease.lease_id /\ lease'.record_kind = lease.record_kind
      /\ lease'.checkpoint = lease.checkpoint
  BY <1>1 DEF Document
<1>3. lease' # Absent
  BY <1>2, Numbers
<1>4. \A t \in AnyToken : Active(lease', t) => Active(lease, t)
  BY <1>2, <1>3 DEF Active, Exact
<1> QED BY <1>2, <1>3, <1>4 DEF LeaseRests, DurableOffset, PollerInv, DurableInv

(* A document without a checkpoint is removed.                             *)
LEMMA RemovalRests ==
    ASSUME PollerInv, lease # Absent, lease.checkpoint = NoCheckpoint, lease' = Absent
    PROVE  LeaseRests
<1>1. \A t \in AnyToken : ~Active(lease', t)
  BY DEF Active, Exact
<1> QED BY <1>1 DEF LeaseRests, DurableOffset

LEMMA RenewedRests ==
    ASSUME PollerInv, NEW r \in Holders, Leads(r), lease' = Renewed(lease)
    PROVE  LeaseRests
BY TermRests, Numbers DEF Leads, Active, Exact, Renewed, FullTerm

(* The checkpoint that a write leaves.                                     *)
LEMMA StoredOffset ==
    ASSUME PollerInv, lease # Absent, NEW c \in Checkpoints, lease' = Stored(lease, c)
    PROVE  /\ lease' \in Document /\ lease' # Absent /\ DurableOffset' = c
           /\ lease'.record_kind # "ephemeral"
           /\ \A t \in AnyToken : Active(lease', t) => Active(lease, t)
<1>1. lease \in Document
  BY DEF PollerInv, TypeOK
<1>2. /\ lease' \in Document /\ lease'.holder = lease.holder /\ lease'.left = lease.left
      /\ lease'.lease_id = lease.lease_id /\ lease'.record_kind = "checkpoint"
      /\ lease'.checkpoint = c
  BY <1>1 DEF Document, Stored
<1>3. lease' # Absent /\ c # NoCheckpoint
  BY <1>2, Numbers
<1> QED BY <1>2, <1>3 DEF DurableOffset, Active, Exact

(* A claim under a fresh id: nobody else's token is active.                *)
LEMMA ClaimedOffset ==
    ASSUME PollerInv, NEW r \in Holders, NEW i \in FreeIds,
           lease' = Claimed(lease, [holder |-> r, lease_id |-> i])
    PROVE  /\ lease' \in Document /\ DurableOffset' = DurableOffset
           /\ (lease'.record_kind = "ephemeral") => lease'.checkpoint = NoCheckpoint
           /\ \A t \in AnyToken : t.lease_id # i => ~Active(lease', t)
<1>1. i \in LeaseIds /\ lease \in Document \cup {Absent}
  BY DEF PollerInv, TypeOK, FreeIds
<1>2. /\ lease' \in Document /\ lease'.lease_id = i
      /\ lease'.record_kind = (IF lease = Absent THEN "ephemeral" ELSE lease.record_kind)
      /\ lease'.checkpoint = (IF lease = Absent THEN NoCheckpoint ELSE lease.checkpoint)
  BY <1>1, Numbers DEF Document, Claimed, FullTerm
<1>3. lease' # Absent
  BY <1>2, Numbers
<1>4. \A t \in AnyToken : t.lease_id # i => ~Active(lease', t)
  BY <1>2 DEF Active, Exact
<1> QED BY <1>2, <1>3, <1>4 DEF DurableOffset, PollerInv, DurableInv

-----------------------------------------------------------------------------
(* What a step leaves alone.                                               *)

SameAt(s) == /\ pc'[s] = pc[s] /\ grant'[s] = grant[s] /\ offset'[s] = offset[s]
             /\ head'[s] = head[s] /\ last'[s] = last[s] /\ stale'[s] = stale[s]

LEMMA StillHandled ==
    ASSUME processed \subseteq processed', NEW n, Handled(n)
    PROVE  \A u \in Updates : u < n => u \in processed'
BY DEF Handled

LEMMA OtherKeeps ==
    ASSUME PollerInv, NEW s \in Holders, SameAt(s), processed \subseteq processed',
           \A m \in inFlight' : m \in inFlight \/ m.token.holder # s,
           Leads(s)' => Leads(s),
           pc[s] \in Leading /\ Leads(s)' => DurableOffset' = DurableOffset
    PROVE  ReplicaInv(s)'
<1>1. ReplicaInv(s) /\ TypeOK
  BY DEF PollerInv
<1>2. Token(s)' = Token(s) /\ Token(s).holder = s
  BY DEF SameAt, Token
<1>3. Done(s)'
  BY <1>1, StillHandled DEF ReplicaInv, Done, SameAt, Handled
<1>4. Granted(s)'
  BY <1>1, <1>2 DEF ReplicaInv, Granted, SameAt
<1>5. Forward(s)'
  BY <1>1 DEF ReplicaInv, Forward, SameAt, Leading
<1>6. Deposed(s)'
  BY <1>1 DEF ReplicaInv, Deposed, SameAt
<1> QED BY <1>3, <1>4, <1>5, <1>6 DEF ReplicaInv

LEMMA WritesKeep ==
    ASSUME PollerInv, inFlight' \subseteq inFlight, processed \subseteq processed',
           \A m \in inFlight' : Active(lease', m.token) =>
                                   Active(lease, m.token) /\ DurableOffset' = DurableOffset
    PROVE  WriteInv'
BY StillHandled DEF PollerInv, WriteInv, Handled

(* A write joins those that outlive their callers.                         *)
LEMMA AbandonedWrite ==
    ASSUME PollerInv, NEW r \in Holders, Abandon(r), LeaseRests, processed \subseteq processed'
    PROVE  /\ WriteInv' /\ inFlight' \in SUBSET Write
           /\ \A m \in inFlight' : m \in inFlight \/ m.token.holder = r
<1>0. TypeOK /\ ReplicaInv(r) /\ WriteInv /\ inFlight \in SUBSET Write
  BY DEF PollerInv, TypeOK, Write
<1>1. \A m \in inFlight : m.token \in AnyToken
  BY <1>0 DEF Write, LeaseToken, AnyToken
<1>2. CASE UNCHANGED inFlight
  <2>1. WriteInv'
    BY <1>1, <1>2, WritesKeep DEF LeaseRests
  <2> QED BY <1>0, <1>2, <2>1
<1>3. CASE ~UNCHANGED inFlight
  <2> DEFINE m == [token |-> Token(r), checkpoint |-> NextOffset(head[r])]
  <2>1. pc[r] = "store" /\ inFlight' = inFlight \cup {m}
    BY <1>3 DEF Abandon
  <2>2. /\ head[r] \in Updates /\ offset[r] <= head[r] /\ head[r] \in processed
        /\ Handled(head[r]) /\ grant[r] \in LeaseIds /\ offset[r] \in Nat
        /\ \A n \in inFlight : n.token # Token(r)
        /\ Leads(r) => DurableOffset <= offset[r]
    BY <1>0, <2>1, Numbers
    DEF TypeOK, ReplicaInv, Done, Granted, Forward, Leading
  <2>3. Token(r) \in LeaseToken /\ Token(r) \in AnyToken /\ Token(r).holder = r
    BY <1>0, <2>2, TokenType
  <2>4. head[r] + 1 \in Checkpoints /\ NextOffset(head[r]) = head[r] + 1
    BY <2>2, Numbers DEF Updates, NextOffset
  <2>5. m \in Write /\ m.token = Token(r) /\ m.checkpoint = head[r] + 1
    BY <2>3, <2>4 DEF Write
  <2> HIDE DEF m
  <2>6. \A u \in Updates : u < m.checkpoint => u \in processed'
    BY <2>2, <2>5, Numbers DEF Handled, Updates
  <2>7. Active(lease', m.token) => DurableOffset' <= m.checkpoint
    <3>1. DurableOffset \in Nat
      BY <1>0, OffsetType, Numbers DEF TypeOK
    <3>2. Active(lease', m.token) => Leads(r)
      BY <2>3, <2>5 DEF LeaseRests, Leads
    <3>3. head[r] \in Nat
      BY <2>2 DEF Updates
    <3> QED BY <2>2, <2>5, <3>1, <3>2, <3>3 DEF LeaseRests
  <2>8. \A n \in inFlight : n.token # m.token
    BY <2>2, <2>5
  <2>9. ASSUME NEW n \in inFlight
        PROVE  /\ \A u \in Updates : u < n.checkpoint => u \in processed'
               /\ Active(lease', n.token) => DurableOffset' <= n.checkpoint
    BY <1>0, <1>1 DEF WriteInv, Handled, LeaseRests
  <2>10. WriteInv'
    BY <1>0, <2>1, <2>6, <2>7, <2>8, <2>9 DEF WriteInv, Handled
  <2> QED BY <1>0, <2>1, <2>3, <2>5, <2>10
<1> QED BY <1>2, <1>3

(* A step of one replica that leaves the offset alone.                     *)
LEMMA ReplicaStep ==
    ASSUME PollerInv, NEW r \in Holders, TypeOK', LeaseRests, Abandon(r),
           processed \subseteq processed', NoUpdateLost',
           \A s \in Holders : s # r => SameAt(s),
           ReplicaInv(r)'
    PROVE  PollerInv'
<1>1. /\ WriteInv' /\ \A m \in inFlight' : m \in inFlight \/ m.token.holder = r
  BY AbandonedWrite
<1>2. ASSUME NEW s \in Holders, s # r PROVE ReplicaInv(s)'
  <2>1. Token(s)' = Token(s) /\ Token(s) \in AnyToken
    BY <1>2, TokenType DEF Token, SameAt, PollerInv
  <2>2. Leads(s)' => Leads(s)
    BY <2>1 DEF Leads, LeaseRests
  <2> QED BY <1>1, <1>2, <2>2, OtherKeeps DEF LeaseRests
<1>3. DurableInv'
  BY DEF PollerInv, DurableInv, LeaseRests, Handled
<1> QED BY <1>1, <1>2, <1>3 DEF PollerInv

-----------------------------------------------------------------------------
(* The actions.                                                            *)

(* No replica does anything; the document may age, a late write get lost.  *)
LEMMA RestingStep ==
    ASSUME PollerInv, LeaseRests, UNCHANGED <<pc, grant, batchVars, historyVars, confirmed>>,
           inFlight' \subseteq inFlight, sent' \in 0 .. MaxUpdates
    PROVE  PollerInv'
<1>0. TypeOK /\ NoUpdateLost /\ DurableInv /\ \A m \in inFlight : m.token \in AnyToken
  BY DEF PollerInv, TypeOK, LeaseToken, AnyToken
<1>1. TypeOK'
  BY <1>0 DEF TypeOK, LeaseRests, batchVars, historyVars
<1>2. WriteInv'
  BY <1>0, WritesKeep DEF LeaseRests, historyVars
<1>3. ASSUME NEW s \in Holders PROVE ReplicaInv(s)'
  <2>1. SameAt(s) /\ Token(s)' = Token(s) /\ Token(s) \in AnyToken
    BY <1>0, TokenType DEF SameAt, batchVars, historyVars, Token
  <2>2. Leads(s)' => Leads(s)
    BY <2>1 DEF Leads, LeaseRests
  <2> QED BY <2>1, <2>2, OtherKeeps DEF LeaseRests, historyVars
<1>4. DurableInv' /\ NoUpdateLost'
  BY <1>0 DEF DurableInv, LeaseRests, Handled, NoUpdateLost, historyVars
<1> QED BY <1>1, <1>2, <1>3, <1>4 DEF PollerInv

(* A replica forgets its leadership.                                       *)
LEMMA ForgettingStep ==
    ASSUME PollerInv, NEW r \in Holders, LeaseRests, Abandon(r), Goto(r, "idle"), Forget(r),
           UNCHANGED <<telegramVars, processed>>
    PROVE  PollerInv'
<1>0. TypeOK /\ NoUpdateLost
  BY DEF PollerInv
<1>1. inFlight' \in SUBSET Write
  BY AbandonedWrite
<1>2. TypeOK'
  BY <1>0, <1>1, Numbers DEF TypeOK, LeaseRests, Goto, Forget, telegramVars, Write
<1>3. /\ pc'[r] = "idle" /\ offset'[r] = 0 /\ stale'[r] = 0
      /\ \A s \in Holders : s # r => SameAt(s)
  BY <1>0 DEF TypeOK, Goto, Forget, SameAt
<1>4. ReplicaInv(r)'
  BY <1>3, Numbers
  DEF ReplicaInv, Done, Granted, Forward, Deposed, Handled, Updates, Leading
<1>5. NoUpdateLost'
  BY <1>0 DEF NoUpdateLost, telegramVars
<1> QED BY <1>2, <1>3, <1>4, <1>5, ReplicaStep

(* A replica gives up its work, with or without its lease.                 *)
LEMMA GivingUp ==
    ASSUME PollerInv, NEW r \in Holders, NEW label \in Releasing, LeaseRests, Abandon(r),
           pc[r] # "idle", Goto(r, label),
           UNCHANGED <<grant, batchVars, telegramVars, historyVars>>
    PROVE  PollerInv'
<1>0. TypeOK /\ NoUpdateLost /\ ReplicaInv(r)
  BY DEF PollerInv
<1>1. inFlight' \in SUBSET Write
  BY AbandonedWrite DEF historyVars
<1>2. TypeOK'
  BY <1>0, <1>1 DEF TypeOK, LeaseRests, Goto, batchVars, telegramVars, historyVars, Write
<1>3. /\ pc'[r] = label /\ pc'[r] \in {"delete", "expire"} /\ offset'[r] = offset[r]
      /\ stale'[r] = stale[r] /\ grant'[r] = grant[r]
      /\ \A s \in Holders : s # r => SameAt(s)
  BY <1>0 DEF TypeOK, Goto, batchVars, historyVars, SameAt, Releasing
<1>4. Leads(r)' => Leads(r)
  <2>1. Token(r)' = Token(r) /\ Token(r) \in AnyToken
    BY <1>0, <1>3, TokenType DEF Token
  <2> QED BY <2>1 DEF Leads, LeaseRests
<1>5. ReplicaInv(r)'
  BY <1>0, <1>3, <1>4
  DEF ReplicaInv, Done, Granted, Forward, Deposed, Handled, historyVars, Leading
<1>6. NoUpdateLost'
  BY <1>0 DEF NoUpdateLost, telegramVars, historyVars
<1> QED BY <1>2, <1>3, <1>5, <1>6, ReplicaStep DEF historyVars

LEMMA StartKeeps == ASSUME PollerInv, NEW r \in Holders, Start(r) PROVE PollerInv'
<1>0. TypeOK /\ NoUpdateLost /\ ReplicaInv(r) /\ DurableInv
  BY DEF PollerInv
<1>1. LeaseRests /\ Abandon(r)
  BY UnchangedRests DEF Start, Abandon
<1> DEFINE n == IF Loaded(lease, Token(r)) = NoCheckpoint THEN 0 ELSE Loaded(lease, Token(r))
<1>2. /\ n \in 0 .. (MaxUpdates + 1) /\ (Leads(r) => n = DurableOffset)
      /\ (~Leads(r) => n = 0)
  <2>1. DurableOffset \in 0 .. (MaxUpdates + 1) /\ 0 \in 0 .. (MaxUpdates + 1)
    BY <1>0, OffsetType, Numbers DEF TypeOK
  <2>2. Leads(r) => lease # Absent /\ Loaded(lease, Token(r)) = lease.checkpoint
    BY DEF Loaded, Leads, Active, Exact
  <2>3. ~Leads(r) => Loaded(lease, Token(r)) = NoCheckpoint
    BY DEF Loaded, Leads
  <2> QED BY <2>1, <2>2, <2>3 DEF DurableOffset
<1>3. /\ offset' = [offset EXCEPT ![r] = n] /\ pc' = [pc EXCEPT ![r] = "poll"] /\ pc[r] = "start"
  BY DEF Start, Goto
<1> HIDE DEF n
<1>4. /\ offset'[r] = n /\ pc'[r] = "poll" /\ grant'[r] = grant[r] /\ stale'[r] = stale[r]
      /\ \A s \in Holders : s # r => SameAt(s)
  BY <1>0, <1>3 DEF TypeOK, Start, SameAt, historyVars
<1>5. TypeOK'
  BY <1>0, <1>2, <1>3 DEF TypeOK, Start, Leading, telegramVars, historyVars
<1>6. /\ Leads(r)' = Leads(r) /\ DurableOffset' = DurableOffset /\ processed' = processed
      /\ Token(r)' = Token(r) /\ UNCHANGED <<inFlight, confirmed>>
  BY <1>4 DEF Start, Leads, Token, DurableOffset, historyVars, telegramVars
<1>7. Handled(offset[r])'
  BY <1>0, <1>2, <1>4, <1>6, Numbers DEF Handled, DurableInv, Updates
<1>8. Done(r)' /\ Granted(r)'
  BY <1>0, <1>3, <1>4, <1>6, <1>7 DEF Done, ReplicaInv, Granted, Leading
<1>9. Forward(r)' /\ Deposed(r)'
  <2>1. DurableOffset \in Nat
    BY <1>0, OffsetType, Numbers DEF TypeOK
  <2> QED BY <1>0, <1>2, <1>3, <1>4, <1>6, <2>1 DEF ReplicaInv, Forward, Deposed
<1>10. NoUpdateLost' /\ processed \subseteq processed'
  BY <1>0, <1>6 DEF NoUpdateLost
<1> QED BY <1>1, <1>4, <1>5, <1>8, <1>9, <1>10, ReplicaStep DEF ReplicaInv

(* Asking for what follows the offset confirms what is below it, all of    *)
(* which has been handled.                                                 *)
LEMMA PollKeeps ==
    ASSUME PollerInv, NEW r \in Holders, Poll(r) \/ PollEmpty(r) PROVE PollerInv'
<1> DEFINE from == IF offset[r] > confirmed THEN offset[r] ELSE confirmed
<1>0. TypeOK /\ NoUpdateLost /\ ReplicaInv(r) /\ DurableInv
  BY DEF PollerInv
<1>1. LeaseRests /\ Abandon(r) /\ pc[r] = "poll"
  BY UnchangedRests DEF Poll, PollEmpty, Abandon
<1>2. /\ from \in 1 .. (MaxUpdates + 1) /\ Handled(from) /\ offset[r] <= from
      /\ offset[r] \in Nat /\ sent \in 0 .. MaxUpdates
  BY <1>0, Numbers DEF TypeOK, NoUpdateLost, ReplicaInv, Done, Handled, Updates
<1>3. /\ confirmed' = from
      /\ UNCHANGED <<lease, grant, offset, inFlight, sent, processed, stale>>
  BY DEF Poll, PollEmpty, batchVars, historyVars
<1>4. /\ Leads(r)' = Leads(r) /\ DurableOffset' = DurableOffset /\ Token(r)' = Token(r)
      /\ processed \subseteq processed'
  BY <1>3 DEF Leads, Token, DurableOffset
<1> HIDE DEF from
<1>5. NoUpdateLost'
  BY <1>2, <1>3 DEF NoUpdateLost, Handled
<1>6. CASE PollEmpty(r)
  <2>1. UNCHANGED <<pc, head, last>>
    BY <1>6 DEF PollEmpty, batchVars
  <2>2. TypeOK'
    BY <1>0, <1>2, <1>3, <2>1 DEF TypeOK
  <2>3. \A s \in Holders : SameAt(s)
    BY <1>3, <2>1 DEF SameAt
  <2>4. ReplicaInv(r)'
    BY <1>0, <1>3, <1>4, <2>1
    DEF ReplicaInv, Done, Granted, Forward, Deposed, Handled
  <2> QED BY <1>1, <1>4, <1>5, <2>2, <2>3, <2>4, ReplicaStep
<1>7. CASE Poll(r)
  <2>1. PICK to \in from .. sent : last' = [last EXCEPT ![r] = to]
    BY <1>7 DEF Poll, from
  <2>2. /\ from <= sent /\ head' = [head EXCEPT ![r] = from]
        /\ pc' = [pc EXCEPT ![r] = "process"]
    BY <1>7 DEF Poll, Goto, from
  <2>3. to \in 0 .. MaxUpdates /\ from \in Updates /\ from <= to
    BY <1>2, <2>1, <2>2, Numbers DEF Updates
  <2>4. TypeOK'
    BY <1>0, <1>2, <1>3, <2>1, <2>2, <2>3 DEF TypeOK, Leading
  <2>5. /\ pc'[r] = "process" /\ head'[r] = from /\ last'[r] = to
        /\ \A s \in Holders : s # r => SameAt(s)
    BY <1>0, <1>3, <2>1, <2>2 DEF TypeOK, SameAt
  <2>6. Done(r)'
    BY <1>0, <1>2, <1>3, <2>3, <2>5 DEF ReplicaInv, Done, Handled
  <2>7. Granted(r)' /\ Forward(r)' /\ Deposed(r)'
    BY <1>0, <1>1, <1>3, <1>4, <2>5 DEF ReplicaInv, Granted, Forward, Deposed, Leading
  <2> QED BY <1>1, <1>4, <1>5, <2>4, <2>5, <2>6, <2>7, ReplicaStep DEF ReplicaInv
<1> QED BY <1>6, <1>7

LEMMA ProcessKeeps == ASSUME PollerInv, NEW r \in Holders, Process(r) PROVE PollerInv'
<1>0. TypeOK /\ NoUpdateLost /\ ReplicaInv(r)
  BY DEF PollerInv
<1>1. LeaseRests /\ Abandon(r) /\ pc[r] = "process" /\ stale[r] = 0
  BY <1>0, UnchangedRests DEF Process, Abandon, ReplicaInv, Deposed
<1> DEFINE n == IF Leads(r) THEN 0 ELSE 1
<1>2. /\ stale' = [stale EXCEPT ![r] = n] /\ pc' = [pc EXCEPT ![r] = "store"]
      /\ processed' = processed \cup {head[r]}
      /\ UNCHANGED <<lease, grant, offset, head, last, inFlight, sent, confirmed>>
  BY <1>0, <1>1 DEF TypeOK, Process, Goto, batchVars, telegramVars
<1>3. head[r] \in Updates
  BY <1>0, <1>1 DEF ReplicaInv, Done
<1>4. TypeOK'
  BY <1>0, <1>2, <1>3 DEF TypeOK, Leading
<1>5. /\ pc'[r] = "store" /\ stale'[r] = n /\ \A s \in Holders : s # r => SameAt(s)
  BY <1>0, <1>2 DEF TypeOK, SameAt
<1>6. Leads(r)' = Leads(r) /\ DurableOffset' = DurableOffset /\ Token(r)' = Token(r)
  BY <1>2 DEF Leads, Token, DurableOffset
<1>7. Done(r)'
  BY <1>0, <1>1, <1>2, <1>3, <1>5 DEF ReplicaInv, Done, Handled
<1>8. Granted(r)' /\ Forward(r)' /\ Deposed(r)'
  BY <1>0, <1>1, <1>2, <1>5, <1>6 DEF ReplicaInv, Granted, Forward, Deposed, Leading
<1>9. NoUpdateLost' /\ processed \subseteq processed'
  BY <1>0, <1>2 DEF NoUpdateLost
<1> QED BY <1>1, <1>4, <1>5, <1>7, <1>8, <1>9, ReplicaStep DEF ReplicaInv

(* Two active tokens are one.                                              *)
LEMMA OneActive ==
    ASSUME NEW t \in AnyToken, NEW u \in AnyToken, Active(lease, t), Active(lease, u)
    PROVE  t = u
<1>1. t.holder = u.holder /\ t.lease_id = u.lease_id
  BY DEF Active, Exact
<1> QED BY <1>1 DEF AnyToken

(* A leader's write takes effect.                                          *)
LEMMA StoreKeeps ==
    ASSUME PollerInv, NEW r \in Holders, Store(r), Leads(r)
    PROVE  PollerInv' /\ DurableOffset <= DurableOffset'
<1>0. TypeOK /\ NoUpdateLost /\ ReplicaInv(r) /\ Token(r) \in AnyToken
  BY TokenType DEF PollerInv
<1> DEFINE label == IF head[r] = last[r] THEN "poll" ELSE "process"
<1>1. /\ pc[r] = "store" /\ lease' = Stored(lease, head[r] + 1)
      /\ offset' = [offset EXCEPT ![r] = head[r] + 1]
      /\ head' = [head EXCEPT ![r] = head[r] + 1]
      /\ pc' = [pc EXCEPT ![r] = label]
      /\ UNCHANGED <<grant, last, inFlight, sent, confirmed, processed, stale>>
  BY <1>0 DEF Store, NextOffset, Goto, telegramVars, historyVars, TypeOK
<1>2. /\ head[r] \in Updates /\ head[r] \in processed /\ head[r] <= last[r]
      /\ Handled(head[r]) /\ DurableOffset <= offset[r] /\ offset[r] <= head[r]
      /\ offset[r] \in Nat /\ last[r] \in 0 .. MaxUpdates
  BY <1>0, <1>1, Numbers DEF TypeOK, ReplicaInv, Done, Forward
<1>3. head[r] + 1 \in Checkpoints /\ head[r] + 1 \in 1 .. (MaxUpdates + 1)
  BY <1>2, Numbers DEF Updates
<1>4. lease # Absent
  BY DEF Leads, Active, Exact
<1>5. /\ lease' \in Document /\ lease' # Absent /\ DurableOffset' = head[r] + 1
      /\ lease'.record_kind # "ephemeral"
      /\ \A t \in AnyToken : Active(lease', t) => Active(lease, t)
  BY <1>1, <1>3, <1>4, StoredOffset
<1>6. Handled(head[r] + 1)
  BY <1>2 DEF Handled, Updates
<1>7. TypeOK'
  BY <1>0, <1>1, <1>3, <1>5 DEF TypeOK, Leading
<1>8. /\ pc'[r] = label /\ label \in {"poll", "process"} /\ offset'[r] = head[r] + 1
      /\ head'[r] = head[r] + 1 /\ last'[r] = last[r]
      /\ \A s \in Holders : s # r => SameAt(s)
  BY <1>0, <1>1 DEF TypeOK, SameAt
<1>9. ReplicaInv(r)'
  <2>1. label = "process" => head[r] + 1 \in Updates /\ head[r] + 1 <= last[r]
    BY <1>2, Numbers DEF Updates
  <2>2. Done(r)'
    BY <1>1, <1>3, <1>6, <1>8, <2>1 DEF Done, Handled
  <2>3. Granted(r)'
    BY <1>0, <1>1, <1>8 DEF ReplicaInv, Granted, Token, Leading
  <2>4. Forward(r)'
    BY <1>3, <1>5, <1>8 DEF Forward
  <2>5. Deposed(r)'
    BY <1>0, <1>1 DEF ReplicaInv, Deposed
  <2> QED BY <2>2, <2>3, <2>4, <2>5 DEF ReplicaInv
<1>10. ASSUME NEW s \in Holders, s # r PROVE ReplicaInv(s)'
  <2>1. Token(s) \in AnyToken /\ Token(s)' = Token(s) /\ Token(s) # Token(r)
    BY <1>0, <1>8, <1>10, TokenType DEF Token, SameAt
  <2>2. ~Leads(s)'
    BY <1>0, <1>5, <2>1, OneActive DEF Leads
  <2> QED BY <1>1, <1>8, <1>10, <2>2, OtherKeeps
<1>11. WriteInv'
  <2>1. ASSUME NEW m \in inFlight PROVE ~Active(lease', m.token)
    <3>1. m.token \in AnyToken
      BY <1>0 DEF TypeOK, LeaseToken, AnyToken
    <3>2. m.token # Token(r)
      BY <1>0, <1>1 DEF ReplicaInv, Granted, Leading
    <3> QED BY <1>0, <1>5, <3>1, <3>2, OneActive DEF Leads
  <2> QED BY <1>1, <2>1, WritesKeep
<1>12. DurableInv' /\ NoUpdateLost'
  BY <1>0, <1>1, <1>5, <1>6 DEF DurableInv, Handled, NoUpdateLost
<1>13. DurableOffset <= DurableOffset'
  <2>1. DurableOffset \in Nat /\ head[r] \in Nat
    BY <1>0, <1>2, OffsetType, Numbers DEF TypeOK, Updates
  <2> QED BY <1>2, <1>5, <2>1
<1> QED BY <1>7, <1>9, <1>10, <1>11, <1>12, <1>13 DEF PollerInv

(* A fresh id is nobody's: whoever thought to lead is deposed.             *)
LEMMA ElectKeeps ==
    ASSUME PollerInv, NEW r \in Holders, Elect(r) \/ ElectionAnswerLost(r)
    PROVE  PollerInv' /\ DurableOffset' = DurableOffset
<1>0. TypeOK /\ NoUpdateLost /\ ReplicaInv(r) /\ DurableInv
  BY DEF PollerInv
<1>1. PICK i \in FreeIds :
        /\ lease' = Claimed(lease, [holder |-> r, lease_id |-> i])
        /\ \/ grant' = [grant EXCEPT ![r] = i] /\ pc' = [pc EXCEPT ![r] = "start"]
           \/ UNCHANGED <<grant, pc>>
  BY DEF Elect, ElectionAnswerLost, Goto
<1>2. /\ pc[r] = "idle"
      /\ UNCHANGED <<offset, head, last, inFlight, sent, confirmed, processed, stale>>
  BY DEF Elect, ElectionAnswerLost, batchVars, telegramVars, historyVars
<1>3. /\ lease' \in Document /\ DurableOffset' = DurableOffset
      /\ (lease'.record_kind = "ephemeral") => lease'.checkpoint = NoCheckpoint
      /\ \A t \in AnyToken : t.lease_id # i => ~Active(lease', t)
  BY <1>1, ClaimedOffset
<1>4. /\ i \in LeaseIds /\ \A s \in Holders : grant[s] # i
      /\ \A m \in inFlight : m.token.lease_id # i /\ m.token \in AnyToken
  BY <1>0 DEF FreeIds, TypeOK, LeaseToken, AnyToken
<1>5. TypeOK'
  BY <1>0, <1>1, <1>2, <1>3, <1>4 DEF TypeOK, Leading
<1>6. \A s \in Holders : s # r => SameAt(s)
  BY <1>0, <1>1, <1>2 DEF TypeOK, SameAt
<1>7. ASSUME NEW s \in Holders, SameAt(s) PROVE ReplicaInv(s)'
  <2>1. Token(s)' = Token(s) /\ Token(s) \in AnyToken /\ Token(s).lease_id = grant[s]
    BY <1>0, <1>7, TokenType DEF Token, SameAt
  <2>2. ~Leads(s)'
    BY <1>3, <1>4, <2>1 DEF Leads
  <2> QED BY <1>2, <1>7, <2>2, OtherKeeps
<1>8. ReplicaInv(r)'
  <2>1. CASE UNCHANGED <<grant, pc>>
    BY <1>2, <1>7, <2>1 DEF SameAt
  <2>2. CASE grant' = [grant EXCEPT ![r] = i] /\ pc' = [pc EXCEPT ![r] = "start"]
    <3>1. pc'[r] = "start" /\ grant'[r] = i /\ Token(r)'.lease_id = i
      BY <1>0, <2>2 DEF TypeOK, Token
    <3>2. stale[r] = 0
      BY <1>0, <1>2 DEF ReplicaInv, Deposed
    <3>3. Done(r)' /\ Granted(r)'
      BY <1>0, <1>2, <1>4, <3>1 DEF ReplicaInv, Done, Granted, Handled
    <3>4. Forward(r)' /\ Deposed(r)'
      BY <1>2, <3>1, <3>2 DEF Forward, Deposed
    <3> QED BY <3>3, <3>4 DEF ReplicaInv
  <2> QED BY <1>1, <2>1, <2>2
<1>9. WriteInv'
  BY <1>2, <1>3, <1>4, WritesKeep
<1>10. DurableInv' /\ NoUpdateLost'
  BY <1>0, <1>2, <1>3 DEF DurableInv, Handled, NoUpdateLost
<1> QED BY <1>3, <1>5, <1>6, <1>7, <1>8, <1>9, <1>10 DEF PollerInv

(* A write of a leader that is gone takes effect: the grant is still in    *)
(* force, and nobody leads under it.                                       *)
LEMMA LandKeeps ==
    ASSUME PollerInv, NEW m \in inFlight, Active(lease, m.token),
           lease' = Stored(lease, m.checkpoint), inFlight' = inFlight \ {m},
           UNCHANGED <<pc, grant, batchVars, telegramVars, historyVars>>
    PROVE  PollerInv' /\ DurableOffset <= DurableOffset'
<1>0. /\ TypeOK /\ NoUpdateLost /\ WriteInv /\ m.checkpoint \in Checkpoints
      /\ \A n \in inFlight : n.token \in AnyToken
  BY DEF PollerInv, TypeOK, LeaseToken, AnyToken
<1>1. UNCHANGED <<offset, head, last, sent, confirmed, processed, stale>>
  BY DEF batchVars, telegramVars, historyVars
<1>2. lease # Absent
  BY DEF Active, Exact
<1>3. /\ lease' \in Document /\ lease' # Absent /\ DurableOffset' = m.checkpoint
      /\ lease'.record_kind # "ephemeral"
      /\ \A t \in AnyToken : Active(lease', t) => Active(lease, t)
  BY <1>0, <1>2, StoredOffset
<1>4. TypeOK'
  BY <1>0, <1>1, <1>3 DEF TypeOK
<1>5. ASSUME NEW s \in Holders PROVE ReplicaInv(s)'
  <2>1. SameAt(s) /\ Token(s)' = Token(s) /\ Token(s) \in AnyToken /\ Granted(s)
    BY <1>0, <1>1, TokenType DEF SameAt, Token, PollerInv, ReplicaInv
  <2>2. Leads(s)' => Leads(s)
    BY <1>3, <2>1 DEF Leads
  <2>3. ~(pc[s] \in Leading /\ Leads(s)')
    BY <1>0, <2>1, <2>2, OneActive DEF Leads, Granted
  <2> QED BY <1>1, <2>1, <2>2, <2>3, OtherKeeps
<1>6. WriteInv'
  <2>1. ASSUME NEW n \in inFlight' PROVE ~Active(lease', n.token)
    BY <1>0, <1>3, OneActive DEF WriteInv
  <2> QED BY <1>1, <2>1, WritesKeep
<1>7. DurableInv' /\ NoUpdateLost'
  BY <1>0, <1>1, <1>3 DEF WriteInv, DurableInv, Handled, NoUpdateLost
<1>8. DurableOffset <= DurableOffset'
  BY <1>0, <1>3 DEF WriteInv
<1> QED BY <1>4, <1>5, <1>6, <1>7, <1>8 DEF PollerInv

-----------------------------------------------------------------------------
(* The specification.                                                      *)

LEMMA PollerInitInv == Init => PollerInv
<1> SUFFICES ASSUME Init PROVE PollerInv
  OBVIOUS
<1>1. TypeOK
  BY Numbers DEF Init, TypeOK
<1>2. DurableInv /\ WriteInv /\ NoUpdateLost
  BY Numbers DEF Init, DurableInv, WriteInv, NoUpdateLost, Handled, DurableOffset, Updates
<1>3. ASSUME NEW r \in Holders PROVE ReplicaInv(r)
  <2>1. pc[r] = "idle" /\ offset[r] = 0 /\ stale[r] = 0
    BY DEF Init
  <2> QED BY <2>1, Numbers
          DEF ReplicaInv, Done, Granted, Forward, Deposed, Handled, Updates, Leading
<1> QED BY <1>1, <1>2, <1>3 DEF PollerInv

(* Every step preserves the invariant and moves the durable offset forward *)
(* or not at all.                                                          *)
LEMMA PollerStep ==
    ASSUME PollerInv, [Next]_vars PROVE PollerInv' /\ DurableOffset <= DurableOffset'
<1>0. /\ TypeOK /\ DurableOffset \in Nat
      /\ LeaseRests => DurableOffset <= DurableOffset'
  BY OffsetType, Numbers DEF PollerInv, TypeOK, LeaseRests
<1>i. UNCHANGED inFlight => \A r \in Holders : Abandon(r)
  BY DEF Abandon
<1>u. UNCHANGED lease => LeaseRests
  BY UnchangedRests
<1>1. ASSUME NEW r \in Holders, Elect(r) \/ ElectionAnswerLost(r)
      PROVE  PollerInv' /\ DurableOffset <= DurableOffset'
  BY <1>0, <1>1, ElectKeeps
<1>2. ASSUME NEW r \in Holders, Start(r) \/ Poll(r) \/ PollEmpty(r) \/ Process(r)
      PROVE  PollerInv' /\ DurableOffset <= DurableOffset'
  <2>1. UNCHANGED lease
    BY <1>2 DEF Start, Poll, PollEmpty, Process
  <2> QED BY <1>0, <1>u, <1>2, <2>1, StartKeeps, PollKeeps, ProcessKeeps
<1>3. ASSUME NEW r \in Holders, Store(r) PROVE PollerInv' /\ DurableOffset <= DurableOffset'
  <2>1. CASE Leads(r)
    BY <1>3, <2>1, StoreKeeps
  <2>2. CASE ~Leads(r)
    <3>1. /\ UNCHANGED <<lease, offset, head, grant, last, inFlight, telegramVars, historyVars>>
          /\ Goto(r, "delete") /\ pc[r] # "idle" /\ "delete" \in Releasing
      BY <1>3, <2>2 DEF Store, Releasing
    <3> QED BY <1>0, <1>i, <1>u, <3>1, GivingUp DEF batchVars
  <2> QED BY <2>1, <2>2
<1>4. ASSUME NEW r \in Holders, Fail(r) \/ RenewFails(r)
      PROVE  PollerInv' /\ DurableOffset <= DurableOffset'
  <2>1. LeaseRests
    BY <1>u, <1>4, RenewedRests DEF Fail, RenewFails
  <2>2. /\ Abandon(r) /\ Goto(r, "delete") /\ pc[r] # "idle" /\ "delete" \in Releasing
        /\ UNCHANGED <<grant, batchVars, telegramVars, historyVars>>
    BY <1>4 DEF Fail, RenewFails, Leading, Releasing
  <2> QED BY <1>0, <2>1, <2>2, GivingUp
<1>5. ASSUME NEW r \in Holders, Renew(r) PROVE PollerInv' /\ DurableOffset <= DurableOffset'
  <2>1. LeaseRests
    BY <1>5, RenewedRests DEF Renew
  <2>2. /\ UNCHANGED <<pc, grant, batchVars, historyVars, confirmed, inFlight, sent>>
        /\ sent \in 0 .. MaxUpdates
    BY <1>0, <1>5 DEF Renew, telegramVars, TypeOK
  <2> QED BY <1>0, <2>1, <2>2, RestingStep
<1>6. ASSUME NEW r \in Holders, ReleaseDelete(r)
      PROVE  PollerInv' /\ DurableOffset <= DurableOffset'
  <2>1. CASE Deletable(lease, Token(r))
    <3>1. LeaseRests
      BY <1>6, <2>1, RemovalRests DEF ReleaseDelete, Deletable, Exact
    <3>2. /\ Goto(r, "idle") /\ Forget(r) /\ UNCHANGED <<inFlight, telegramVars, processed>>
      BY <1>6, <2>1 DEF ReleaseDelete
    <3> QED BY <1>0, <1>i, <3>1, <3>2, ForgettingStep
  <2>2. CASE ~Deletable(lease, Token(r))
    <3>1. /\ Goto(r, "expire") /\ pc[r] # "idle" /\ "expire" \in Releasing
          /\ UNCHANGED <<lease, grant, batchVars, inFlight, telegramVars, historyVars>>
      BY <1>6, <2>2 DEF ReleaseDelete, Releasing, historyVars
    <3> QED BY <1>0, <1>i, <1>u, <3>1, GivingUp
  <2> QED BY <2>1, <2>2
<1>7. ASSUME NEW r \in Holders, ReleaseExpire(r) \/ ReleaseFails(r) \/ Crash(r)
      PROVE  PollerInv' /\ DurableOffset <= DurableOffset'
  <2>1. Expirable(lease, Token(r)) => lease # Absent
    BY DEF Expirable, Exact
  <2>2. lease # Absent /\ lease' = Expired(lease) => LeaseRests
    BY TermRests, Numbers DEF Expired
  <2>3. LeaseRests
    BY <1>u, <1>7, <2>1, <2>2 DEF ReleaseExpire, ReleaseFails, Crash
  <2>4. Goto(r, "idle") /\ Forget(r) /\ Abandon(r) /\ UNCHANGED <<telegramVars, processed>>
    BY <1>i, <1>7 DEF ReleaseExpire, ReleaseFails, Crash
  <2> QED BY <1>0, <2>3, <2>4, ForgettingStep
<1>8. ASSUME Land PROVE PollerInv' /\ DurableOffset <= DurableOffset'
  <2>1. PICK m \in inFlight :
          /\ lease' \in {lease} \cup (IF Active(lease, m.token)
                                      THEN {Stored(lease, m.checkpoint)} ELSE {})
          /\ inFlight' = inFlight \ {m}
          /\ UNCHANGED <<pc, grant, batchVars, telegramVars, historyVars>>
    BY <1>8 DEF Land
  <2>2. CASE UNCHANGED lease
    BY <1>0, <1>u, <2>1, <2>2, RestingStep DEF telegramVars, TypeOK
  <2>3. CASE Active(lease, m.token) /\ lease' = Stored(lease, m.checkpoint)
    BY <2>1, <2>3, LandKeeps
  <2> QED BY <2>1, <2>2, <2>3
<1>9. ASSUME Tick \/ Reap \/ Arrive \/ UNCHANGED vars
      PROVE  PollerInv' /\ DurableOffset <= DurableOffset'
  <2>1. UNCHANGED <<pc, grant, batchVars, historyVars, confirmed, inFlight>>
    BY <1>9 DEF Tick, Reap, Arrive, vars, telegramVars, batchVars, historyVars
  <2>2. sent' \in 0 .. MaxUpdates
    BY <1>0, <1>9, Numbers DEF Tick, Reap, Arrive, vars, telegramVars, TypeOK
  <2>3. Tick => LeaseRests
    <3> SUFFICES ASSUME Tick PROVE LeaseRests
      OBVIOUS
    <3>1. lease \in Document /\ lease.left \in 0 .. TTL /\ lease.left > 0
      BY <1>0 DEF Tick, TypeOK, Document
    <3>2. lease.left - 1 \in 0 .. TTL
      BY <3>1, Numbers
    <3> QED BY <3>1, <3>2, TermRests DEF Tick, Aged
  <2>4. Reap => LeaseRests
    BY RemovalRests DEF Reap, Reapable, PollerInv, DurableInv
  <2>5. LeaseRests
    BY <1>u, <1>9, <2>3, <2>4 DEF Arrive, vars
  <2> QED BY <1>0, <2>1, <2>2, <2>5, RestingStep
<1> QED BY <1>1, <1>2, <1>3, <1>4, <1>5, <1>6, <1>7, <1>8, <1>9 DEF Next, Step

(* Replicas, the lease document, late writes and Telegram keep their types *)
(* and the invariant that ties them (run_polling_loop, run_while_renewed). *)
THEOREM PollerInvariant == Spec => []PollerInv
<1>1. PollerInv /\ [Next]_vars => PollerInv'
  BY PollerStep
<1> QED BY <1>1, PollerInitInv, PTL DEF Spec

(* Telegram is never told to forget an update that no replica has handled, *)
(* for any number of replicas that are paused, cancelled, restarted or     *)
(* deposed (run_as_polling_leader).                                        *)
THEOREM NoUpdateIsLost == Spec => []NoUpdateLost
<1>1. PollerInv => NoUpdateLost
  BY DEF PollerInv
<1> QED BY <1>1, PollerInvariant, PTL

(* A replica that lost the lease without noticing repeats one update at    *)
(* most and never moves the durable offset back (store_checkpoint).        *)
THEOREM DeposedLeadersAreHarmless == Spec => DeposedLeaderIsHarmless
<1> DEFINE Number == DurableOffset \in Nat
<1>0. PollerInv => Number
  BY OffsetType, Numbers DEF PollerInv, TypeOK
<1> HIDE DEF Number
<1>1. PollerInv => OneStaleUpdate
  <2> SUFFICES ASSUME PollerInv, NEW r \in Holders PROVE stale[r] <= 1
    BY DEF OneStaleUpdate
  <2>1. stale[r] = 0 \/ stale[r] = 1
    BY DEF PollerInv, ReplicaInv, Deposed
  <2> QED BY <2>1
<1>2. ASSUME PollerInv, PollerInv', [Next]_vars
      PROVE  [DurableOffset' >= DurableOffset /\ OneStaleUpdate']_vars
  <2>1. OneStaleUpdate'
    BY <1>1, <1>2, PTL
  <2>2. Number /\ Number'
    BY <1>0, <1>2, PTL
  <2>3. DurableOffset <= DurableOffset'
    BY <1>2, PollerStep
  <2> QED BY <2>1, <2>2, <2>3 DEF Number
<1>3. PollerInv /\ PollerInv' /\ [Next]_vars =>
        [DurableOffset' >= DurableOffset /\ OneStaleUpdate']_vars
  BY <1>2
<1> QED BY <1>3, PollerInvariant, PTL DEF Spec, DeposedLeaderIsHarmless
=============================================================================
