--------------------------- MODULE OwnershipProofs --------------------------
(***************************************************************************)
(* Who holds what in the database, for every set of holders, sockets and   *)
(* replicas.                                                               *)
(*                                                                         *)
(* The lease keeps its promise for every set of checkpoints, every term    *)
(* and any number of grants: the document is well typed, and only a        *)
(* document without a checkpoint may be removed by the TTL index.          *)
(*                                                                         *)
(* The owner record of a node: the set-up lock serialises the claims of a  *)
(* replica, so that whoever is entered in its map claimed last there.      *)
(***************************************************************************)
EXTENDS LeaseStore, NodeOwner, TLAPS

Inv == TypeOK /\ ReapableHasNoCheckpoint

\* Each operation turns a document of the collection into one of it.
LEMMA DocumentOps ==
    ASSUME NEW d \in Document
    PROVE  /\ \A t \in LeaseToken : Claimed(d, t) \in Document
           /\ Renewed(d) \in Document
           /\ Expired(d) \in Document
           /\ \A c \in Checkpoints : Stored(d, c) \in Document
           /\ d.left > 0 => Aged(d) \in Document
<1>1. Renewed(d) \in Document
  BY TTLAssumption DEF Document, Renewed, FullTerm
<1>2. Expired(d) \in Document
  BY TTLAssumption DEF Document, Expired
<1>3. ASSUME NEW c \in Checkpoints PROVE Stored(d, c) \in Document
  BY DEF Document, Stored
<1>4. d.left > 0 => Aged(d) \in Document
  BY TTLAssumption DEF Document, Aged
<1>5. ASSUME NEW t \in LeaseToken PROVE Claimed(d, t) \in Document
  BY TTLAssumption, SentinelAssumption
  DEF Document, Claimed, LeaseToken, FullTerm
<1> QED BY <1>1, <1>2, <1>3, <1>4, <1>5

\* A first claim creates the document.
LEMMA FirstClaim ==
    ASSUME NEW t \in LeaseToken
    PROVE  Claimed(Absent, t) \in Document
BY TTLAssumption DEF Claimed, Document, LeaseToken, FullTerm

\* Every operation of the code preserves the invariant.
LEMMA InvInductive ==
    ASSUME Inv, [Next]_vars
    PROVE  Inv'
<1> USE DEF Inv, TypeOK, ReapableHasNoCheckpoint
<1>1. ASSUME NEW h \in Holders, Acquire(h) PROVE Inv'
  <2> DEFINE t == [holder |-> h, lease_id |-> grants + 1]
  <2>1. t \in LeaseToken /\ grants + 1 \in 0 .. MaxGrants
    BY <1>1, IdsAssumption DEF Acquire, LeaseToken
  <2>2. lease' = Claimed(lease, t) /\ lease' \in Document
    BY <1>1, <2>1, DocumentOps, FirstClaim DEF Acquire
  <2>3. lease' # Absent
    BY <2>2, SentinelAssumption
  <2>4. ReapableHasNoCheckpoint'
    BY <2>2, <2>3 DEF Claimed
  <2> QED BY <1>1, <2>1, <2>2, <2>4 DEF Acquire
<1>2. ASSUME NEW t \in tokens, Renew(t) PROVE Inv'
  <2>1. lease \in Document /\ lease' = Renewed(lease) /\ lease' \in Document
    BY <1>2, DocumentOps DEF Renew, Active, Exact
  <2>2. ReapableHasNoCheckpoint'
    BY <2>1, SentinelAssumption DEF Renewed, Document
  <2> QED BY <1>2, <2>1, <2>2 DEF Renew
<1>3. ASSUME NEW t \in tokens, ReleaseDelete(t) PROVE Inv'
  BY <1>3 DEF ReleaseDelete
<1>4. ASSUME NEW t \in tokens, ReleaseExpire(t) PROVE Inv'
  <2>1. CASE Expirable(lease, t)
    <3>1. lease \in Document /\ lease' = Expired(lease) /\ lease' \in Document
      BY <1>4, <2>1, DocumentOps DEF ReleaseExpire, Expirable, Exact
    <3>2. ReapableHasNoCheckpoint'
      BY <3>1, SentinelAssumption DEF Expired, Document
    <3> QED BY <1>4, <3>1, <3>2 DEF ReleaseExpire
  <2>2. CASE ~Expirable(lease, t)
    BY <1>4, <2>2 DEF ReleaseExpire
  <2> QED BY <2>1, <2>2
<1>5. ASSUME NEW t \in tokens, NEW c \in Checkpoints, StoreCheckpoint(t, c)
      PROVE  Inv'
  <2>1. lease \in Document /\ lease' = Stored(lease, c) /\ lease' \in Document
    BY <1>5, DocumentOps DEF StoreCheckpoint, Active, Exact
  <2>2. ReapableHasNoCheckpoint'
    BY <2>1, SentinelAssumption DEF Stored, Document
  <2>3. author' \in 0 .. MaxGrants
    BY <1>5, IdsAssumption DEF StoreCheckpoint, LeaseToken
  <2> QED BY <1>5, <2>1, <2>2, <2>3 DEF StoreCheckpoint
<1>6. ASSUME Reap PROVE Inv'
  BY <1>6 DEF Reap
<1>7. ASSUME Tick PROVE Inv'
  <2>1. lease \in Document /\ lease' = Aged(lease) /\ lease' \in Document
    BY <1>7, DocumentOps DEF Tick
  <2>2. ReapableHasNoCheckpoint'
    BY <2>1, SentinelAssumption DEF Aged, Document
  <2> QED BY <1>7, <2>1, <2>2 DEF Tick
<1>8. ASSUME UNCHANGED vars PROVE Inv'
  BY <1>8 DEF vars
<1> QED BY <1>1, <1>2, <1>3, <1>4, <1>5, <1>6, <1>7, <1>8 DEF Next, TokenStep

LEMMA InitInv == Init => Inv
BY IdsAssumption DEF Init, Inv, TypeOK, ReapableHasNoCheckpoint

\* The document is well typed in every reachable state, and the TTL index of
\* ensure_indexes never covers a document with a checkpoint.
THEOREM Safety == Spec => []Inv
<1>1. Inv /\ [Next]_vars => Inv'
  BY InvInductive
<1> QED BY <1>1, InitInv, PTL DEF Spec

\* The same, for the invariant of the model-checking run by itself.
THEOREM CheckpointIsNeverReaped == Spec => []ReapableHasNoCheckpoint
<1>1. Inv => ReapableHasNoCheckpoint
  BY DEF Inv
<1> QED BY <1>1, Safety, PTL

-----------------------------------------------------------------------------
\* What the fenced register sees of a document that is in the collection.
LEMMA MappedDocument ==
    ASSUME Inv, lease # Absent
    PROVE  /\ lease \in Document
           /\ lease.lease_id \in Nat /\ lease.lease_id # 0
           /\ StoredValue = lease.checkpoint
           /\ Owner = IF lease.left > 0 THEN lease.lease_id ELSE 0
BY IdsAssumption DEF Inv, TypeOK, Document, StoredValue, Owner

\* Every step of the lease is a step of the fenced register or leaves it
\* as it is.
LEMMA StepSimulation ==
    ASSUME Inv, Inv', [Next]_vars
    PROVE  [Fenced!Next]_(Fenced!vars)
<1> USE DEF Fenced!Next, Fenced!vars
<1>1. ASSUME NEW h \in Holders, Acquire(h) PROVE Fenced!Grant
  <2> DEFINE t == [holder |-> h, lease_id |-> grants + 1]
  <2>1. lease' = Claimed(lease, t) /\ lease' # Absent
    BY <1>1, SentinelAssumption, DocumentOps, FirstClaim, IdsAssumption
    DEF Acquire, Inv, TypeOK, LeaseToken
  <2>2. Owner = 0
    BY <1>1 DEF Acquire, Claimable, Owner, Inv, TypeOK, Document
  <2>3. Owner' = grants + 1
    BY <2>1, TTLAssumption DEF Owner, Claimed, FullTerm
  <2>4. StoredValue' = StoredValue
    BY <2>1 DEF StoredValue, Claimed
  <2> QED BY <1>1, <2>2, <2>3, <2>4 DEF Acquire, Fenced!Grant
<1>2. ASSUME NEW t \in tokens, Renew(t) PROVE UNCHANGED Fenced!vars
  <2>1. lease \in Document /\ lease' = Renewed(lease) /\ lease' # Absent
        /\ lease.left > 0
    BY <1>2, DocumentOps, SentinelAssumption
    DEF Renew, Active, Exact, Inv, TypeOK
  <2>2. Owner' = Owner /\ StoredValue' = StoredValue
    BY <1>2, <2>1, TTLAssumption
    DEF Owner, StoredValue, Renewed, Document, FullTerm, Renew, Active, Exact
  <2> QED BY <1>2, <2>2 DEF Renew
<1>3. ASSUME lease' = Absent, StoredValue = NoCheckpoint,
             UNCHANGED <<grants, author>>
      PROVE  Fenced!Lapse \/ UNCHANGED Fenced!vars
  BY <1>3 DEF Fenced!Lapse, Owner, StoredValue
<1>4. ASSUME NEW t \in tokens, ReleaseDelete(t)
      PROVE  Fenced!Lapse \/ UNCHANGED Fenced!vars
  <2>1. CASE Deletable(lease, t)
    BY <1>3, <1>4, <2>1 DEF ReleaseDelete, Deletable, Exact, StoredValue
  <2>2. CASE ~Deletable(lease, t)
    BY <1>4, <2>2 DEF ReleaseDelete, Owner, StoredValue
  <2> QED BY <2>1, <2>2
<1>5. ASSUME NEW t \in tokens, ReleaseExpire(t)
      PROVE  Fenced!Lapse \/ UNCHANGED Fenced!vars
  <2>1. CASE Expirable(lease, t)
    <3>1. lease \in Document /\ lease' = Expired(lease) /\ lease' # Absent
      BY <1>5, <2>1, DocumentOps, SentinelAssumption
      DEF ReleaseExpire, Expirable, Exact, Inv, TypeOK
    <3>2. Owner' = 0 /\ StoredValue' = StoredValue
      BY <2>1, <3>1
      DEF Owner, StoredValue, Expired, Document, Expirable, Exact
    <3> QED BY <1>5, <3>2 DEF ReleaseExpire, Fenced!Lapse
  <2>2. CASE ~Expirable(lease, t)
    BY <1>5, <2>2 DEF ReleaseExpire, Owner, StoredValue
  <2> QED BY <2>1, <2>2
<1>6. ASSUME NEW t \in tokens, NEW c \in Checkpoints, StoreCheckpoint(t, c)
      PROVE  Fenced!Commit
  <2>1. lease \in Document /\ lease' = Stored(lease, c) /\ lease' # Absent
        /\ lease.left > 0 /\ lease # Absent /\ lease.lease_id = t.lease_id
    BY <1>6, DocumentOps, SentinelAssumption
    DEF StoreCheckpoint, Active, Exact, Inv, TypeOK
  <2>2. Owner = t.lease_id /\ Owner # 0 /\ Owner' = Owner
    BY <2>1, MappedDocument DEF Owner, Stored, Document
  <2>3. StoredValue' = c
    BY <2>1 DEF StoredValue, Stored, Document
  <2> QED BY <1>6, <2>2, <2>3 DEF StoreCheckpoint, Fenced!Commit
<1>7. ASSUME Reap PROVE Fenced!Lapse \/ UNCHANGED Fenced!vars
  <2>1. StoredValue = NoCheckpoint
    BY <1>7 DEF Reap, Reapable, Inv, ReapableHasNoCheckpoint, StoredValue
  <2> QED BY <1>3, <1>7, <2>1 DEF Reap
<1>8. ASSUME Tick PROVE Fenced!Lapse \/ UNCHANGED Fenced!vars
  <2>1. lease \in Document /\ lease' = Aged(lease) /\ lease' # Absent
        /\ lease # Absent /\ lease.left > 0
    BY <1>8, DocumentOps, SentinelAssumption DEF Tick, Inv, TypeOK
  <2>2. StoredValue' = StoredValue /\ (Owner' = Owner \/ Owner' = 0)
    BY <2>1 DEF StoredValue, Owner, Aged, Document
  <2>3. Owner # 0
    BY <2>1, MappedDocument
  <2> QED BY <1>8, <2>2, <2>3 DEF Tick, Fenced!Lapse
<1>9. ASSUME UNCHANGED vars PROVE UNCHANGED Fenced!vars
  BY <1>9 DEF vars, Owner, StoredValue
<1> QED BY <1>1, <1>2, <1>4, <1>5, <1>6, <1>7, <1>8, <1>9 DEF Next, TokenStep

\* The lease of coordination_service.rs implements the fenced register, for
\* any number of replicas, tokens in flight and checkpoints.
THEOREM ImplementsFencedLease == Spec => FencedLeaseSpec
<1>1. Init => Fenced!Init
  BY DEF Init, Fenced!Init, Owner, StoredValue
<1>2. Inv /\ Inv' /\ [Next]_vars => [Fenced!Next]_(Fenced!vars)
  BY StepSimulation
<1> QED BY <1>1, <1>2, Safety, PTL DEF Spec, FencedLeaseSpec, Fenced!Spec

-----------------------------------------------------------------------------
\* A live lease ends only by its own clock or by its own token's release,
\* whatever tokens of earlier grants are still in use.
THEOREM LeaseIsNotTakenAway == Spec => NoEviction
<1> DEFINE Ends(t) == \/ Tick /\ lease.left = 1
                      \/ ReleaseDelete(t)
                      \/ ReleaseExpire(t)
           Step == \A t \in tokens :
                      Active(lease, t) /\ ~Active(lease', t) => Ends(t)
<1>1. ASSUME Inv, Inv', [Next]_vars PROVE Step \/ UNCHANGED vars
  <2> SUFFICES ASSUME NEW t \in tokens,
                      Active(lease, t), ~Active(lease', t), Next
               PROVE  Ends(t)
    BY <1>1
  <2>1. /\ lease \in Document /\ lease # Absent /\ lease.left > 0
        /\ t \in LeaseToken /\ Exact(lease, t)
    BY <1>1, SentinelAssumption DEF Inv, TypeOK, Active, Exact
  <2>2. ASSUME NEW u \in tokens, Exact(lease, u) PROVE u = t
    <3>1. u \in LeaseToken
      BY <1>1 DEF Inv, TypeOK
    <3>2. u.holder = t.holder /\ u.lease_id = t.lease_id
      BY <2>1, <2>2 DEF Exact
    <3>3. u = [holder |-> u.holder, lease_id |-> u.lease_id]
      BY <3>1 DEF LeaseToken
    <3>4. t = [holder |-> t.holder, lease_id |-> t.lease_id]
      BY <2>1 DEF LeaseToken
    <3> QED BY <3>2, <3>3, <3>4
  <2>3. ASSUME NEW h \in Holders, Acquire(h) PROVE FALSE
    BY <2>1, <2>3 DEF Acquire, Claimable, Document
  <2>4. ASSUME NEW u \in tokens, Renew(u) PROVE FALSE
    <3>1. lease' = Renewed(lease) /\ lease' # Absent
      BY <2>1, <2>4, DocumentOps, SentinelAssumption DEF Renew
    <3> QED BY <2>1, <3>1, TTLAssumption
            DEF Renewed, Active, Exact, Document, FullTerm
  <2>5. ASSUME NEW u \in tokens, ReleaseDelete(u) PROVE Ends(t)
    <3>1. Deletable(lease, u)
      BY <2>5 DEF ReleaseDelete
    <3> QED BY <2>2, <2>5, <3>1 DEF Deletable
  <2>6. ASSUME NEW u \in tokens, ReleaseExpire(u) PROVE Ends(t)
    <3>1. Expirable(lease, u)
      BY <2>6 DEF ReleaseExpire
    <3> QED BY <2>2, <2>6, <3>1 DEF Expirable
  <2>7. ASSUME NEW u \in tokens, NEW c \in Checkpoints, StoreCheckpoint(u, c)
        PROVE  FALSE
    <3>1. lease' = Stored(lease, c) /\ lease' # Absent
      BY <2>1, <2>7, DocumentOps, SentinelAssumption DEF StoreCheckpoint
    <3> QED BY <2>1, <3>1 DEF Stored, Active, Exact, Document
  <2>8. ASSUME Reap PROVE FALSE
    BY <2>1, <2>8 DEF Reap, Reapable, Document
  <2>9. ASSUME Tick PROVE Ends(t)
    <3>1. lease' = Aged(lease) /\ lease' # Absent
      BY <2>1, <2>9, DocumentOps, SentinelAssumption DEF Tick
    <3>2. lease.left = 1
      BY <2>1, <3>1 DEF Aged, Active, Exact, Document
    <3> QED BY <2>9, <3>2
  <2> QED BY <2>3, <2>4, <2>5, <2>6, <2>7, <2>8, <2>9 DEF Next, TokenStep
<1>2. Inv /\ Inv' /\ [Next]_vars => [Step]_vars
  BY <1>1
<1> QED BY <1>2, Safety, PTL DEF Spec, NoEviction

-----------------------------------------------------------------------------
(* The owner record of a node.                                             *)

SocketDoc == [pc : SocketState, at : Replicas \cup {NoReplica}]
RenewerDoc == [pc : {"idle", "renew", "drop"}, on : Sockets \cup {NoSocket}]
MonitorDoc == [pc : {"idle", "check", "release"}, on : Sockets \cup {NoSocket}]
RoutedDoc == [pc : RequestState, on : Sockets \cup {NoSocket}, lost : SUBSET Sockets]

(* A socket that holds its replica's set-up lock.                          *)
InSetup == {"claim", "register", "ack", "undo"}

(* A socket knows its replica once it is set up, and holds the lock there  *)
(* while it is.                                                            *)
LockInv == \A s \in Sockets :
    /\ socket[s].pc # "idle" => socket[s].at \in Replicas
    /\ socket[s].pc \in InSetup => setup[socket[s].at] = s

(* A replica's map names sockets of its own that have registered and have  *)
(* not left.                                                               *)
MapInv == \A r \in Replicas :
    connections[r] # NoSocket =>
        /\ socket[connections[r]].at = r
        /\ socket[connections[r]].pc \in {"ack", "open"}

(* Only a socket that claimed has or had the record, and has it once.      *)
ClaimInv ==
    /\ owner # NoSocket => socket[owner].pc \notin {"idle", "claim"}
    /\ \A s \in lost : socket[s].pc \notin {"idle", "claim"}
    /\ owner \notin lost

(* Since a socket claimed, and until its set-up ends, no other socket of   *)
(* its replica has claimed.                                                *)
SerialInv == \A s \in Sockets :
    socket[s].pc \in {"register", "ack", "undo"} /\ owner \notin {s, NoSocket} =>
        socket[owner].at # socket[s].at

(* The heartbeat sweep works on a socket that has registered, and releases *)
(* the record of one that is out of the map.                               *)
SweepInv == \A r \in Replicas :
    monitor[r].on # NoSocket =>
        /\ socket[monitor[r].on].at = r
        /\ socket[monitor[r].on].pc \notin {"idle", "claim", "register"}
        /\ monitor[r].pc = "release" => connections[r] # monitor[r].on

(* A sweep that is under way is about a socket.                            *)
BusyInv == \A r \in Replicas :
    /\ renewer[r].pc # "idle" => renewer[r].on # NoSocket
    /\ monitor[r].pc # "idle" => monitor[r].on # NoSocket

(* A request was routed to a socket that had not lost the node by then.    *)
RoutedInv == \A q \in Dispatches :
    routed[q].pc # "idle" => routed[q].on \notin routed[q].lost

SetupInv == LockInv /\ MapInv /\ ClaimInv /\ SerialInv /\ MapFollowsRecord /\ SweepInv

NodeOwnerInv == NodeOwnerTypeOK /\ BusyInv /\ SetupInv /\ RoutedInv

\* The type invariant with its record sets named.
LEMMA NodeTypes ==
    NodeOwnerTypeOK <=>
        /\ owner \in Sockets \cup {NoSocket}
        /\ live \in BOOLEAN
        /\ active \in BOOLEAN
        /\ up \in SUBSET Replicas
        /\ connections \in [Replicas -> Sockets \cup {NoSocket}]
        /\ setup \in [Replicas -> Sockets \cup {NoSocket}]
        /\ socket \in [Sockets -> SocketDoc]
        /\ closing \in SUBSET Sockets
        /\ renewer \in [Replicas -> RenewerDoc]
        /\ monitor \in [Replicas -> MonitorDoc]
        /\ kicks \in SUBSET Sockets
        /\ routed \in [Dispatches -> RoutedDoc]
        /\ lost \in SUBSET Sockets
BY DEF NodeOwnerTypeOK, SocketDoc, RenewerDoc, MonitorDoc, RoutedDoc

\* SocketAt moves one socket and no socket to another replica.
LEMMA SocketAtFacts ==
    ASSUME socket \in [Sockets -> SocketDoc],
           NEW s \in Sockets, NEW p \in SocketState, SocketAt(s, p)
    PROVE  /\ socket' \in [Sockets -> SocketDoc]
           /\ socket'[s].pc = p
           /\ \A t \in Sockets : socket'[t].at = socket[t].at
           /\ \A t \in Sockets : t # s => socket'[t] = socket[t]
<1> DEFINE k == [socket[s] EXCEPT !.pc = p]
<1>1. socket[s] \in SocketDoc
  OBVIOUS
<1>2. k \in SocketDoc /\ k.pc = p /\ k.at = socket[s].at
  BY <1>1 DEF SocketDoc
<1>3. socket' = [socket EXCEPT ![s] = k]
  BY DEF SocketAt
<1> HIDE DEF k
<1>4. socket'[s] = k /\ \A t \in Sockets : t # s => socket'[t] = socket[t]
  BY <1>3
<1>5. socket' \in [Sockets -> SocketDoc]
  BY <1>2, <1>3
<1> QED BY <1>2, <1>4, <1>5

\* A dropped connection leaves the map of that replica and no other.
LEMMA DropFacts ==
    ASSUME connections \in [Replicas -> Sockets \cup {NoSocket}],
           closing \in SUBSET Sockets,
           NEW r, NEW s \in Sockets, DropConnection(r, s)
    PROVE  /\ connections' \in [Replicas -> Sockets \cup {NoSocket}]
           /\ closing' \in SUBSET Sockets
           /\ \A x \in Replicas : connections'[x] # NoSocket =>
                  connections'[x] = connections[x] /\ (x = r => connections[x] # s)
<1>1. connections' \in [Replicas -> Sockets \cup {NoSocket}]
  BY DEF DropConnection
<1>2. ASSUME NEW x \in Replicas, connections'[x] # NoSocket
      PROVE  connections'[x] = connections[x] /\ (x = r => connections[x] # s)
  BY <1>2 DEF DropConnection
<1>3. closing' \in SUBSET Sockets
  BY DEF DropConnection
<1> QED BY <1>1, <1>2, <1>3

(* What the steps have in common that set up no socket: sockets only move  *)
(* towards their end, map entries and the record are only emptied, and the *)
(* heartbeat sweep takes up a socket of the map or lets go of one.         *)
Onward(t) ==
    /\ socket'[t].at = socket[t].at
    /\ socket'[t].pc # "idle" => socket[t].at \in Replicas
    /\ socket'[t].pc \in {"idle", "claim", "register", "ack"} => socket'[t].pc = socket[t].pc
    /\ socket'[t].pc = "undo" => socket[t].pc \in {"register", "ack", "undo"}
    /\ socket'[t].pc = "open" => socket[t].pc \in {"ack", "open"}
    /\ socket'[t].pc \in InSetup => setup'[socket[t].at] = setup[socket[t].at]

MapShrinks(r) ==
    connections'[r] # NoSocket =>
        connections'[r] = connections[r] /\ socket'[connections[r]].pc \in {"ack", "open"}

RecordEmptied ==
    \/ owner' = owner /\ lost' = lost
    \/ owner' = NoSocket /\ lost' = lost \cup ({owner} \ {NoSocket})

SweepGoesOn(r) ==
    \/ monitor'[r] = monitor[r]
    \/ monitor'[r].on = NoSocket
    \/ monitor'[r].on = connections[r] /\ monitor'[r].pc # "release"
    \/ monitor'[r].on = monitor[r].on /\ connections'[r] # monitor[r].on

Retreat ==
    /\ \A t \in Sockets : Onward(t)
    /\ \A r \in Replicas : MapShrinks(r) /\ SweepGoesOn(r)
    /\ RecordEmptied

\* Such a step keeps what the set-up relies on.
LEMMA RetreatKeeps ==
    ASSUME NodeOwnerTypeOK, NodeOwnerTypeOK', SetupInv, Retreat
    PROVE  SetupInv'
<1>1. /\ owner \in Sockets \cup {NoSocket} /\ owner' \in Sockets \cup {NoSocket}
      /\ connections \in [Replicas -> Sockets \cup {NoSocket}]
      /\ connections' \in [Replicas -> Sockets \cup {NoSocket}]
      /\ monitor \in [Replicas -> MonitorDoc] /\ monitor' \in [Replicas -> MonitorDoc]
      /\ lost \subseteq Sockets
  BY NodeTypes DEF NodeOwnerTypeOK, MonitorDoc
<1>2. NoSocket \notin Sockets
  BY NodeOwnerAssumption
<1>3. LockInv /\ MapInv /\ ClaimInv /\ SerialInv /\ MapFollowsRecord /\ SweepInv
  BY DEF SetupInv
<1>4. \A t \in Sockets : Onward(t)
  BY DEF Retreat
<1>5. \A r \in Replicas : MapShrinks(r) /\ SweepGoesOn(r)
  BY DEF Retreat
<1>6. RecordEmptied
  BY DEF Retreat
<1>7. LockInv'
  BY <1>3, <1>4 DEF LockInv, Onward, InSetup
<1>8. MapInv'
  BY <1>1, <1>3, <1>4, <1>5 DEF MapInv, MapShrinks, Onward
<1>9. ClaimInv'
  BY <1>1, <1>2, <1>3, <1>4, <1>6 DEF ClaimInv, RecordEmptied, Onward
<1>10. owner' # NoSocket => owner' = owner /\ owner \in Sockets
  BY <1>1, <1>6 DEF RecordEmptied
<1>11. SerialInv'
  BY <1>3, <1>4, <1>10 DEF SerialInv, Onward
<1>12. MapFollowsRecord'
  <2> SUFFICES ASSUME NEW s \in Sockets, owner' = s, socket'[s].pc \in {"ack", "open"}
               PROVE  connections'[socket'[s].at] \in {s, NoSocket}
    BY DEF MapFollowsRecord
  <2>1. owner = s /\ socket[s].pc \in {"ack", "open"} /\ socket'[s].at = socket[s].at
    BY <1>2, <1>4, <1>10 DEF Onward
  <2>2. connections[socket[s].at] \in {s, NoSocket} /\ socket[s].at \in Replicas
    BY <1>3, <2>1 DEF MapFollowsRecord, LockInv
  <2> QED BY <1>5, <2>1, <2>2 DEF MapShrinks
<1>13. SweepInv'
  <2> SUFFICES ASSUME NEW r \in Replicas, monitor'[r].on # NoSocket
               PROVE  /\ socket'[monitor'[r].on].at = r
                      /\ socket'[monitor'[r].on].pc \notin {"idle", "claim", "register"}
                      /\ monitor'[r].pc = "release" => connections'[r] # monitor'[r].on
    BY DEF SweepInv
  <2>1. monitor'[r].on \in Sockets
    BY <1>1 DEF MonitorDoc
  <2>2. CASE monitor'[r].on = connections[r] /\ monitor'[r].pc # "release"
    BY <1>3, <1>4, <2>1, <2>2 DEF MapInv, Onward
  <2>3. CASE monitor'[r].on = monitor[r].on /\ connections'[r] # monitor[r].on
    BY <1>3, <1>4, <2>1, <2>3 DEF SweepInv, Onward
  <2>4. CASE monitor'[r] = monitor[r]
    BY <1>3, <1>4, <1>5, <2>1, <2>4 DEF SweepInv, Onward, MapShrinks
  <2> QED BY <1>5, <2>2, <2>3, <2>4 DEF SweepGoesOn
<1> QED BY <1>7, <1>8, <1>9, <1>11, <1>12, <1>13 DEF SetupInv

\* Sockets and locks at rest.
LEMMA RestOnward ==
    ASSUME LockInv, UNCHANGED <<socket, setup>>
    PROVE  \A t \in Sockets : Onward(t)
BY DEF LockInv, Onward, InSetup

\* Sockets and maps at rest.
LEMMA RestMap ==
    ASSUME MapInv, UNCHANGED <<socket, connections>>
    PROVE  \A r \in Replicas : MapShrinks(r)
BY DEF MapInv, MapShrinks

\* A socket gives up its own lock and nobody else's.
LEMMA UnlockFacts ==
    ASSUME LockInv, setup \in [Replicas -> Sockets \cup {NoSocket}],
           NEW s \in Sockets, socket[s].pc \in InSetup, Unlock(s)
    PROVE  /\ setup' \in [Replicas -> Sockets \cup {NoSocket}]
           /\ \A t \in Sockets : t # s /\ socket[t].pc \in InSetup =>
                  setup'[socket[t].at] = setup[socket[t].at]
<1>1. setup' \in [Replicas -> Sockets \cup {NoSocket}]
  BY DEF Unlock
<1>2. ASSUME NEW t \in Sockets, t # s, socket[t].pc \in InSetup
      PROVE  setup'[socket[t].at] = setup[socket[t].at]
  <2>1. setup[socket[t].at] = t /\ setup[socket[s].at] = s
    BY <1>2 DEF LockInv
  <2>2. socket[t].at # socket[s].at
    BY <1>2, <2>1
  <2>3. socket[t].at \in Replicas
    BY <1>2 DEF LockInv, InSetup
  <2> QED BY <2>2, <2>3 DEF Unlock
<1> QED BY <1>1, <1>2

\* The record is emptied, or left as it is.
LEMMA ReleaseFacts ==
    ASSUME owner \in Sockets \cup {NoSocket}, live \in BOOLEAN, lost \in SUBSET Sockets,
           NEW s, ReleaseOwner(s) \/ UNCHANGED <<owner, live, lost>>
    PROVE  /\ RecordEmptied
           /\ owner' \in Sockets \cup {NoSocket} /\ live' \in BOOLEAN
           /\ lost' \in SUBSET Sockets
           /\ owner' # owner => owner = s
BY DEF ReleaseOwner, SetOwner, RecordEmptied

\* The record is renewed at most.
LEMMA RenewFacts ==
    ASSUME live \in BOOLEAN, NEW s, RenewOwner(s)
    PROVE  live' \in BOOLEAN /\ owner' = owner /\ lost' = lost
BY DEF RenewOwner

\* A step about one socket that does not move the sweeps.
LEMMA OneSocketMoves ==
    ASSUME NodeOwnerTypeOK, SetupInv, NEW s \in Sockets, NEW p \in {"open", "undo", "leave", "gone"},
           SocketAt(s, p),
           socket[s].pc # "idle",
           p = "open" => socket[s].pc = "ack",
           p = "undo" => socket[s].pc \in {"register", "ack"} /\ setup' = setup,
           (Unlock(s) /\ socket[s].pc \in InSetup) \/ setup' = setup,
           (UNCHANGED connections /\ (socket[s].pc \notin {"ack", "open"} \/ p = "open"))
               \/ DropConnection(socket[s].at, s),
           UNCHANGED monitor, RecordEmptied
    PROVE  Retreat /\ socket' \in [Sockets -> SocketDoc]
<1>1. socket \in [Sockets -> SocketDoc] /\ p \in SocketState
  BY NodeTypes DEF SocketState
<1>2. /\ socket' \in [Sockets -> SocketDoc]
      /\ socket'[s].pc = p
      /\ \A t \in Sockets : socket'[t].at = socket[t].at
      /\ \A t \in Sockets : t # s => socket'[t] = socket[t]
  BY <1>1, SocketAtFacts
<1>3. LockInv /\ MapInv
  BY DEF SetupInv
<1>4. ASSUME NEW t \in Sockets PROVE Onward(t)
  <2>1. CASE t = s
    BY <1>2, <1>3, <2>1 DEF Onward, LockInv, InSetup
  <2>2. CASE t # s
    <3>1. socket'[t] = socket[t]
      BY <1>2, <2>2
    <3>2. socket[t].pc \in InSetup => setup'[socket[t].at] = setup[socket[t].at]
      BY <1>3, <2>2, UnlockFacts, NodeTypes
    <3> QED BY <1>3, <3>1, <3>2 DEF Onward, LockInv, InSetup
  <2> QED BY <2>1, <2>2
<1>5. ASSUME NEW r \in Replicas PROVE MapShrinks(r) /\ SweepGoesOn(r)
  <2> SUFFICES ASSUME connections'[r] # NoSocket
               PROVE  /\ connections'[r] = connections[r]
                      /\ socket'[connections[r]].pc \in {"ack", "open"}
    BY DEF MapShrinks, SweepGoesOn
  <2>0. connections'[r] = connections[r]
    BY DropFacts, NodeTypes
  <2>1. connections[r] \in Sockets /\ connections[r] # NoSocket
    BY <2>0, NodeTypes
  <2>2. socket[connections[r]].at = r /\ socket[connections[r]].pc \in {"ack", "open"}
    BY <1>3, <2>1 DEF MapInv
  <2>3. CASE connections[r] # s
    BY <1>2, <2>0, <2>1, <2>2, <2>3
  <2>4. CASE connections[r] = s
    <3>1. ~DropConnection(socket[s].at, s)
      <4> SUFFICES ASSUME DropConnection(socket[s].at, s) PROVE FALSE
        OBVIOUS
      <4>1. r = socket[s].at => connections[r] # s
        BY DropFacts, NodeTypes
      <4> QED BY <2>2, <2>4, <4>1
    <3> QED BY <1>2, <2>0, <2>2, <2>4, <3>1
  <2> QED BY <2>3, <2>4
<1> QED BY <1>2, <1>4, <1>5 DEF Retreat

\* A retreat that keeps the types keeps the invariant.
LEMMA RetreatKeepsInv ==
    ASSUME NodeOwnerInv, NodeOwnerTypeOK', Retreat, BusyInv', RoutedInv'
    PROVE  NodeOwnerInv'
BY RetreatKeeps DEF NodeOwnerInv

\* Sweeps at rest, and requests at rest.
LEMMA RestBusy ==
    ASSUME BusyInv, UNCHANGED <<renewer, monitor>>
    PROVE  BusyInv'
BY DEF BusyInv

LEMMA RestRouted ==
    ASSUME RoutedInv, UNCHANGED routed
    PROVE  RoutedInv'
BY DEF RoutedInv

\* The end of a set-up that does not succeed, or of a loop, keeps the
\* invariant, and so does its successful end.
LEMMA SocketEnds ==
    ASSUME NodeOwnerInv, NEW s \in Sockets,
           \/ ClaimOwner(s) /\ ~OwnerClaimable(s)
           \/ ClaimOwnerFails(s) /\ UNCHANGED <<owner, live, lost>>
           \/ BindingRefused(s) \/ Acknowledge(s) \/ AcknowledgeFails(s) \/ UndoClaim(s)
           \/ LeaveLoop(s) \/ ReleaseAfterLoop(s)
    PROVE  NodeOwnerInv'
<1>1. NodeOwnerTypeOK /\ BusyInv /\ SetupInv /\ RoutedInv
  BY DEF NodeOwnerInv
<1>2. UNCHANGED <<active, up, renewer, monitor, kicks, routed>>
  BY DEF ClaimOwner, ClaimOwnerFails, BindingRefused, Acknowledge, AcknowledgeFails, UndoClaim,
         LeaveLoop, ReleaseAfterLoop
<1>3. BusyInv' /\ RoutedInv'
  BY <1>1, <1>2, RestBusy, RestRouted
<1>4. ReleaseOwner(s) \/ UNCHANGED <<owner, live, lost>>
  BY DEF ClaimOwner, ClaimOwnerFails, BindingRefused, Acknowledge, AcknowledgeFails, UndoClaim,
         LeaveLoop, ReleaseAfterLoop
<1>5. RecordEmptied /\ owner' \in Sockets \cup {NoSocket} /\ live' \in BOOLEAN
      /\ lost' \in SUBSET Sockets
  BY <1>1, <1>4, NodeTypes, ReleaseFacts
<1>6. PICK p \in {"open", "undo", "leave", "gone"} :
        /\ SocketAt(s, p)
        /\ socket[s].pc # "idle"
        /\ p = "open" => socket[s].pc = "ack"
        /\ p = "undo" => socket[s].pc \in {"register", "ack"} /\ setup' = setup
        /\ (Unlock(s) /\ socket[s].pc \in InSetup) \/ setup' = setup
        /\ \/ UNCHANGED connections /\ (socket[s].pc \notin {"ack", "open"} \/ p = "open")
           \/ DropConnection(socket[s].at, s)
        /\ UNCHANGED closing \/ DropConnection(socket[s].at, s)
  <2>1. CASE ClaimOwner(s) /\ ~OwnerClaimable(s)
    BY <2>1 DEF ClaimOwner, InSetup
  <2>2. CASE ClaimOwnerFails(s) /\ UNCHANGED <<owner, live, lost>>
    BY <2>2 DEF ClaimOwnerFails, InSetup
  <2>3. CASE BindingRefused(s)
    BY <2>3 DEF BindingRefused
  <2>4. CASE Acknowledge(s)
    BY <2>4 DEF Acknowledge, InSetup
  <2>5. CASE AcknowledgeFails(s)
    BY <2>5 DEF AcknowledgeFails
  <2>6. CASE UndoClaim(s)
    BY <2>6 DEF UndoClaim, InSetup
  <2>7. CASE LeaveLoop(s)
    BY <2>7 DEF LeaveLoop
  <2>8. CASE ReleaseAfterLoop(s)
    BY <2>8 DEF ReleaseAfterLoop
  <2> QED BY <2>1, <2>2, <2>3, <2>4, <2>5, <2>6, <2>7, <2>8
<1>7. Retreat /\ socket' \in [Sockets -> SocketDoc]
  BY <1>1, <1>2, <1>5, <1>6, OneSocketMoves
<1>8. /\ connections' \in [Replicas -> Sockets \cup {NoSocket}]
      /\ closing' \in SUBSET Sockets
  BY <1>1, <1>6, NodeTypes, DropFacts
<1>9. setup' \in [Replicas -> Sockets \cup {NoSocket}]
  BY <1>1, <1>6, NodeTypes, UnlockFacts DEF SetupInv
<1>10. NodeOwnerTypeOK'
  BY <1>1, <1>2, <1>5, <1>7, <1>8, <1>9, NodeTypes DEF NodeOwnerTypeOK, SocketDoc
<1> QED BY <1>3, <1>7, <1>10, RetreatKeepsInv

\* A heartbeat and a disconnect that arrives keep the invariant.
LEMMA PongKeeps ==
    ASSUME NodeOwnerInv, NEW s \in Sockets, Pong(s)
    PROVE  NodeOwnerInv'
<1>1. NodeOwnerTypeOK /\ BusyInv /\ SetupInv /\ RoutedInv
  BY DEF NodeOwnerInv
<1>2. UNCHANGED <<active, up, setup, renewer, monitor, kicks, routed>> /\ socket[s].pc = "open"
  BY DEF Pong
<1>3. BusyInv' /\ RoutedInv'
  BY <1>1, <1>2, RestBusy, RestRouted
<1>4. live' \in BOOLEAN /\ owner' = owner /\ lost' = lost /\ RecordEmptied
  BY <1>1, NodeTypes, RenewFacts DEF Pong, RecordEmptied
<1>5. CASE OwnerRenewed(s)
  <2>1. UNCHANGED <<socket, connections, closing>>
    BY <1>5 DEF Pong
  <2>2. Retreat
    BY <1>1, <1>2, <1>4, <2>1, RestOnward, RestMap DEF Retreat, SetupInv, SweepGoesOn
  <2>3. NodeOwnerTypeOK'
    BY <1>1, <1>2, <1>4, <2>1 DEF NodeOwnerTypeOK
  <2> QED BY <1>3, <2>2, <2>3, RetreatKeepsInv
<1>6. CASE ~OwnerRenewed(s)
  <2>1. SocketAt(s, "leave") /\ DropConnection(socket[s].at, s)
    BY <1>6 DEF Pong
  <2>2. Retreat /\ socket' \in [Sockets -> SocketDoc]
    BY <1>1, <1>2, <1>4, <2>1, OneSocketMoves
  <2>3. /\ connections' \in [Replicas -> Sockets \cup {NoSocket}]
        /\ closing' \in SUBSET Sockets
    BY <1>1, <2>1, NodeTypes, DropFacts
  <2>4. NodeOwnerTypeOK'
    BY <1>1, <1>2, <1>4, <2>2, <2>3, NodeTypes DEF NodeOwnerTypeOK, SocketDoc
  <2> QED BY <1>3, <2>2, <2>4, RetreatKeepsInv
<1> QED BY <1>5, <1>6

LEMMA KickKeeps ==
    ASSUME NodeOwnerInv, NEW s \in Sockets, Kick(s)
    PROVE  NodeOwnerInv'
<1>1. NodeOwnerTypeOK /\ BusyInv /\ SetupInv /\ RoutedInv
  BY DEF NodeOwnerInv
<1>2. UNCHANGED <<owner, live, active, up, setup, socket, renewer, monitor, routed, lost>>
      /\ kicks' \in SUBSET Sockets
  BY <1>1, NodeTypes DEF Kick
<1>3. BusyInv' /\ RoutedInv'
  BY <1>1, <1>2, RestBusy, RestRouted
<1>4. /\ connections' \in [Replicas -> Sockets \cup {NoSocket}]
      /\ closing' \in SUBSET Sockets
      /\ \A r \in Replicas : connections'[r] # NoSocket => connections'[r] = connections[r]
  BY <1>1, NodeTypes, DropFacts DEF Kick
<1>5. \A r \in Replicas : MapShrinks(r)
  BY <1>1, <1>2, <1>4 DEF SetupInv, MapInv, MapShrinks
<1>6. Retreat
  BY <1>1, <1>2, <1>5, RestOnward DEF Retreat, SetupInv, SweepGoesOn, RecordEmptied
<1>7. NodeOwnerTypeOK'
  BY <1>1, <1>2, <1>4 DEF NodeOwnerTypeOK
<1> QED BY <1>3, <1>6, <1>7, RetreatKeepsInv

\* A crash takes the sockets of one replica, with its map entry and lock.
LEMMA CrashKeeps ==
    ASSUME NodeOwnerInv, NEW r \in Replicas, ReplicaCrash(r)
    PROVE  NodeOwnerInv'
<1>1. NodeOwnerTypeOK /\ BusyInv /\ SetupInv /\ RoutedInv
  BY DEF NodeOwnerInv
<1>2. UNCHANGED <<owner, live, active, closing, kicks, routed, lost>> /\ up' \in SUBSET Replicas
  BY <1>1, NodeTypes DEF ReplicaCrash
<1> DEFINE none == [pc |-> "idle", on |-> NoSocket]
<1>3. none \in RenewerDoc /\ none \in MonitorDoc /\ none.pc = "idle" /\ none.on = NoSocket
  BY DEF RenewerDoc, MonitorDoc
<1>4. renewer' = [renewer EXCEPT ![r] = none] /\ monitor' = [monitor EXCEPT ![r] = none]
  BY DEF ReplicaCrash
<1> HIDE DEF none
<1>5. /\ renewer' \in [Replicas -> RenewerDoc] /\ monitor' \in [Replicas -> MonitorDoc]
      /\ renewer'[r] = none /\ monitor'[r] = none
      /\ \A x \in Replicas : x # r => renewer'[x] = renewer[x] /\ monitor'[x] = monitor[x]
  BY <1>1, <1>3, <1>4, NodeTypes
<1>6. BusyInv'
  BY <1>1, <1>3, <1>5 DEF BusyInv
<1>7. ASSUME NEW t \in Sockets
      PROVE  /\ socket'[t] \in SocketDoc
             /\ socket'[t].at = socket[t].at
             /\ socket[t].at = r => socket'[t].pc = "gone"
             /\ socket[t].at # r => socket'[t] = socket[t]
  <2>1. socket[t] \in SocketDoc
    BY <1>1, NodeTypes
  <2>2. socket'[t] = IF socket[t].at = r THEN [socket[t] EXCEPT !.pc = "gone"] ELSE socket[t]
    BY DEF ReplicaCrash
  <2> QED BY <2>1, <2>2 DEF SocketDoc, SocketState
<1>8. socket' \in [Sockets -> SocketDoc]
  <2>1. socket' = [t \in Sockets |-> socket'[t]]
    BY DEF ReplicaCrash
  <2> QED BY <1>7, <2>1
<1>9. /\ connections' \in [Replicas -> Sockets \cup {NoSocket}]
      /\ setup' \in [Replicas -> Sockets \cup {NoSocket}]
      /\ connections'[r] = NoSocket
      /\ \A x \in Replicas : x # r => connections'[x] = connections[x] /\ setup'[x] = setup[x]
  BY <1>1, NodeTypes DEF ReplicaCrash
<1>10. ASSUME NEW t \in Sockets PROVE Onward(t)
  <2>1. CASE socket[t].at = r
    BY <1>7, <2>1 DEF Onward, InSetup
  <2>2. CASE socket[t].at # r
    <3>1. socket'[t] = socket[t] /\ (socket[t].pc # "idle" => socket[t].at \in Replicas)
      BY <1>1, <1>7, <2>2 DEF SetupInv, LockInv
    <3> QED BY <1>9, <2>2, <3>1 DEF Onward, InSetup
  <2> QED BY <2>1, <2>2
<1>11. ASSUME NEW x \in Replicas PROVE MapShrinks(x) /\ SweepGoesOn(x)
  <2>1. CASE x = r
    BY <1>3, <1>5, <1>9, <2>1 DEF MapShrinks, SweepGoesOn
  <2>2. CASE x # r
    <3>1. connections'[x] = connections[x] /\ connections[x] \in Sockets \cup {NoSocket}
      BY <1>1, <1>9, <2>2, NodeTypes
    <3>2. connections[x] # NoSocket => socket'[connections[x]].pc \in {"ack", "open"}
      BY <1>1, <1>7, <2>2, <3>1 DEF SetupInv, MapInv
    <3> QED BY <1>5, <2>2, <3>1, <3>2 DEF MapShrinks, SweepGoesOn
  <2> QED BY <2>1, <2>2
<1>12. Retreat
  BY <1>2, <1>10, <1>11 DEF Retreat, RecordEmptied
<1>13. NodeOwnerTypeOK'
  BY <1>1, <1>2, <1>5, <1>8, <1>9, NodeTypes DEF NodeOwnerTypeOK, SocketDoc, RenewerDoc, MonitorDoc
<1> QED BY <1>1, <1>2, <1>6, <1>12, <1>13, RestRouted, RetreatKeepsInv

\* The lease sweep writes no record and only empties the map.
LEMMA RenewerKeeps ==
    ASSUME NodeOwnerInv, NEW r \in Replicas, RenewerStep(r)
    PROVE  NodeOwnerInv'
<1>1. NodeOwnerTypeOK /\ BusyInv /\ SetupInv /\ RoutedInv
  BY DEF NodeOwnerInv
<1>2. UNCHANGED <<active, up, setup, socket, monitor, kicks, routed>>
  BY DEF RenewerStep, RenewerStart, RenewerRenews, RenewerFails, RenewerDrops
<1>3. live' \in BOOLEAN /\ owner' = owner /\ lost' = lost
  BY <1>1, NodeTypes, RenewFacts DEF RenewerStep, RenewerStart, RenewerRenews, RenewerFails, RenewerDrops
<1>4. PICK k : /\ renewer' = [renewer EXCEPT ![r] = k]
               /\ k \in RenewerDoc
               /\ k.pc # "idle" => k.on # NoSocket
  <2> DEFINE none == [pc |-> "idle", on |-> NoSocket]
             start == [pc |-> "renew", on |-> connections[r]]
             drop == [pc |-> "drop", on |-> renewer[r].on]
  <2>1. none \in RenewerDoc /\ none.pc = "idle"
    BY DEF RenewerDoc
  <2>2. start \in RenewerDoc /\ start.on = connections[r]
    BY <1>1, NodeTypes DEF RenewerDoc
  <2>3. drop \in RenewerDoc /\ drop.on = renewer[r].on
    BY <1>1, NodeTypes DEF RenewerDoc
  <2>4. \/ renewer' = [renewer EXCEPT ![r] = none]
        \/ renewer' = [renewer EXCEPT ![r] = start] /\ connections[r] # NoSocket
        \/ renewer' = [renewer EXCEPT ![r] = drop] /\ renewer[r].pc = "renew"
    BY DEF RenewerStep, RenewerStart, RenewerRenews, RenewerFails, RenewerDrops
  <2>5. renewer[r].pc = "renew" => renewer[r].on # NoSocket
    BY <1>1 DEF BusyInv
  <2> HIDE DEF none, start, drop
  <2> QED BY <2>1, <2>2, <2>3, <2>4, <2>5
<1>5. renewer' \in [Replicas -> RenewerDoc] /\ BusyInv'
  <2>1. /\ renewer' \in [Replicas -> RenewerDoc] /\ renewer'[r] = k
        /\ \A x \in Replicas : x # r => renewer'[x] = renewer[x]
    BY <1>1, <1>4, NodeTypes
  <2> QED BY <1>1, <1>2, <1>4, <2>1 DEF BusyInv
<1>6. /\ connections' \in [Replicas -> Sockets \cup {NoSocket}]
      /\ closing' \in SUBSET Sockets
      /\ \A x \in Replicas : connections'[x] # NoSocket => connections'[x] = connections[x]
  <2>1. CASE RenewerDrops(r)
    <3>1. renewer[r].on \in Sockets /\ DropConnection(r, renewer[r].on)
      BY <1>1, <2>1, NodeTypes DEF RenewerDrops, BusyInv, RenewerDoc
    <3> QED BY <1>1, <3>1, NodeTypes, DropFacts
  <2>2. CASE UNCHANGED <<connections, closing>>
    BY <1>1, <2>2, NodeTypes
  <2> QED BY <2>1, <2>2 DEF RenewerStep, RenewerStart, RenewerRenews, RenewerFails
<1>7. \A x \in Replicas : MapShrinks(x)
  BY <1>1, <1>2, <1>6 DEF SetupInv, MapInv, MapShrinks
<1>8. Retreat
  BY <1>1, <1>2, <1>3, <1>7, RestOnward DEF Retreat, SetupInv, SweepGoesOn, RecordEmptied
<1>9. NodeOwnerTypeOK'
  BY <1>1, <1>2, <1>3, <1>5, <1>6, NodeTypes DEF NodeOwnerTypeOK, RenewerDoc
<1> QED BY <1>1, <1>2, <1>5, <1>8, <1>9, RestRouted, RetreatKeepsInv

\* The heartbeat sweep takes a socket out of the map before it releases.
LEMMA MonitorKeeps ==
    ASSUME NodeOwnerInv, NEW r \in Replicas, MonitorStep(r)
    PROVE  NodeOwnerInv'
<1>1. NodeOwnerTypeOK /\ BusyInv /\ SetupInv /\ RoutedInv
  BY DEF NodeOwnerInv
<1>2. UNCHANGED <<active, up, setup, socket, renewer, kicks, routed>>
  BY DEF MonitorStep, MonitorStart, MonitorTimesOut, MonitorReleases, MonitorEnds
<1>3. RecordEmptied /\ owner' \in Sockets \cup {NoSocket} /\ live' \in BOOLEAN
      /\ lost' \in SUBSET Sockets
  <2>1. ReleaseOwner(monitor[r].on) \/ UNCHANGED <<owner, live, lost>>
    BY DEF MonitorStep, MonitorStart, MonitorTimesOut, MonitorReleases, MonitorEnds
  <2> QED BY <1>1, <2>1, NodeTypes, ReleaseFacts
<1>4. /\ connections' \in [Replicas -> Sockets \cup {NoSocket}]
      /\ closing' \in SUBSET Sockets
      /\ \A x \in Replicas : connections'[x] # NoSocket => connections'[x] = connections[x]
      /\ MonitorTimesOut(r) => connections'[r] # monitor[r].on /\ monitor[r].on # NoSocket
  <2>1. CASE MonitorTimesOut(r)
    <3>1. /\ monitor[r].on \in Sockets /\ monitor[r].on # NoSocket
          /\ DropConnection(r, monitor[r].on)
      BY <1>1, <2>1, NodeTypes DEF MonitorTimesOut, BusyInv, MonitorDoc
    <3> QED BY <1>1, <3>1, NodeTypes, DropFacts
  <2>2. CASE UNCHANGED <<connections, closing>> /\ ~MonitorTimesOut(r)
    BY <1>1, <2>2, NodeTypes
  <2> QED BY <2>1, <2>2 DEF MonitorStep, MonitorStart, MonitorReleases, MonitorEnds
<1>5. PICK k : /\ monitor' = [monitor EXCEPT ![r] = k]
               /\ k \in MonitorDoc
               /\ k.pc # "idle" => k.on # NoSocket
               /\ \/ k.on = NoSocket
                  \/ k.on = connections[r] /\ k.pc # "release"
                  \/ k.on = monitor[r].on /\ connections'[r] # monitor[r].on
  <2> DEFINE none == [pc |-> "idle", on |-> NoSocket]
             start == [pc |-> "check", on |-> connections[r]]
             late == [monitor[r] EXCEPT !.pc = "release"]
  <2>1. none \in MonitorDoc /\ none.pc = "idle" /\ none.on = NoSocket
    BY DEF MonitorDoc
  <2>2. start \in MonitorDoc /\ start.on = connections[r] /\ start.pc = "check"
    BY <1>1, NodeTypes DEF MonitorDoc
  <2>3. monitor[r] \in MonitorDoc
    BY <1>1, NodeTypes
  <2>4. late \in MonitorDoc /\ late.on = monitor[r].on
    BY <2>3 DEF MonitorDoc
  <2>5. \/ monitor' = [monitor EXCEPT ![r] = none]
        \/ monitor' = [monitor EXCEPT ![r] = start] /\ connections[r] # NoSocket
        \/ monitor' = [monitor EXCEPT ![r] = late] /\ MonitorTimesOut(r)
    BY DEF MonitorStep, MonitorStart, MonitorTimesOut, MonitorReleases, MonitorEnds
  <2> HIDE DEF none, start, late
  <2> QED BY <1>4, <2>1, <2>2, <2>4, <2>5
<1>6. /\ monitor' \in [Replicas -> MonitorDoc] /\ monitor'[r] = k
      /\ \A x \in Replicas : x # r => monitor'[x] = monitor[x]
  BY <1>1, <1>5, NodeTypes
<1>7. BusyInv'
  BY <1>1, <1>2, <1>5, <1>6 DEF BusyInv
<1>8. \A x \in Replicas : MapShrinks(x)
  BY <1>1, <1>2, <1>4 DEF SetupInv, MapInv, MapShrinks
<1>9. \A x \in Replicas : SweepGoesOn(x)
  BY <1>5, <1>6 DEF SweepGoesOn
<1>10. Retreat
  BY <1>1, <1>2, <1>3, <1>8, <1>9, RestOnward DEF Retreat, SetupInv
<1>11. NodeOwnerTypeOK'
  BY <1>1, <1>2, <1>3, <1>4, <1>6, NodeTypes DEF NodeOwnerTypeOK, MonitorDoc
<1> QED BY <1>1, <1>2, <1>7, <1>10, <1>11, RestRouted, RetreatKeepsInv

\* Expiry, deletion and disconnection keep the invariant.
LEMMA RecordStepKeeps ==
    ASSUME NodeOwnerInv, OwnerExpires \/ ClearExpired \/ DeleteNode \/ DisconnectNode
    PROVE  NodeOwnerInv'
<1>1. NodeOwnerTypeOK /\ BusyInv /\ SetupInv /\ RoutedInv
  BY DEF NodeOwnerInv
<1>2. UNCHANGED <<up, connections, setup, socket, closing, renewer, monitor, routed>>
  BY DEF OwnerExpires, ClearExpired, DeleteNode, DisconnectNode
<1>3. RecordEmptied
  BY DEF OwnerExpires, ClearExpired, DeleteNode, DisconnectNode, SetOwner, RecordEmptied
<1>4. /\ owner' \in Sockets \cup {NoSocket} /\ live' \in BOOLEAN /\ active' \in BOOLEAN
      /\ lost' \in SUBSET Sockets /\ kicks' \in SUBSET Sockets
  BY <1>1, NodeTypes DEF OwnerExpires, ClearExpired, DeleteNode, DisconnectNode, SetOwner
<1>5. Retreat
  BY <1>1, <1>2, <1>3, RestOnward, RestMap DEF Retreat, SetupInv, SweepGoesOn
<1>6. NodeOwnerTypeOK'
  BY <1>1, <1>2, <1>4 DEF NodeOwnerTypeOK
<1> QED BY <1>1, <1>2, <1>5, <1>6, RestBusy, RestRouted, RetreatKeepsInv

\* A request is routed to the owner of the moment, and stays with it.
LEMMA RequestKeeps ==
    ASSUME NodeOwnerInv, NEW q \in Dispatches, RequestStep(q)
    PROVE  NodeOwnerInv'
<1>1. NodeOwnerTypeOK /\ BusyInv /\ SetupInv /\ RoutedInv
  BY DEF NodeOwnerInv
<1>2. UNCHANGED <<owner, live, active, up, connections, setup, socket, closing,
                  renewer, monitor, kicks, lost>>
  BY DEF RequestStep, RouteRequest, AuthorizeFence, SendRequest
<1>3. PICK k : /\ routed' = [routed EXCEPT ![q] = k]
               /\ k \in RoutedDoc
               /\ k.on \notin k.lost
  <2>1. CASE \E r \in Replicas : RouteRequest(q, r)
    <3>1. PICK r \in Replicas : RouteRequest(q, r)
      BY <2>1
    <3> DEFINE p == IF ~live \/ ~active THEN "refused"
                    ELSE IF socket[owner].at # r THEN "forwarded"
                    ELSE IF connections[r] = owner THEN "authorized"
                    ELSE "refused"
               k == [pc |-> p, on |-> owner, lost |-> lost]
    <3>2. p \in RequestState
      BY DEF RequestState
    <3>3. routed' = [routed EXCEPT ![q] = k]
      BY <3>1 DEF RouteRequest
    <3> HIDE DEF p
    <3>4. k \in RoutedDoc /\ k.on \notin k.lost
      BY <1>1, <3>2, NodeTypes DEF RoutedDoc, SetupInv, ClaimInv
    <3> QED BY <3>3, <3>4
  <2>2. CASE AuthorizeFence(q) \/ SendRequest(q)
    <3> DEFINE k(p) == [routed[q] EXCEPT !.pc = p]
    <3>1. routed[q] \in RoutedDoc /\ routed[q].pc # "idle"
      BY <1>1, <2>2, NodeTypes DEF AuthorizeFence, SendRequest
    <3>2. ASSUME NEW p \in RequestState
          PROVE  k(p) \in RoutedDoc /\ k(p).on = routed[q].on /\ k(p).lost = routed[q].lost
      BY <3>1 DEF RoutedDoc
    <3>3. \E p \in RequestState : routed' = [routed EXCEPT ![q] = k(p)]
      <4>1. CASE AuthorizeFence(q)
        BY <4>1 DEF AuthorizeFence, RequestState
      <4>2. CASE SendRequest(q)
        BY <4>2 DEF SendRequest, RequestState
      <4> QED BY <2>2, <4>1, <4>2
    <3>4. routed[q].on \notin routed[q].lost
      BY <1>1, <3>1 DEF RoutedInv
    <3> HIDE DEF k
    <3> QED BY <3>2, <3>3, <3>4
  <2> QED BY <2>1, <2>2 DEF RequestStep
<1>4. /\ routed' \in [Dispatches -> RoutedDoc] /\ routed'[q] = k
      /\ \A x \in Dispatches : x # q => routed'[x] = routed[x]
  BY <1>1, <1>3, NodeTypes
<1>5. RoutedInv'
  BY <1>1, <1>3, <1>4 DEF RoutedInv
<1>6. Retreat
  BY <1>1, <1>2, RestOnward, RestMap DEF Retreat, SetupInv, SweepGoesOn, RecordEmptied
<1>7. NodeOwnerTypeOK'
  BY <1>1, <1>2, <1>4, NodeTypes DEF NodeOwnerTypeOK, RoutedDoc
<1> QED BY <1>1, <1>2, <1>5, <1>6, <1>7, RestBusy, RetreatKeepsInv

\* A set-up begins for a socket nobody knows, under a free lock.
LEMMA LockSetupKeeps ==
    ASSUME NodeOwnerInv, NEW s \in Sockets, NEW r \in Replicas, LockSetup(s, r)
    PROVE  NodeOwnerInv'
<1>1. NodeOwnerTypeOK /\ BusyInv /\ SetupInv /\ RoutedInv
  BY DEF NodeOwnerInv
<1>2. UNCHANGED <<owner, live, active, up, connections, closing, renewer, monitor,
                  kicks, routed, lost>>
  BY DEF LockSetup
<1> DEFINE k == [pc |-> "claim", at |-> r]
<1>3. k \in SocketDoc /\ k.pc = "claim" /\ k.at = r
  BY DEF SocketDoc, SocketState
<1>4. socket' = [socket EXCEPT ![s] = k] /\ socket[s].pc = "idle"
  BY DEF LockSetup
<1> HIDE DEF k
<1>5. /\ socket' \in [Sockets -> SocketDoc] /\ socket'[s] = k
      /\ \A t \in Sockets : t # s => socket'[t] = socket[t]
  BY <1>1, <1>3, <1>4, NodeTypes
<1>6. /\ setup' \in [Replicas -> Sockets \cup {NoSocket}]
      /\ setup[r] = NoSocket /\ setup'[r] = s
      /\ \A x \in Replicas : x # r => setup'[x] = setup[x]
  BY <1>1, NodeTypes DEF LockSetup
<1>7. NodeOwnerTypeOK'
  BY <1>1, <1>2, <1>5, <1>6, NodeTypes DEF NodeOwnerTypeOK, SocketDoc
<1>8. LockInv'
  <2> SUFFICES ASSUME NEW t \in Sockets
               PROVE  /\ socket'[t].pc # "idle" => socket'[t].at \in Replicas
                      /\ socket'[t].pc \in InSetup => setup'[socket'[t].at] = t
    BY DEF LockInv
  <2>1. CASE t = s
    BY <1>3, <1>5, <1>6, <2>1
  <2>2. CASE t # s
    <3>1. /\ socket'[t] = socket[t]
          /\ socket[t].pc # "idle" => socket[t].at \in Replicas
          /\ socket[t].pc \in InSetup => setup[socket[t].at] = t
      BY <1>1, <1>5, <2>2 DEF SetupInv, LockInv
    <3> QED BY <1>6, <3>1, NodeOwnerAssumption DEF InSetup
  <2> QED BY <2>1, <2>2
<1>9. \A x \in Replicas : connections[x] # s
  BY <1>1, <1>4, NodeOwnerAssumption DEF SetupInv, MapInv
<1>10. MapInv'
  BY <1>1, <1>2, <1>5, <1>9, NodeTypes DEF SetupInv, MapInv
<1>11. owner # s /\ s \notin lost
  BY <1>1, <1>4, NodeOwnerAssumption DEF SetupInv, ClaimInv
<1>12. ClaimInv'
  BY <1>1, <1>2, <1>5, <1>11, NodeTypes DEF SetupInv, ClaimInv
<1>13. SerialInv'
  BY <1>1, <1>2, <1>3, <1>5, <1>11, NodeTypes DEF SetupInv, SerialInv
<1>14. MapFollowsRecord'
  BY <1>1, <1>2, <1>5, <1>11 DEF SetupInv, MapFollowsRecord
<1>15. ASSUME NEW x \in Replicas PROVE monitor[x].on # s
  BY <1>1, <1>4, NodeOwnerAssumption DEF SetupInv, SweepInv
<1>16. \A x \in Replicas : monitor[x].on \in Sockets \cup {NoSocket}
  BY <1>1, NodeTypes DEF MonitorDoc
<1>17. SweepInv'
  BY <1>1, <1>2, <1>5, <1>15, <1>16 DEF SetupInv, SweepInv
<1> QED BY <1>1, <1>2, <1>7, <1>8, <1>10, <1>12, <1>13, <1>14, <1>17, RestBusy, RestRouted
        DEF NodeOwnerInv, SetupInv

\* A claim that took effect: no other socket of the replica is being set up.
LEMMA ClaimKeeps ==
    ASSUME NodeOwnerInv, NEW s \in Sockets, SetOwner(s),
           \/ ClaimOwner(s) /\ OwnerClaimable(s)
           \/ ClaimOwnerFails(s)
    PROVE  NodeOwnerInv'
<1>1. NodeOwnerTypeOK /\ BusyInv /\ SetupInv /\ RoutedInv
  BY DEF NodeOwnerInv
<1>2. /\ UNCHANGED <<active, up, connections, closing, renewer, monitor, kicks, routed>>
      /\ socket[s].pc = "claim"
  BY DEF ClaimOwner, ClaimOwnerFails
<1>3. PICK p \in {"register", "gone"} :
        SocketAt(s, p) /\ (setup' = setup \/ (p = "gone" /\ Unlock(s)))
  BY DEF ClaimOwner, ClaimOwnerFails
<1>4. /\ socket' \in [Sockets -> SocketDoc]
      /\ socket'[s].pc = p
      /\ \A t \in Sockets : socket'[t].at = socket[t].at
      /\ \A t \in Sockets : t # s => socket'[t] = socket[t]
  BY <1>1, <1>3, NodeTypes, SocketAtFacts DEF SocketState
<1>5. setup' \in [Replicas -> Sockets \cup {NoSocket}]
      /\ \A t \in Sockets : t # s /\ socket[t].pc \in InSetup =>
            setup'[socket[t].at] = setup[socket[t].at]
  BY <1>1, <1>2, <1>3, NodeTypes, UnlockFacts DEF SetupInv, InSetup
<1>6. /\ owner' = s /\ live' \in BOOLEAN
      /\ lost' = lost \cup ({owner} \ {s, NoSocket}) /\ lost' \in SUBSET Sockets
  BY <1>1, NodeTypes DEF SetOwner
<1>7. NodeOwnerTypeOK'
  BY <1>1, <1>2, <1>4, <1>5, <1>6, NodeTypes DEF NodeOwnerTypeOK, SocketDoc
<1>8. LockInv'
  <2> SUFFICES ASSUME NEW t \in Sockets
               PROVE  /\ socket'[t].pc # "idle" => socket'[t].at \in Replicas
                      /\ socket'[t].pc \in InSetup => setup'[socket'[t].at] = t
    BY DEF LockInv
  <2>1. CASE t = s
    BY <1>1, <1>2, <1>3, <1>4, <2>1 DEF SetupInv, LockInv, InSetup
  <2>2. CASE t # s
    BY <1>1, <1>4, <1>5, <2>2 DEF SetupInv, LockInv
  <2> QED BY <2>1, <2>2
<1>9. \A x \in Replicas : connections[x] # s
  BY <1>1, <1>2, NodeOwnerAssumption DEF SetupInv, MapInv
<1>10. MapInv'
  BY <1>1, <1>2, <1>4, <1>9, NodeTypes DEF SetupInv, MapInv
<1>11. s # owner /\ s \notin lost
  BY <1>1, <1>2, NodeOwnerAssumption DEF SetupInv, ClaimInv
<1>12. ClaimInv'
  <2>1. ASSUME NEW t \in lost' PROVE t # s /\ socket'[t].pc \notin {"idle", "claim"}
    <3>1. t \in Sockets /\ t # s /\ socket[t].pc \notin {"idle", "claim"}
      BY <1>1, <1>6, <1>11, <2>1, NodeTypes DEF SetupInv, ClaimInv
    <3> QED BY <1>4, <3>1
  <2> QED BY <1>4, <1>6, <2>1 DEF ClaimInv
<1>13. SerialInv'
  <2> SUFFICES ASSUME NEW t \in Sockets, socket'[t].pc \in {"register", "ack", "undo"}, t # s
               PROVE  socket'[s].at # socket'[t].at
    BY <1>6 DEF SerialInv
  <2>1. socket[t].pc \in InSetup
    BY <1>4 DEF InSetup
  <2>2. setup[socket[t].at] = t /\ setup[socket[s].at] = s
    BY <1>1, <1>2, <2>1 DEF SetupInv, LockInv, InSetup
  <2> QED BY <1>4, <2>2
<1>14. MapFollowsRecord'
  BY <1>4, <1>6 DEF MapFollowsRecord
<1>15. \A x \in Replicas : monitor[x].on # s /\ monitor[x].on \in Sockets \cup {NoSocket}
  BY <1>1, <1>2, NodeTypes, NodeOwnerAssumption DEF SetupInv, SweepInv, MonitorDoc
<1>16. SweepInv'
  BY <1>1, <1>2, <1>4, <1>15 DEF SetupInv, SweepInv
<1> QED BY <1>1, <1>2, <1>7, <1>8, <1>10, <1>12, <1>13, <1>14, <1>16, RestBusy, RestRouted
        DEF NodeOwnerInv, SetupInv

\* A socket that enters the map replaces no owner: by the set-up lock no
\* other socket of the replica has claimed since.
LEMMA RegisterKeeps ==
    ASSUME NodeOwnerInv, NEW s \in Sockets, RegisterConnection(s)
    PROVE  NodeOwnerInv'
<1>1. NodeOwnerTypeOK /\ BusyInv /\ SetupInv /\ RoutedInv
  BY DEF NodeOwnerInv
<1>2. UNCHANGED <<owner, live, active, up, setup, renewer, monitor, kicks, routed, lost>>
      /\ socket[s].pc = "register"
  BY DEF RegisterConnection
<1>3. /\ socket' \in [Sockets -> SocketDoc]
      /\ socket'[s].pc = "ack"
      /\ \A t \in Sockets : socket'[t].at = socket[t].at
      /\ \A t \in Sockets : t # s => socket'[t] = socket[t]
  BY <1>1, NodeTypes, SocketAtFacts DEF SocketState, RegisterConnection
<1>4. socket[s].at \in Replicas
  BY <1>1, <1>2 DEF SetupInv, LockInv
<1>5. /\ connections' \in [Replicas -> Sockets \cup {NoSocket}]
      /\ connections'[socket[s].at] = s
      /\ \A x \in Replicas : x # socket[s].at => connections'[x] = connections[x]
      /\ closing' \in SUBSET Sockets
  BY <1>1, <1>4, NodeTypes DEF RegisterConnection
<1>6. NodeOwnerTypeOK'
  BY <1>1, <1>2, <1>3, <1>5, NodeTypes DEF NodeOwnerTypeOK, SocketDoc
<1>7. LockInv'
  BY <1>1, <1>2, <1>3, <1>4 DEF SetupInv, LockInv, InSetup
<1>8. MapInv'
  <2> SUFFICES ASSUME NEW r \in Replicas, connections'[r] # NoSocket
               PROVE  /\ socket'[connections'[r]].at = r
                      /\ socket'[connections'[r]].pc \in {"ack", "open"}
    BY DEF MapInv
  <2>1. CASE r = socket[s].at
    BY <1>3, <1>5, <2>1
  <2>2. CASE r # socket[s].at
    BY <1>1, <1>3, <1>5, <2>2, NodeTypes DEF SetupInv, MapInv
  <2> QED BY <2>1, <2>2
<1>9. ClaimInv'
  BY <1>1, <1>2, <1>3, NodeTypes DEF SetupInv, ClaimInv
<1>10. SerialInv'
  BY <1>1, <1>2, <1>3, NodeTypes DEF SetupInv, SerialInv
<1>11. MapFollowsRecord'
  <2> SUFFICES ASSUME NEW t \in Sockets, owner = t, socket'[t].pc \in {"ack", "open"}, t # s
               PROVE  connections'[socket[t].at] \in {t, NoSocket}
    BY <1>2, <1>3, <1>5 DEF MapFollowsRecord
  <2>1. socket[t].at # socket[s].at
    BY <1>1, <1>2, NodeOwnerAssumption DEF SetupInv, SerialInv
  <2>2. socket[t].at \in Replicas /\ socket[t].pc \in {"ack", "open"}
    BY <1>1, <1>3 DEF SetupInv, LockInv
  <2> QED BY <1>1, <1>5, <2>1, <2>2 DEF SetupInv, MapFollowsRecord
<1>12. \A x \in Replicas : monitor[x].on # s /\ monitor[x].on \in Sockets \cup {NoSocket}
  BY <1>1, <1>2, NodeTypes, NodeOwnerAssumption DEF SetupInv, SweepInv, MonitorDoc
<1>13. SweepInv'
  BY <1>1, <1>2, <1>3, <1>5, <1>12 DEF SetupInv, SweepInv
<1> QED BY <1>1, <1>2, <1>6, <1>7, <1>8, <1>9, <1>10, <1>11, <1>13, RestBusy, RestRouted
        DEF NodeOwnerInv, SetupInv

-----------------------------------------------------------------------------
\* Every step of the node's sockets, sweeps and requests preserves it.
LEMMA NodeOwnerInductive ==
    ASSUME NodeOwnerInv, [NodeOwnerNext]_ownerVars
    PROVE  NodeOwnerInv'
<1>1. ASSUME NEW s \in Sockets, SocketStep(s) PROVE NodeOwnerInv'
  <2>1. CASE \E r \in Replicas : LockSetup(s, r)
    BY <2>1, LockSetupKeeps
  <2>2. CASE ClaimOwner(s)
    BY <2>2, ClaimKeeps, SocketEnds DEF ClaimOwner
  <2>3. CASE ClaimOwnerFails(s)
    BY <2>3, ClaimKeeps, SocketEnds DEF ClaimOwnerFails
  <2> QED BY <1>1, <2>1, <2>2, <2>3, SocketEnds, RegisterKeeps, PongKeeps, KickKeeps
          DEF SocketStep
<1>2. CASE UNCHANGED ownerVars
  BY <1>2 DEF ownerVars, NodeOwnerInv, NodeOwnerTypeOK, BusyInv, SetupInv, RoutedInv, LockInv,
              MapInv, ClaimInv, SerialInv, MapFollowsRecord, SweepInv
<1> QED BY <1>1, <1>2, RenewerKeeps, MonitorKeeps, CrashKeeps, RequestKeeps, RecordStepKeeps
        DEF NodeOwnerNext

LEMMA NodeOwnerInitInv == NodeOwnerInit => NodeOwnerInv
<1> SUFFICES ASSUME NodeOwnerInit PROVE NodeOwnerInv
  OBVIOUS
<1>1. NodeOwnerTypeOK
  BY DEF NodeOwnerInit, NodeOwnerTypeOK, SocketState, RequestState
<1>2. \A s \in Sockets : socket[s].pc = "idle"
  BY DEF NodeOwnerInit
<1>3. \A r \in Replicas : /\ connections[r] = NoSocket
                          /\ renewer[r].pc = "idle"
                          /\ monitor[r].pc = "idle" /\ monitor[r].on = NoSocket
  BY DEF NodeOwnerInit
<1>4. \A q \in Dispatches : routed[q].pc = "idle"
  BY DEF NodeOwnerInit
<1>5. owner = NoSocket /\ lost = {}
  BY DEF NodeOwnerInit
<1>6. LockInv /\ SerialInv /\ MapFollowsRecord
  BY <1>2 DEF LockInv, SerialInv, MapFollowsRecord, InSetup
<1>7. MapInv /\ SweepInv /\ BusyInv /\ ClaimInv /\ RoutedInv
  BY <1>3, <1>4, <1>5 DEF MapInv, SweepInv, BusyInv, ClaimInv, RoutedInv
<1> QED BY <1>1, <1>6, <1>7 DEF NodeOwnerInv, SetupInv

(* The owner record, the maps, the set-up locks and the sweeps keep their  *)
(* types and the invariant of the set-up, for any number of sockets,       *)
(* replicas and requests (claim, register_connection, release).            *)
THEOREM NodeOwnerInvariant == NodeOwnerSpec => []NodeOwnerInv
<1>1. NodeOwnerInv /\ [NodeOwnerNext]_ownerVars => NodeOwnerInv'
  BY NodeOwnerInductive
<1> QED BY <1>1, NodeOwnerInitInv, PTL DEF NodeOwnerSpec

(* While the socket that has the record is set up, the map of its replica  *)
(* names no other, in whatever order sockets of the node reconnect.        *)
THEOREM MapAgreesWithRecord == NodeOwnerSpec => []MapFollowsRecord
<1>1. NodeOwnerInv => MapFollowsRecord
  BY DEF NodeOwnerInv, SetupInv
<1> QED BY <1>1, NodeOwnerInvariant, PTL

(* A request is never sent on a socket that had lost the node before the   *)
(* request was routed.                                                     *)
THEOREM RequestsReachTheOwner == NodeOwnerSpec => []SentToOwner
<1>1. NodeOwnerInv => SentToOwner
  BY DEF NodeOwnerInv, RoutedInv, SentToOwner
<1> QED BY <1>1, NodeOwnerInvariant, PTL

\* Which steps take a live record away.
LEMMA RecordStep ==
    ASSUME NodeOwnerInv, [NodeOwnerNext]_ownerVars,
           owner # NoSocket, live, owner' # owner
    PROVE  \/ connections[socket[owner].at] # owner
           \/ owner \in kicks'
           \/ owner' # NoSocket /\ socket[owner'].at = socket[owner].at
<1>1. NodeOwnerTypeOK /\ SetupInv
  BY DEF NodeOwnerInv
<1>2. owner \in Sockets
  BY <1>1, NodeTypes
<1>3. ASSUME NEW s \in Sockets, ClaimOwner(s) \/ ClaimOwnerFails(s)
      PROVE  owner' # NoSocket /\ socket[owner'].at = socket[owner].at
  <2>1. OwnerClaimable(s) /\ owner' = s
    BY <1>3 DEF ClaimOwner, ClaimOwnerFails, SetOwner
  <2> QED BY <2>1, NodeOwnerAssumption DEF OwnerClaimable
<1>4. ASSUME NEW s \in Sockets, UndoClaim(s) \/ ReleaseAfterLoop(s)
      PROVE  connections[socket[owner].at] # owner
  <2>1. owner = s /\ socket[s].pc \in {"undo", "leave"}
    BY <1>4 DEF UndoClaim, ReleaseAfterLoop, ReleaseOwner
  <2>2. socket[s].at \in Replicas
    BY <1>1, <2>1 DEF SetupInv, LockInv
  <2> QED BY <1>1, <2>1, <2>2 DEF SetupInv, MapInv
<1>5. ASSUME NEW r \in Replicas, MonitorReleases(r)
      PROVE  connections[socket[owner].at] # owner
  <2>1. owner = monitor[r].on /\ monitor[r].pc = "release"
    BY <1>5 DEF MonitorReleases, ReleaseOwner
  <2> QED BY <1>1, <2>1 DEF SetupInv, SweepInv
<1>6. CASE DisconnectNode
  BY <1>6 DEF DisconnectNode
<1>7. ASSUME NEW s \in Sockets, SocketStep(s)
      PROVE  ClaimOwner(s) \/ ClaimOwnerFails(s) \/ UndoClaim(s) \/ ReleaseAfterLoop(s)
  BY <1>7 DEF SocketStep, LockSetup, RegisterConnection, BindingRefused, Acknowledge,
              AcknowledgeFails, Pong, LeaveLoop, Kick, RenewOwner
<1>8. ASSUME NEW r \in Replicas, RenewerStep(r) \/ MonitorStep(r) \/ ReplicaCrash(r)
      PROVE  MonitorReleases(r)
  BY <1>8 DEF RenewerStep, RenewerStart, RenewerRenews, RenewerFails, RenewerDrops, RenewOwner,
              MonitorStep, MonitorStart, MonitorTimesOut, MonitorEnds, ReplicaCrash
<1>9. ASSUME NEW q \in Dispatches, RequestStep(q) PROVE FALSE
  BY <1>9 DEF RequestStep, RouteRequest, AuthorizeFence, SendRequest
<1>10. ~OwnerExpires /\ ~ClearExpired /\ ~DeleteNode
  BY DEF OwnerExpires, ClearExpired, DeleteNode
<1>11. NodeOwnerNext
  BY DEF ownerVars
<1> QED BY <1>3, <1>4, <1>5, <1>6, <1>7, <1>8, <1>9, <1>10, <1>11 DEF NodeOwnerNext

(* A live record is taken from a socket that its replica still has in the  *)
(* map only by a disconnect or by a newer socket of the same replica: no   *)
(* late clean-up, sweep or renewal of another socket does it.              *)
THEOREM ConnectedOwnerKeepsTheRecord == NodeOwnerSpec => RecordKeptWhileConnected
<1>1. ASSUME NodeOwnerInv, [NodeOwnerNext]_ownerVars
      PROVE  [owner # NoSocket /\ live /\ owner' # owner =>
                \/ connections[socket[owner].at] # owner
                \/ owner \in kicks'
                \/ owner' # NoSocket /\ socket[owner'].at = socket[owner].at]_ownerVars
  BY <1>1, RecordStep
<1> QED BY <1>1, NodeOwnerInvariant, PTL DEF NodeOwnerSpec, RecordKeptWhileConnected
=============================================================================
