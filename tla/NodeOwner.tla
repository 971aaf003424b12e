------------------------------ MODULE NodeOwner ------------------------------
(***************************************************************************)
(* Which socket of a node agent speaks for the node.  A socket is set up   *)
(* on one replica: it claims the node's owner record in the database and   *)
(* is entered in the replica's connection map.  Two background loops of    *)
(* every replica renew the record and look for heartbeats, requests are    *)
(* routed by the record, and an administrator may disconnect or delete the *)
(* node.                                                                   *)
(*                                                                         *)
(* Modelled from node_owner_service.rs, handlers/node_ws.rs,               *)
(* node_ws_manager.rs and node_dispatch.rs, for one node.  A replica here  *)
(* is one run of a process (instance and generation); one that crashed     *)
(* does not come back.  A socket stands for its connection id.  The        *)
(* record's expiry is a fact that time may establish whenever it is not    *)
(* renewed in between.                                                     *)
(***************************************************************************)
EXTENDS Naturals

CONSTANTS
    Sockets,      \* authenticated connections of the agent
    Replicas,     \* runs of the server process
    Dispatches,     \* calls to be sent to the node
    NoSocket,     \* no socket: empty record, map entry or lock
    NoReplica     \* a socket before its set-up

ASSUME NodeOwnerAssumption ==
    NoSocket \notin Sockets /\ NoReplica \notin Replicas

VARIABLES
    owner,        \* connection_owner: its socket, or NoSocket
    live,         \* the owner record has not expired
    active,       \* the node is not deleted
    up,           \* replicas that run
    connections,  \* each replica's map entry for the node
    setup,        \* holder of each replica's set-up lock
    socket,       \* what each socket does, and on which replica
    closing,      \* sockets told to close
    renewer,      \* the lease sweep of each replica
    monitor,      \* the heartbeat sweep of each replica
    kicks,        \* disconnects on their way to the socket's replica
    routed,       \* requests on their way to the node
    lost          \* history: sockets that owned the node and no longer do

ownerVars == <<owner, live, active, up, connections, setup, socket, closing,
               renewer, monitor, kicks, routed, lost>>

SocketState == {"idle", "claim", "register", "ack", "undo", "open", "leave", "gone"}
RequestState == {"idle", "forwarded", "authorized", "sent", "refused"}

(* Every variable has its type.                                            *)
NodeOwnerTypeOK ==
    /\ owner \in Sockets \cup {NoSocket}
    /\ live \in BOOLEAN
    /\ active \in BOOLEAN
    /\ up \in SUBSET Replicas
    /\ connections \in [Replicas -> Sockets \cup {NoSocket}]
    /\ setup \in [Replicas -> Sockets \cup {NoSocket}]
    /\ socket \in [Sockets -> [pc : SocketState, at : Replicas \cup {NoReplica}]]
    /\ closing \in SUBSET Sockets
    /\ renewer \in [Replicas -> [pc : {"idle", "renew", "drop"},
                                 on : Sockets \cup {NoSocket}]]
    /\ monitor \in [Replicas -> [pc : {"idle", "check", "release"},
                                 on : Sockets \cup {NoSocket}]]
    /\ kicks \in SUBSET Sockets
    /\ routed \in [Dispatches -> [pc : RequestState, on : Sockets \cup {NoSocket},
                                lost : SUBSET Sockets]]
    /\ lost \in SUBSET Sockets

NodeOwnerInit ==
    /\ owner = NoSocket
    /\ live = FALSE
    /\ active = TRUE
    /\ up = Replicas
    /\ connections = [r \in Replicas |-> NoSocket]
    /\ setup = [r \in Replicas |-> NoSocket]
    /\ socket = [s \in Sockets |-> [pc |-> "idle", at |-> NoReplica]]
    /\ closing = {}
    /\ renewer = [r \in Replicas |-> [pc |-> "idle", on |-> NoSocket]]
    /\ monitor = [r \in Replicas |-> [pc |-> "idle", on |-> NoSocket]]
    /\ kicks = {}
    /\ routed = [q \in Dispatches |-> [pc |-> "idle", on |-> NoSocket, lost |-> {}]]
    /\ lost = {}

-----------------------------------------------------------------------------
(* The owner record.                                                       *)

(* Whoever had the record loses it when it is written for another.         *)
SetOwner(s) ==
    /\ owner' = s
    /\ live' = (s # NoSocket)
    /\ lost' = lost \cup ({owner} \ {s, NoSocket})

(* claim: an empty or expired record, or one of this very replica.         *)
OwnerClaimable(s) ==
    /\ active
    /\ owner # NoSocket /\ live => socket[owner].at = socket[s].at

\* slip: the record is released by replica, whichever socket it names
ReleaseByReplica(s) ==
    IF owner # NoSocket /\ socket[owner].at = socket[s].at THEN SetOwner(NoSocket)
    ELSE UNCHANGED <<owner, live, lost>>

(* release: only the record of exactly this socket.                        *)
ReleaseOwner(s) ==
    IF owner = s THEN SetOwner(NoSocket) ELSE UNCHANGED <<owner, live, lost>>

(* renew: only the record of exactly this socket, expired or not.          *)
RenewOwner(s) ==
    /\ live' = (live \/ (owner = s /\ active))
    /\ UNCHANGED <<owner, lost>>

OwnerRenewed(s) == owner = s /\ active

(* disconnect_connection_if and unregister_connection_if: the map entry    *)
(* goes, and the socket is told to close, only if it is this socket's.     *)
DropConnection(r, s) ==
    /\ connections' = [connections EXCEPT ![r] = IF @ = s THEN NoSocket ELSE @]
    /\ closing' = IF connections[r] = s THEN closing \cup {s} ELSE closing

-----------------------------------------------------------------------------
(* A socket is set up under the replica's lock.                            *)

SocketAt(s, pc) == socket' = [socket EXCEPT ![s].pc = pc]
Unlock(s) == setup' = [setup EXCEPT ![socket[s].at] = NoSocket]

\* slip: sockets are set up without the lock
LockSkipped(s, r) ==
    /\ socket[s].pc = "idle"
    /\ r \in up
    /\ socket' = [socket EXCEPT ![s] = [pc |-> "claim", at |-> r]]
    /\ UNCHANGED <<owner, live, active, up, connections, setup, closing, renewer,
                   monitor, kicks, routed, lost>>

LockSetup(s, r) ==
    /\ socket[s].pc = "idle"
    /\ r \in up
    /\ setup[r] = NoSocket
    /\ setup' = [setup EXCEPT ![r] = s]
    /\ socket' = [socket EXCEPT ![s] = [pc |-> "claim", at |-> r]]
    /\ UNCHANGED <<owner, live, active, up, connections, closing, renewer, monitor,
                   kicks, routed, lost>>

ClaimOwner(s) ==
    /\ socket[s].pc = "claim"
    /\ \/ /\ OwnerClaimable(s)
          /\ SetOwner(s)
          /\ SocketAt(s, "register")
          /\ UNCHANGED setup
       \/ /\ ~OwnerClaimable(s)
          /\ SocketAt(s, "gone")
          /\ Unlock(s)
          /\ UNCHANGED <<owner, live, lost>>
    /\ UNCHANGED <<active, up, connections, closing, renewer, monitor, kicks, routed>>

(* The command fails, before or after it took effect.                      *)
ClaimOwnerFails(s) ==
    /\ socket[s].pc = "claim"
    /\ SocketAt(s, "gone")
    /\ Unlock(s)
    /\ \/ OwnerClaimable(s) /\ SetOwner(s)
       \/ UNCHANGED <<owner, live, lost>>
    /\ UNCHANGED <<active, up, connections, closing, renewer, monitor, kicks, routed>>

(* The socket replaces the one in the map, which is told to close.         *)
RegisterConnection(s) ==
    /\ socket[s].pc = "register"
    /\ connections' = [connections EXCEPT ![socket[s].at] = s]
    /\ closing' = closing \cup ({connections[socket[s].at]} \ {NoSocket})
    /\ SocketAt(s, "ack")
    /\ UNCHANGED <<owner, live, active, up, setup, renewer, monitor, kicks, routed,
                   lost>>

(* A managed machine's binding is not valid any more.                      *)
BindingRefused(s) ==
    /\ socket[s].pc = "register"
    /\ SocketAt(s, "undo")
    /\ UNCHANGED <<owner, live, active, up, connections, setup, closing, renewer,
                   monitor, kicks, routed, lost>>

(* auth_ok reaches the agent; a close that came first prevails.            *)
Acknowledge(s) ==
    /\ socket[s].pc = "ack"
    /\ s \notin closing
    /\ SocketAt(s, "open")
    /\ Unlock(s)
    /\ UNCHANGED <<owner, live, active, up, connections, closing, renewer, monitor,
                   kicks, routed, lost>>

AcknowledgeFails(s) ==
    /\ socket[s].pc = "ack"
    /\ DropConnection(socket[s].at, s)
    /\ SocketAt(s, "undo")
    /\ UNCHANGED <<owner, live, active, up, setup, renewer, monitor, kicks, routed,
                   lost>>

(* The record is released, or left to expiry when that fails.              *)
UndoClaim(s) ==
    /\ socket[s].pc = "undo"
    /\ ReleaseOwner(s) \/ UNCHANGED <<owner, live, lost>>
    /\ SocketAt(s, "gone")
    /\ Unlock(s)
    /\ UNCHANGED <<active, up, connections, closing, renewer, monitor, kicks, routed>>

-----------------------------------------------------------------------------
(* An open socket.                                                         *)

(* A heartbeat renews the record; a socket that lost it ends its loop.     *)
Pong(s) ==
    /\ socket[s].pc = "open"
    /\ s \notin closing
    /\ RenewOwner(s)
    /\ IF OwnerRenewed(s)
       THEN UNCHANGED <<socket, connections, closing>>
       ELSE SocketAt(s, "leave") /\ DropConnection(socket[s].at, s)
    /\ UNCHANGED <<active, up, setup, renewer, monitor, kicks, routed>>

(* The agent hangs up, or the close reaches the writer.                    *)
LeaveLoop(s) ==
    /\ socket[s].pc = "open"
    /\ SocketAt(s, "leave")
    /\ DropConnection(socket[s].at, s)
    /\ UNCHANGED <<owner, live, active, up, setup, renewer, monitor, kicks, routed,
                   lost>>

ReleaseAfterLoop(s) ==
    /\ socket[s].pc = "leave"
    /\ ReleaseOwner(s) \/ UNCHANGED <<owner, live, lost>>
    /\ SocketAt(s, "gone")
    /\ UNCHANGED <<active, up, connections, setup, closing, renewer, monitor, kicks,
                   routed>>

(* The replica stops with everything it does.                              *)
ReplicaCrash(r) ==
    /\ r \in up
    /\ up' = up \ {r}
    /\ connections' = [connections EXCEPT ![r] = NoSocket]
    /\ setup' = [setup EXCEPT ![r] = NoSocket]
    /\ socket' = [s \in Sockets |->
                    IF socket[s].at = r THEN [socket[s] EXCEPT !.pc = "gone"] ELSE socket[s]]
    /\ renewer' = [renewer EXCEPT ![r] = [pc |-> "idle", on |-> NoSocket]]
    /\ monitor' = [monitor EXCEPT ![r] = [pc |-> "idle", on |-> NoSocket]]
    /\ UNCHANGED <<owner, live, active, closing, kicks, routed, lost>>

-----------------------------------------------------------------------------
(* The lease sweep of a replica: renew, and drop the socket that lost the  *)
(* record.  Between the steps the map may change.                          *)

RenewerStart(r) ==
    /\ renewer[r].pc = "idle"
    /\ connections[r] # NoSocket
    /\ renewer' = [renewer EXCEPT ![r] = [pc |-> "renew", on |-> connections[r]]]
    /\ UNCHANGED <<owner, live, active, up, connections, setup, socket, closing,
                   monitor, kicks, routed, lost>>

\* slip: a renewal that found no record is logged like a failed one
RenewerIgnoresLoss(r) ==
    /\ renewer[r].pc = "renew"
    /\ RenewOwner(renewer[r].on)
    /\ renewer' = [renewer EXCEPT ![r] = [pc |-> "idle", on |-> NoSocket]]
    /\ UNCHANGED <<active, up, connections, setup, socket, closing, monitor, kicks, routed>>

RenewerRenews(r) ==
    /\ renewer[r].pc = "renew"
    /\ RenewOwner(renewer[r].on)
    /\ renewer' = [renewer EXCEPT ![r] =
         IF OwnerRenewed(renewer[r].on) THEN [pc |-> "idle", on |-> NoSocket]
         ELSE [pc |-> "drop", on |-> renewer[r].on]]
    /\ UNCHANGED <<active, up, connections, setup, socket, closing, monitor, kicks,
                   routed>>

(* The command fails: the sweep goes on to the next node.                  *)
RenewerFails(r) ==
    /\ renewer[r].pc = "renew"
    /\ renewer' = [renewer EXCEPT ![r] = [pc |-> "idle", on |-> NoSocket]]
    /\ UNCHANGED <<owner, live, active, up, connections, setup, socket, closing,
                   monitor, kicks, routed, lost>>

RenewerDrops(r) ==
    /\ renewer[r].pc = "drop"
    /\ DropConnection(r, renewer[r].on)
    /\ renewer' = [renewer EXCEPT ![r] = [pc |-> "idle", on |-> NoSocket]]
    /\ UNCHANGED <<owner, live, active, up, setup, socket, monitor, kicks, routed,
                   lost>>

(* The heartbeat sweep: a socket whose last heartbeat is too old, or whose *)
(* ping cannot be sent, is dropped and its record released.                *)
MonitorStart(r) ==
    /\ monitor[r].pc = "idle"
    /\ connections[r] # NoSocket
    /\ monitor' = [monitor EXCEPT ![r] = [pc |-> "check", on |-> connections[r]]]
    /\ UNCHANGED <<owner, live, active, up, connections, setup, socket, closing,
                   renewer, kicks, routed, lost>>

MonitorTimesOut(r) ==
    /\ monitor[r].pc = "check"
    /\ DropConnection(r, monitor[r].on)
    /\ monitor' = [monitor EXCEPT ![r].pc = "release"]
    /\ UNCHANGED <<owner, live, active, up, setup, socket, renewer, kicks, routed,
                   lost>>

MonitorReleases(r) ==
    /\ monitor[r].pc = "release"
    /\ ReleaseOwner(monitor[r].on) \/ UNCHANGED <<owner, live, lost>>
    /\ monitor' = [monitor EXCEPT ![r] = [pc |-> "idle", on |-> NoSocket]]
    /\ UNCHANGED <<active, up, connections, setup, socket, closing, renewer, kicks,
                   routed>>

MonitorEnds(r) ==
    /\ monitor[r].pc = "check"
    /\ monitor' = [monitor EXCEPT ![r] = [pc |-> "idle", on |-> NoSocket]]
    /\ UNCHANGED <<owner, live, active, up, connections, setup, socket, closing,
                   renewer, kicks, routed, lost>>

(* Time passes without a renewal, and any heartbeat sweep clears the       *)
(* expired record.                                                         *)
OwnerExpires ==
    /\ live
    /\ live' = FALSE
    /\ UNCHANGED <<owner, active, up, connections, setup, socket, closing, renewer,
                   monitor, kicks, routed, lost>>

ClearExpired ==
    /\ owner # NoSocket
    /\ ~live
    /\ SetOwner(NoSocket)
    /\ UNCHANGED <<active, up, connections, setup, socket, closing, renewer, monitor,
                   kicks, routed>>

-----------------------------------------------------------------------------
(* An administrator deletes the node, then disconnects it; a disconnect    *)
(* alone is possible too.                                                  *)
DeleteNode ==
    /\ active
    /\ active' = FALSE
    /\ UNCHANGED <<owner, live, up, connections, setup, socket, closing, renewer,
                   monitor, kicks, routed, lost>>

(* invalidate_current takes the record from whoever has it; the disconnect *)
(* then goes to the replica the record named.                              *)
DisconnectNode ==
    /\ owner # NoSocket
    /\ SetOwner(NoSocket)
    /\ kicks' = kicks \cup {owner}
    /\ UNCHANGED <<active, up, connections, setup, socket, closing, renewer, monitor,
                   routed>>

(* It arrives, or is lost.                                                 *)
Kick(s) ==
    /\ s \in kicks
    /\ kicks' = kicks \ {s}
    /\ \/ DropConnection(socket[s].at, s)
       \/ UNCHANGED <<connections, closing>>
    /\ UNCHANGED <<owner, live, active, up, setup, socket, renewer, monitor, routed,
                   lost>>

-----------------------------------------------------------------------------
(* Dispatches to the node, from a replica that reads the record: sent on the *)
(* spot if the socket is its own, else forwarded to the owner's replica.   *)

\* slip: a replica with a socket of the node sends on it
RouteLocalFirst(q, r) ==
    /\ routed[q].pc = "idle"
    /\ r \in up
    /\ routed' = [routed EXCEPT ![q] =
         [pc   |-> IF connections[r] # NoSocket THEN "authorized"
                   ELSE IF live /\ active THEN "forwarded" ELSE "refused",
          on   |-> IF connections[r] # NoSocket THEN connections[r] ELSE owner,
          lost |-> lost]]
    /\ UNCHANGED <<owner, live, active, up, connections, setup, socket, closing,
                   renewer, monitor, kicks, lost>>

RouteRequest(q, r) ==
    /\ routed[q].pc = "idle"
    /\ r \in up
    /\ routed' = [routed EXCEPT ![q] =
         [pc   |-> IF ~live \/ ~active THEN "refused"
                   ELSE IF socket[owner].at # r THEN "forwarded"
                   ELSE IF connections[r] = owner THEN "authorized"
                   ELSE "refused",
          on   |-> owner,
          lost |-> lost]]
    /\ UNCHANGED <<owner, live, active, up, connections, setup, socket, closing,
                   renewer, monitor, kicks, lost>>

(* authorize_live_local_fence on the owner's replica: its map and the      *)
(* record still name the socket.                                           *)
AuthorizeFence(q) ==
    /\ routed[q].pc = "forwarded"
    /\ LET s == routed[q].on
       IN  routed' = [routed EXCEPT ![q].pc =
             IF connections[socket[s].at] = s /\ owner = s /\ live /\ active
             THEN "authorized" ELSE "refused"]
    /\ UNCHANGED <<owner, live, active, up, connections, setup, socket, closing,
                   renewer, monitor, kicks, lost>>

(* connection_for: the request is sent on the authorized socket or not at  *)
(* all.                                                                    *)
SendRequest(q) ==
    /\ routed[q].pc = "authorized"
    /\ LET s == routed[q].on
       IN  routed' = [routed EXCEPT ![q].pc =
             IF connections[socket[s].at] = s THEN "sent" ELSE "refused"]
    /\ UNCHANGED <<owner, live, active, up, connections, setup, socket, closing,
                   renewer, monitor, kicks, lost>>

-----------------------------------------------------------------------------
SocketStep(s) ==
    \/ \E r \in Replicas : LockSetup(s, r)
    \/ ClaimOwner(s) \/ ClaimOwnerFails(s) \/ RegisterConnection(s) \/ BindingRefused(s)
    \/ Acknowledge(s) \/ AcknowledgeFails(s) \/ UndoClaim(s)
    \/ Pong(s) \/ LeaveLoop(s) \/ ReleaseAfterLoop(s)
    \/ Kick(s)

RenewerStep(r) == RenewerStart(r) \/ RenewerRenews(r) \/ RenewerFails(r) \/ RenewerDrops(r)

MonitorStep(r) == MonitorStart(r) \/ MonitorTimesOut(r) \/ MonitorReleases(r) \/ MonitorEnds(r)

RequestStep(q) ==
    \/ \E r \in Replicas : RouteRequest(q, r)
    \/ AuthorizeFence(q) \/ SendRequest(q)

NodeOwnerNext ==
    \/ \E s \in Sockets : SocketStep(s)
    \/ \E r \in Replicas : RenewerStep(r) \/ MonitorStep(r) \/ ReplicaCrash(r)
    \/ \E q \in Dispatches : RequestStep(q)
    \/ OwnerExpires \/ ClearExpired \/ DeleteNode \/ DisconnectNode

NodeOwnerSpec == NodeOwnerInit /\ [][NodeOwnerNext]_ownerVars

(* The lease sweep runs on an interval, and the database does not fail its *)
(* commands for ever.  No heartbeat, close or disconnect has to arrive.    *)
NodeOwnerFairness ==
    \A r \in Replicas : /\ WF_ownerVars(RenewerStart(r))
                        /\ SF_ownerVars(RenewerRenews(r))
                        /\ WF_ownerVars(RenewerDrops(r))

NodeOwnerFairSpec == NodeOwnerSpec /\ NodeOwnerFairness

-----------------------------------------------------------------------------
(* While a socket that has the record is set up, the map of its replica    *)
(* names no other: the map follows the record whatever order reconnecting  *)
(* sockets arrive in (the set-up lock).                                    *)
MapFollowsRecord ==
    \A s \in Sockets :
        owner = s /\ socket[s].pc \in {"ack", "open"} =>
            connections[socket[s].at] \in {s, NoSocket}

(* A live record is taken from a socket that its replica still has in the  *)
(* map only by a disconnect, or by a newer socket of the same replica: no  *)
(* late clean-up or renewal of another socket does (release, renew).       *)
RecordKeptWhileConnected ==
    [][owner # NoSocket /\ live /\ owner' # owner =>
         \/ connections[socket[owner].at] # owner
         \/ owner \in kicks'
         \/ owner' # NoSocket /\ socket[owner'].at = socket[owner].at]_ownerVars

(* A request is never sent on a socket that had lost the node before the   *)
(* request was routed (owner_target, authorize_live_local_fence, renew).   *)
SentToOwner ==
    \A q \in Dispatches :
        routed[q].pc = "sent" => routed[q].on \notin routed[q].lost

(* A socket that lost the node, or whose node was deleted, leaves the map  *)
(* of its replica even if the disconnect sent to it was lost.              *)
LostSocketIsDropped ==
    \A s \in Sockets :
        socket[s].pc = "open" /\ (s \in lost \/ ~active) ~>
            \A r \in Replicas : connections[r] # s
=============================================================================
