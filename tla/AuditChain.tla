----------------------------- MODULE AuditChain -----------------------------
(***************************************************************************)
(* The hash-chained audit log (audit_chain_service.rs): entries numbered   *)
(* without gaps, each with the hash of the one before.  Every replica      *)
(* appends: single entries, entries inside the transaction of a policy     *)
(* change, and the relay that mirrors committed service changes            *)
(* (service_history/relay.rs).  Every replica also runs the verifier       *)
(* (chain_verify_service.rs), which walks the chain in chunks behind one   *)
(* shared cursor.                                                          *)
(*                                                                         *)
(* A hash stands for what it is computed from; as ids are unique, the id   *)
(* of the entry before says as much.  An entry's content is what its       *)
(* author wants recorded; entries of one id are compared by it.            *)
(***************************************************************************)
EXTENDS Naturals, FiniteSets

CONSTANTS
    Events,        \* service changes, each with its journal row
    Logs,          \* single entries written without a transaction
    Changes,       \* policy changes, audited in their transaction
    Relays,        \* relay sweeps, one on each replica
    Verifiers,     \* verifier sweeps, one on each replica
    Genesis,       \* the hash before the first entry
    MaxAttempts,   \* MAX_APPEND_ATTEMPTS
    Chunk,         \* VERIFY_CHUNK
    MaxAuditFaults \* bound on failing commands and crashes

Writers == Relays \cup Logs
Ids == Events \cup Logs \cup Changes

ASSUME AuditChainAssumption ==
    /\ MaxAttempts \in Nat \ {0} /\ Chunk \in Nat \ {0} /\ MaxAuditFaults \in Nat
    /\ Genesis \notin Ids
    /\ Events \cap Logs = {} /\ Events \cap Changes = {} /\ Logs \cap Changes = {}
    /\ Relays \cap Logs = {}

VARIABLES
    chain,      \* the chained entries
    journal,    \* journal rows: absent, committed, audited
    attempts,   \* audit_attempts of each journal row
    writer,     \* appends under way
    change,     \* transactions under way
    verifier,   \* verifier sweeps under way
    status,     \* the verifier's status document
    verified,   \* history: numbers of the entries found good
    auditFaults \* faults so far

auditVars == <<chain, journal, attempts, writer, change, verifier, status,
               verified, auditFaults>>

Entry == [id : Ids, seq : Nat, prev : Ids \cup {Genesis}, content : Nat]
NoEntry == [id |-> Genesis, seq |-> 0, prev |-> Genesis, content |-> 0]

(* Every variable has its type.                                            *)
AuditTypeOK ==
    /\ chain \subseteq Entry
    /\ journal \in [Events -> {"absent", "committed", "audited"}]
    /\ attempts \in [Events -> 0 .. MaxAuditFaults + 1]
    /\ writer \in [Writers -> [pc : {"idle", "read", "insert", "lookup", "mark", "failed", "done"},
                               entry : Entry \cup {NoEntry}, attempt : 0 .. MaxAttempts]]
    /\ change \in [Changes -> [pc : {"idle", "insert", "commit", "done", "failed"},
                               entry : Entry \cup {NoEntry}]]
    /\ verifier \in [Verifiers -> [pc : {"idle", "head", "read", "persist"},
                                   from : Nat, head : Nat, found : SUBSET Entry]]
    /\ status \in [outcome : {"ok", "broken"}, cursor : Nat]
    /\ verified \subseteq Nat
    /\ auditFaults \in 0 .. MaxAuditFaults

AuditInit ==
    /\ chain = {}
    /\ journal = [e \in Events |-> "absent"]
    /\ attempts = [e \in Events |-> 0]
    /\ writer = [w \in Writers |-> [pc |-> "idle", entry |-> NoEntry, attempt |-> 0]]
    /\ change = [c \in Changes |-> [pc |-> "idle", entry |-> NoEntry]]
    /\ verifier = [v \in Verifiers |-> [pc |-> "idle", from |-> 1, head |-> 0, found |-> {}]]
    /\ status = [outcome |-> "ok", cursor |-> 1]
    /\ verified = {}
    /\ auditFaults = 0

-----------------------------------------------------------------------------
(* The chain.                                                              *)

HeadSeq == CHOOSE n \in {0} \cup {e.seq : e \in chain} : \A e \in chain : e.seq <= n

IdAt(n) == IF n = 0 THEN Genesis ELSE (CHOOSE e \in chain : e.seq = n).id

(* prepare_chained_entry behind the tail that was read.                    *)
Chained(entry) == [entry EXCEPT !.seq = HeadSeq + 1, !.prev = IdAt(HeadSeq)]

\* slip: the index on the sequence number is not unique
SeqNeverTaken(n) == FALSE
(* The unique index on seq.                                                *)
SeqTaken(n) == \E e \in chain : e.seq = n

(* The unique index on _id.                                                *)
IdTaken(id) == \E e \in chain : e.id = id

(* An insert waits for a transaction that has inserted the same number.    *)
SeqLocked(n) == \E c \in Changes : change[c].pc = "commit" /\ change[c].entry.seq = n

-----------------------------------------------------------------------------
(* Single appends: append_chained_entry.                                   *)

WriterAt(w, pc) == writer' = [writer EXCEPT ![w].pc = pc]

StartLog(l) ==
    /\ writer[l].pc = "idle"
    /\ writer' = [writer EXCEPT ![l] = [pc |-> "read", entry |-> [NoEntry EXCEPT !.id = l],
                                       attempt |-> 1]]
    /\ UNCHANGED <<chain, journal, attempts, change, verifier, status, verified, auditFaults>>

CommitEvent(e) ==
    /\ journal[e] = "absent"
    /\ journal' = [journal EXCEPT ![e] = "committed"]
    /\ UNCHANGED <<chain, attempts, writer, change, verifier, status, verified, auditFaults>>

(* mirror: what the journal row says, without the relay's progress.        *)
Mirror(e) == 0

(* A relay sweep publishes a row that is not marked as audited.            *)
StartPublish(r, e) ==
    /\ writer[r].pc = "idle"
    /\ journal[e] = "committed"
    /\ writer' = [writer EXCEPT ![r] =
         [pc |-> "read", entry |-> [NoEntry EXCEPT !.id = e, !.content = Mirror(e)],
          attempt |-> 1]]
    /\ UNCHANGED <<chain, journal, attempts, change, verifier, status, verified, auditFaults>>

ReadTail(w) ==
    /\ writer[w].pc = "read"
    /\ writer' = [writer EXCEPT ![w].pc = "insert", ![w].entry = Chained(writer[w].entry)]
    /\ UNCHANGED <<chain, journal, attempts, change, verifier, status, verified, auditFaults>>

Appended(w) == IF w \in Relays THEN "mark" ELSE "done"

InsertEntry(w) ==
    /\ writer[w].pc = "insert"
    /\ ~SeqLocked(writer[w].entry.seq)
    /\ IF SeqTaken(writer[w].entry.seq) \/ IdTaken(writer[w].entry.id)
       THEN WriterAt(w, "lookup") /\ UNCHANGED chain
       ELSE WriterAt(w, Appended(w)) /\ chain' = chain \cup {writer[w].entry}
    /\ UNCHANGED <<journal, attempts, change, verifier, status, verified, auditFaults>>

(* A duplicate: this very entry is there already, or the number was taken  *)
(* and the append starts over, up to its last attempt.                     *)
LookUpEntry(w) ==
    /\ writer[w].pc = "lookup"
    /\ \/ \E e \in chain :
              /\ e.id = writer[w].entry.id
              /\ WriterAt(w, IF e.content = writer[w].entry.content
                            THEN Appended(w) ELSE "failed")
       \/ /\ ~IdTaken(writer[w].entry.id)
          /\ writer' = [writer EXCEPT
                           ![w].pc = IF writer[w].attempt < MaxAttempts
                                     THEN "read" ELSE "failed",
                           ![w].attempt = IF @ < MaxAttempts THEN @ + 1 ELSE @]
    /\ UNCHANGED <<chain, journal, attempts, change, verifier, status, verified, auditFaults>>

MarkAudited(r) ==
    /\ writer[r].pc = "mark"
    /\ journal' = [journal EXCEPT ![writer[r].entry.id] = "audited"]
    /\ WriterAt(r, "idle")
    /\ UNCHANGED <<chain, attempts, change, verifier, status, verified, auditFaults>>

(* The sweep counts the failure and leaves the row to a later one.         *)
PublishFailed(r) ==
    /\ writer[r].pc = "failed"
    /\ LET e == writer[r].entry.id
       IN  attempts' = [attempts EXCEPT ![e] =
             IF journal[e] = "committed" /\ @ <= MaxAuditFaults THEN @ + 1 ELSE @]
    /\ WriterAt(r, "idle")
    /\ UNCHANGED <<chain, journal, change, verifier, status, verified, auditFaults>>

AuditFault == auditFaults < MaxAuditFaults /\ auditFaults' = auditFaults + 1

(* A command fails, the insert perhaps after it took effect, or the relay  *)
(* is killed there and starts over.                                        *)
AppendFails(w) ==
    /\ AuditFault
    /\ \/ writer[w].pc \in {"read", "insert", "lookup", "mark"} /\ UNCHANGED chain
       \/ /\ writer[w].pc = "insert"
          /\ ~SeqLocked(writer[w].entry.seq)
          /\ ~SeqTaken(writer[w].entry.seq) /\ ~IdTaken(writer[w].entry.id)
          /\ chain' = chain \cup {writer[w].entry}
    /\ \/ WriterAt(w, "failed")
       \/ w \in Relays /\ WriterAt(w, "idle")
    /\ UNCHANGED <<journal, attempts, change, verifier, status, verified>>

-----------------------------------------------------------------------------
(* Appends in a transaction: the tail is read in its snapshot; a number    *)
(* that was taken since, or is about to be, starts the transaction over.   *)

ChangeAt(c, pc) == change' = [change EXCEPT ![c].pc = pc]

BeginChange(c) ==
    /\ change[c].pc = "idle"
    /\ change' = [change EXCEPT ![c] = [pc |-> "insert",
                                       entry |-> Chained([NoEntry EXCEPT !.id = c])]]
    /\ UNCHANGED <<chain, journal, attempts, writer, verifier, status, verified, auditFaults>>

InsertInSession(c) ==
    /\ change[c].pc = "insert"
    /\ ChangeAt(c, IF SeqTaken(change[c].entry.seq) \/ SeqLocked(change[c].entry.seq)
                  THEN "idle" ELSE "commit")
    /\ UNCHANGED <<chain, journal, attempts, writer, verifier, status, verified, auditFaults>>

CommitChange(c) ==
    /\ change[c].pc = "commit"
    /\ chain' = chain \cup {change[c].entry}
    /\ ChangeAt(c, "done")
    /\ UNCHANGED <<journal, attempts, writer, verifier, status, verified, auditFaults>>

(* The transaction is aborted, or its commit is not known to have          *)
(* succeeded although it did.                                              *)
ChangeFails(c) ==
    /\ AuditFault
    /\ \/ change[c].pc \in {"insert", "commit"} /\ UNCHANGED chain
       \/ change[c].pc = "commit" /\ chain' = chain \cup {change[c].entry}
    /\ ChangeAt(c, "failed")
    /\ UNCHANGED <<journal, attempts, writer, verifier, status, verified>>

-----------------------------------------------------------------------------
(* The verifier: cursor, head, a chunk of entries, then the status.  Only  *)
(* the status is written, and by every replica over the others.            *)

StartVerify(v) ==
    /\ verifier[v].pc = "idle"
    /\ verifier' = [verifier EXCEPT ![v] = [pc |-> "head", from |-> status.cursor,
                                           head |-> 0, found |-> {}]]
    /\ UNCHANGED <<chain, journal, attempts, writer, change, status, verified, auditFaults>>

ReadHead(v) ==
    /\ verifier[v].pc = "head"
    /\ verifier' = [verifier EXCEPT ![v].pc = "read", ![v].head = HeadSeq]
    /\ UNCHANGED <<chain, journal, attempts, writer, change, status, verified, auditFaults>>

(* The first entries from a number on, in order, at most a chunk of them.  *)
ChunkFrom(n) ==
    {e \in chain : e.seq >= n /\ Cardinality({f \in chain : f.seq \in n .. e.seq}) <= Chunk}

ReadChunk(v) ==
    /\ verifier[v].pc = "read"
    /\ verifier' = [verifier EXCEPT ![v].pc = "persist", ![v].found = ChunkFrom(verifier[v].from)]
    /\ UNCHANGED <<chain, journal, attempts, writer, change, status, verified, auditFaults>>

\* slip: every chunk is expected to start with the genesis hash
BadSeqsFromGenesis(from, found) ==
    {n \in from .. from + Cardinality(found) - 1 :
        ~\E e \in found : /\ e.seq = n
                          /\ e.prev = IF n = from THEN Genesis ELSE IdAt(n - 1)}
(* verify_chain of what was found, number by number: each is there, with   *)
(* the hash of the entry before, which may lie before the chunk.           *)
BadSeqs(from, found) ==
    {n \in from .. from + Cardinality(found) - 1 :
        \/ n > 1 /\ ~SeqTaken(n - 1)
        \/ ~\E e \in found : e.seq = n /\ e.prev = IdAt(n - 1)}

\* slip: the chunk that ends just before the head is taken for the last
NextFromShort(v) ==
    LET next == verifier[v].from + Cardinality(verifier[v].found)
    IN  IF Cardinality(verifier[v].found) = Chunk /\ next < verifier[v].head THEN next ELSE 1
(* next_from_seq, or back to the first entry once the head is passed.      *)
NextFrom(v) ==
    LET next == verifier[v].from + Cardinality(verifier[v].found)
    IN  IF Cardinality(verifier[v].found) = Chunk /\ next <= verifier[v].head THEN next ELSE 1

PersistStatus(v) ==
    /\ verifier[v].pc = "persist"
    /\ LET bad == BadSeqs(verifier[v].from, verifier[v].found)
       IN  IF bad = {}
           THEN /\ status' = [outcome |-> "ok", cursor |-> NextFrom(v)]
                /\ verified' = verified \cup {e.seq : e \in verifier[v].found}
           ELSE /\ status' = [outcome |-> "broken",
                             cursor  |-> CHOOSE n \in bad : \A k \in bad : n <= k]
                /\ UNCHANGED verified
    /\ verifier' = [verifier EXCEPT ![v] = [pc |-> "idle", from |-> 1, head |-> 0, found |-> {}]]
    /\ UNCHANGED <<chain, journal, attempts, writer, change, auditFaults>>

VerifyFails(v) ==
    /\ AuditFault
    /\ verifier[v].pc # "idle"
    /\ verifier' = [verifier EXCEPT ![v] = [pc |-> "idle", from |-> 1, head |-> 0, found |-> {}]]
    /\ UNCHANGED <<chain, journal, attempts, writer, change, status, verified>>

-----------------------------------------------------------------------------
AppendStep(w) == ReadTail(w) \/ InsertEntry(w) \/ LookUpEntry(w)

RelayStep(r) == \/ \E e \in Events : StartPublish(r, e)
                \/ AppendStep(r) \/ MarkAudited(r) \/ PublishFailed(r)

ChangeStep(c) == BeginChange(c) \/ InsertInSession(c) \/ CommitChange(c)

VerifyStep(v) == StartVerify(v) \/ ReadHead(v) \/ ReadChunk(v) \/ PersistStatus(v)

AuditNext ==
    \/ \E e \in Events : CommitEvent(e)
    \/ \E l \in Logs : StartLog(l) \/ AppendStep(l)
    \/ \E r \in Relays : RelayStep(r)
    \/ \E w \in Writers : AppendFails(w)
    \/ \E c \in Changes : ChangeStep(c) \/ ChangeFails(c)
    \/ \E v \in Verifiers : VerifyStep(v) \/ VerifyFails(v)

AuditSpec == AuditInit /\ [][AuditNext]_auditVars

(* Relay and verifier run on an interval on every replica, and a           *)
(* transaction that has inserted its entry ends.                           *)
AuditFairness ==
    /\ \A r \in Relays : WF_auditVars(RelayStep(r))
    /\ \A v \in Verifiers : WF_auditVars(VerifyStep(v))
    /\ \A c \in Changes : WF_auditVars(CommitChange(c))

AuditFairSpec == AuditSpec /\ AuditFairness

-----------------------------------------------------------------------------
(* However appends of all kinds interleave, fail and are repeated after a  *)
(* crash, entries are numbered without gap or fork, each carries the hash  *)
(* of its predecessor, and none is there twice; a change marked as audited *)
(* is there (append_chained_entry, publish).                               *)
ChainIsIntact ==
    /\ {e.seq : e \in chain} = 1 .. Cardinality(chain)
    /\ \A e \in chain : e.prev = IdAt(e.seq - 1)
    /\ \A e, f \in chain : e.id = f.id => e = f
    /\ \A e \in Events : journal[e] = "audited" => \E f \in chain : f.id = e

(* A verifier that reads while entries are appended, behind a cursor that  *)
(* other replicas move, never reports a break in a chain that has none;    *)
(* and the cursor skips nothing: every entry below it was found good by    *)
(* some run, though a slow run may move it back.                           *)
VerifierIsSound ==
    /\ status.outcome = "ok"
    /\ \A n \in 1 .. status.cursor - 1 : n \in verified

(* A committed change is mirrored into the chain and its entry verified in *)
(* the end, whatever else is appended before or after it.                  *)
EveryChangeIsVerified ==
    \A e \in Events :
        journal[e] = "committed" ~> \E f \in chain : f.id = e /\ f.seq \in verified
=============================================================================
