--------------------------- MODULE ConsentGrants ---------------------------
(***************************************************************************)
(* The OAuth grant of one user to one client: the consent row, the review  *)
(* pages the user decides on, the authorization codes issued from them,    *)
(* the exchanges that turn a code into a refresh token, and the            *)
(* transaction that withdraws the consent.                                 *)
(*                                                                         *)
(* Modelled from consent_service.rs, oauth_service.rs and the authorize    *)
(* handlers of handlers/oauth.rs.  Scopes and service lists are one set of *)
(* rights.  Consents have no expiry (no path of the code sets one).        *)
(* Transactions that read and write the consent row are single steps,      *)
(* except the withdrawal: it reads its snapshot in one step and commits in *)
(* another, and MongoDB aborts it when the row was written in between.     *)
(***************************************************************************)
EXTENDS Naturals, FiniteSets

CONSTANTS
    Pages,          \* authorization requests; each leads to at most one code
    Exchanges,      \* calls of the token endpoint; each stores at most one token
    Rights,         \* scopes and services
    NoConsent,      \* the absent consent row
    MaxWrites,      \* bound on writes that stamp the consent row
    MaxRevocations  \* bound on withdrawals

ASSUME ConsentAssumption ==
    /\ MaxWrites \in Nat
    /\ MaxRevocations \in Nat
    /\ NoConsent \notin
         [id : Nat, revision : Nat, version : Nat, rights : SUBSET Rights]

VARIABLES
    consent,     \* the row, or NoConsent
    generation,  \* version of the revocation fence row
    stamp,       \* source of fresh row ids, revisions and write versions
    page,        \* authorization requests
    used,        \* codes already claimed by an exchange
    exchange,    \* calls of the token endpoint
    refresh,     \* refresh token stored by each exchange
    revocation,  \* the withdrawal transaction
    approved     \* history: rights approved on pages shown since the withdrawal

consentVars == <<consent, generation, stamp, page, used, exchange, refresh,
                 revocation, approved>>

ConsentRow == [id : Nat, revision : Nat, version : Nat, rights : SUBSET Rights]
Reference == [id : Nat, revision : Nat]
NoReference == [id |-> 0, revision |-> 0]

PageState == {"idle", "review", "incremental", "approving", "granted",
              "checked", "coded", "refused"}
ExchangeState == {"idle", "replay", "claimed", "checked", "stored", "fencing",
                  "undo", "delivered", "refused", "gone"}

(* Every variable has its type.                                            *)
ConsentTypeOK ==
    /\ consent \in ConsentRow \cup {NoConsent}
    /\ generation \in Nat
    /\ stamp \in Nat
    /\ page \in [Pages -> [pc : PageState, asks : SUBSET Rights,
                           generation : Nat, additive : BOOLEAN,
                           seen : ConsentRow \cup {NoConsent}, reference : Reference]]
    /\ used \in SUBSET Pages
    /\ exchange \in [Exchanges -> [pc : ExchangeState, code : SUBSET Pages,
                                   seen : ConsentRow \cup {NoConsent}, fences : 0 .. 3]]
    /\ refresh \in [Exchanges -> {"none", "active", "revoked"}]
    /\ revocation \in [pc : {"idle", "open"}, sees : SUBSET Exchanges,
                       conflict : BOOLEAN]
    /\ approved \in SUBSET Rights

(* The client starts without a grant or with an earlier one.               *)
ConsentInit ==
    /\ generation = 0
    /\ stamp = 1
    /\ consent \in {NoConsent} \cup
                    {[id |-> 1, revision |-> 1, version |-> 1, rights |-> {right}] :
                        right \in Rights}
    /\ page = [p \in Pages |-> [pc |-> "idle", asks |-> {}, generation |-> 0,
                                additive |-> FALSE, seen |-> NoConsent,
                                reference |-> NoReference]]
    /\ used = {}
    /\ exchange = [x \in Exchanges |-> [pc |-> "idle", code |-> {},
                                        seen |-> NoConsent, fences |-> 0]]
    /\ refresh = [x \in Exchanges |-> "none"]
    /\ revocation = [pc |-> "idle", sees |-> {}, conflict |-> FALSE]
    /\ approved = IF consent = NoConsent THEN {} ELSE consent.rights

-----------------------------------------------------------------------------
(* The consent row.                                                        *)

ReferenceOf(row) == [id |-> row.id, revision |-> row.revision]

(* A reference is good while its row has the same revision and still       *)
(* grants the rights.                                                      *)
ValidReference(row, reference, rights) ==
    /\ row # NoConsent
    /\ ReferenceOf(row) = reference
    /\ rights \subseteq row.rights

(* An additive request is good only while the row is the one it wrote.     *)
UnchangedSince(p) == consent = page[p].seen

(* A write of the row makes an open withdrawal's commit fail.              *)
Conflict == revocation' = [revocation EXCEPT !.conflict = revocation.pc = "open"]

(* The row that replaces the current one: a broadening keeps id and        *)
(* revision, a machine approval and a first grant get a new revision.      *)
WrittenRow(current, rights, machine) ==
    [id       |-> IF current = NoConsent THEN stamp + 1 ELSE current.id,
     revision |-> IF current = NoConsent \/ machine THEN stamp + 1
                  ELSE current.revision,
     version  |-> stamp + 1,
     rights   |-> rights]

(* Writes rights over the current row; nothing is written when the row     *)
(* already grants exactly them.                                            *)
WriteConsent(p, rights, machine) ==
    IF consent # NoConsent /\ consent.rights = rights /\ ~machine
    THEN /\ UNCHANGED <<consent, stamp, revocation>>
         /\ page' = [page EXCEPT ![p].pc = "granted", ![p].seen = consent,
                                 ![p].reference = ReferenceOf(consent)]
    ELSE LET row == WrittenRow(consent, rights, machine)
         IN  /\ stamp < MaxWrites
             /\ stamp' = stamp + 1
             /\ consent' = row
             /\ Conflict
             /\ page' = [page EXCEPT ![p].pc = "granted", ![p].seen = row,
                                     ![p].reference = ReferenceOf(row)]

Refuse(p) ==
    /\ page' = [page EXCEPT ![p].pc = "refused"]
    /\ UNCHANGED <<consent, generation, stamp, used, exchange, refresh,
                   revocation, approved>>

(* History: rights approved on a page shown since the last withdrawal.     *)
Approve(p) ==
    approved' = IF page[p].generation = generation
                THEN approved \cup page[p].asks ELSE approved

-----------------------------------------------------------------------------
(* Authorization requests.                                                 *)

(* The user is sent to a review page, signed with the revocation           *)
(* generation; an incremental page also carries the row it adds to.        *)
OpenReview(p, rights, kind) ==
    /\ page[p].pc = "idle"
    /\ kind = "incremental" => consent # NoConsent
    /\ page' = [page EXCEPT ![p].pc = kind, ![p].asks = rights,
                            ![p].generation = generation,
                            ![p].additive = kind = "incremental",
                            ![p].seen = consent]
    /\ UNCHANGED <<consent, generation, stamp, used, exchange, refresh,
                   revocation, approved>>

(* A request whose rights are already granted needs no review.             *)
AuthorizeSilently(p, rights) ==
    /\ page[p].pc = "idle"
    /\ consent # NoConsent
    /\ rights \subseteq consent.rights
    /\ page' = [page EXCEPT ![p].pc = "granted", ![p].asks = rights,
                            ![p].generation = generation,
                            ![p].reference = ReferenceOf(consent)]
    /\ UNCHANGED <<consent, generation, stamp, used, exchange, refresh,
                   revocation, approved>>

\* slip: the page's generation is not compared
DecideAnyGeneration(p, machine) ==
    /\ page[p].pc = "review"
    /\ WriteConsent(p, page[p].asks \cup
                       (IF consent = NoConsent THEN {} ELSE consent.rights),
                    machine)
    /\ Approve(p)
    /\ UNCHANGED <<generation, used, exchange, refresh>>

(* The user approves a review: one transaction compares the generation,    *)
(* merges the rights with the row's and writes it.                         *)
DecideReview(p, machine) ==
    /\ page[p].pc = "review"
    /\ \/ /\ page[p].generation # generation
          /\ Refuse(p)
       \/ /\ page[p].generation = generation
          /\ WriteConsent(p, page[p].asks \cup
                             (IF consent = NoConsent THEN {} ELSE consent.rights),
                          machine)
          /\ Approve(p)
          /\ UNCHANGED <<generation, used, exchange, refresh>>

(* The user approves additions: the row must still be the one shown.       *)
DecideIncremental(p) ==
    /\ page[p].pc = "incremental"
    /\ \/ /\ consent # page[p].seen
          /\ Refuse(p)
       \/ /\ consent = page[p].seen
          /\ page' = [page EXCEPT ![p].pc = "approving"]
          /\ UNCHANGED <<consent, generation, stamp, used, exchange, refresh,
                         revocation, approved>>

(* The additions are written only over the row the decision was made on.   *)
ReplaceIncremental(p) ==
    /\ page[p].pc = "approving"
    /\ \/ /\ consent # page[p].seen
          /\ Refuse(p)
       \/ /\ consent = page[p].seen
          /\ WriteConsent(p, page[p].asks \cup page[p].seen.rights, FALSE)
          /\ Approve(p)
          /\ UNCHANGED <<generation, used, exchange, refresh>>

(* Before the code is inserted the reference is validated once.            *)
CheckBeforeCode(p) ==
    /\ page[p].pc = "granted"
    /\ IF /\ ValidReference(consent, page[p].reference, page[p].asks)
          /\ page[p].additive => UnchangedSince(p)
       THEN /\ page' = [page EXCEPT ![p].pc = "checked"]
            /\ UNCHANGED <<consent, generation, stamp, used, exchange, refresh,
                           revocation, approved>>
       ELSE Refuse(p)

InsertCode(p) ==
    /\ page[p].pc = "checked"
    /\ page' = [page EXCEPT ![p].pc = "coded"]
    /\ UNCHANGED <<consent, generation, stamp, used, exchange, refresh,
                   revocation, approved>>

-----------------------------------------------------------------------------
(* Exchanges of a code for tokens.                                         *)

\* slip: an exchange claims a code another one has used
ClaimUsedCode(x, p) ==
    /\ exchange[x].pc = "idle"
    /\ page[p].pc = "coded"
    /\ used' = used \cup {p}
    /\ exchange' = [exchange EXCEPT ![x].pc = "claimed", ![x].code = {p}]
    /\ UNCHANGED <<consent, generation, stamp, page, refresh, revocation, approved>>

(* One exchange marks the code used; a later one is a replay.              *)
ClaimCode(x, p) ==
    /\ exchange[x].pc = "idle"
    /\ page[p].pc = "coded"
    /\ used' = used \cup {p}
    /\ exchange' = [exchange EXCEPT
                      ![x].pc = IF p \in used THEN "replay" ELSE "claimed",
                      ![x].code = {p}]
    /\ UNCHANGED <<consent, generation, stamp, page, refresh, revocation, approved>>

(* A replay revokes every refresh token of the user and the client.        *)
RevokeAfterReplay(x) ==
    /\ exchange[x].pc = "replay"
    /\ exchange' = [exchange EXCEPT ![x].pc = "refused"]
    /\ refresh' = [y \in Exchanges |->
                     IF refresh[y] = "active" THEN "revoked" ELSE refresh[y]]
    /\ UNCHANGED <<consent, generation, stamp, page, used, revocation, approved>>

(* Expiry, redirect, client, secret and verifier are checked after the     *)
(* code is spent, then the reference.                                      *)
CheckExchange(x) ==
    \E p \in exchange[x].code, rest \in BOOLEAN :
        /\ exchange[x].pc = "claimed"
        /\ exchange' = [exchange EXCEPT ![x].pc =
             IF /\ rest
                /\ page[p].additive => UnchangedSince(p)
                /\ ValidReference(consent, page[p].reference, page[p].asks)
             THEN "checked" ELSE "refused"]
        /\ UNCHANGED <<consent, generation, stamp, page, used, refresh,
                       revocation, approved>>

StoreRefresh(x) ==
    /\ exchange[x].pc = "checked"
    /\ refresh' = [refresh EXCEPT ![x] = "active"]
    /\ exchange' = [exchange EXCEPT ![x].pc = "stored"]
    /\ UNCHANGED <<consent, generation, stamp, page, used, revocation, approved>>

(* After the token is stored its reference is validated again where the    *)
(* token is issued and at the end of the exchange; in between, an additive *)
(* request must find its row unchanged.                                    *)
Fences(p) == IF page[p].additive THEN 3 ELSE 2

FenceRead(x) ==
    \E p \in exchange[x].code :
        /\ exchange[x].pc = "stored"
        /\ exchange' = [exchange EXCEPT
             ![x].pc = IF IF page[p].additive /\ exchange[x].fences = 1
                          THEN UnchangedSince(p)
                          ELSE ValidReference(consent, page[p].reference, page[p].asks)
                       THEN "fencing" ELSE "undo",
             ![x].seen = consent]
        /\ UNCHANGED <<consent, generation, stamp, page, used, refresh,
                       revocation, approved>>

Fenced(x) ==
    \E p \in exchange[x].code :
        exchange' = [exchange EXCEPT
            ![x].pc = IF exchange[x].fences + 1 = Fences(p) THEN "delivered" ELSE "stored",
            ![x].seen = NoConsent,
            ![x].fences = @ + 1]

\* slip: the row is validated but not written
FenceWithoutWrite(x) ==
    /\ exchange[x].pc = "fencing"
    /\ IF consent = exchange[x].seen THEN Fenced(x)
       ELSE exchange' = [exchange EXCEPT ![x].pc = "undo"]
    /\ UNCHANGED <<consent, generation, stamp, page, used, refresh, revocation, approved>>

\* slip: the write does not require the row that was validated
FenceAnyRow(x) ==
    /\ exchange[x].pc = "fencing"
    /\ Fenced(x)
    /\ Conflict
    /\ UNCHANGED <<consent, generation, stamp, page, used, refresh, approved>>

(* Each validation is followed by a write to the row it read, which fails  *)
(* when the row changed and makes an open withdrawal's commit fail.        *)
FenceWrite(x) ==
    /\ exchange[x].pc = "fencing"
    /\ \/ /\ consent = exchange[x].seen
          /\ Fenced(x)
          /\ Conflict
       \/ /\ consent # exchange[x].seen
          /\ exchange' = [exchange EXCEPT ![x].pc = "undo"]
          /\ UNCHANGED revocation
    /\ UNCHANGED <<consent, generation, stamp, page, used, refresh, approved>>

(* A failed fence revokes the token that was just stored.                  *)
UndoRefresh(x) ==
    /\ exchange[x].pc = "undo"
    /\ refresh' = [refresh EXCEPT ![x] = "revoked"]
    /\ exchange' = [exchange EXCEPT ![x].pc = "refused"]
    /\ UNCHANGED <<consent, generation, stamp, page, used, revocation, approved>>

(* The call ends early: its client left, its replica stopped, or a query   *)
(* failed.  A stored token stays stored.                                   *)
Abandon(x) ==
    /\ exchange[x].pc \in {"replay", "claimed", "checked", "stored", "fencing", "undo"}
    /\ exchange' = [exchange EXCEPT ![x].pc = "gone"]
    /\ UNCHANGED <<consent, generation, stamp, page, used, refresh, revocation, approved>>

-----------------------------------------------------------------------------
(* Withdrawal: the generation moves, the row goes, active tokens are       *)
(* revoked, in one transaction.                                            *)

RevokeBegin ==
    /\ revocation.pc = "idle"
    /\ consent # NoConsent
    /\ generation < MaxRevocations
    /\ revocation' = [pc |-> "open", conflict |-> FALSE,
                      sees |-> {x \in Exchanges : refresh[x] = "active"}]
    /\ UNCHANGED <<consent, generation, stamp, page, used, exchange, refresh, approved>>

RevokeCommit ==
    /\ revocation.pc = "open"
    /\ ~revocation.conflict
    /\ consent' = NoConsent
    /\ generation' = generation + 1
    /\ refresh' = [x \in Exchanges |->
                     IF x \in revocation.sees THEN "revoked" ELSE refresh[x]]
    /\ revocation' = [revocation EXCEPT !.pc = "idle", !.sees = {}]
    /\ approved' = {}
    /\ UNCHANGED <<stamp, page, used, exchange>>

RevokeAbort ==
    /\ revocation.pc = "open"
    /\ revocation.conflict
    /\ revocation' = [pc |-> "idle", sees |-> {}, conflict |-> FALSE]
    /\ UNCHANGED <<consent, generation, stamp, page, used, exchange, refresh, approved>>

-----------------------------------------------------------------------------
PageStep(p) ==
    \/ \E rights \in SUBSET Rights \ {{}}, kind \in {"review", "incremental"} :
           OpenReview(p, rights, kind)
    \/ \E rights \in SUBSET Rights \ {{}} : AuthorizeSilently(p, rights)
    \/ \E machine \in BOOLEAN : DecideReview(p, machine)
    \/ DecideIncremental(p)
    \/ ReplaceIncremental(p)
    \/ CheckBeforeCode(p)
    \/ InsertCode(p)

ExchangeStep(x) ==
    \/ \E p \in Pages : ClaimCode(x, p)
    \/ RevokeAfterReplay(x)
    \/ CheckExchange(x)
    \/ StoreRefresh(x)
    \/ FenceRead(x)
    \/ FenceWrite(x)
    \/ UndoRefresh(x)
    \/ Abandon(x)

ConsentNext ==
    \/ \E p \in Pages : PageStep(p)
    \/ \E x \in Exchanges : ExchangeStep(x)
    \/ RevokeBegin
    \/ RevokeCommit
    \/ RevokeAbort

ConsentSpec == ConsentInit /\ [][ConsentNext]_consentVars

-----------------------------------------------------------------------------
(* A refresh token that a client holds is active only while the consent    *)
(* row its code was issued from exists.  A withdrawal that races the       *)
(* exchange either makes the fence fail or sees the stored token           *)
(* (consent_service.rs: "A revoke racing before this fence makes issuance  *)
(* fail; one racing after it observes the persisted refresh row").         *)
WithdrawnConsentLeavesNoToken ==
    \A x \in Exchanges :
        exchange[x].pc = "delivered" /\ refresh[x] = "active" =>
            \A p \in exchange[x].code :
                consent # NoConsent /\ consent.id = page[p].reference.id

(* The row grants exactly what was approved on pages shown since the last  *)
(* withdrawal: an old page brings back nothing, and of two decisions taken *)
(* at once neither is lost.                                                *)
ConsentIsWhatWasApproved ==
    consent # NoConsent => consent.rights = approved

(* One code leads to one stored refresh token at most, whatever number of  *)
(* exchanges present it.                                                   *)
OneTokenPerCode ==
    \A x, y \in Exchanges :
        /\ refresh[x] # "none"
        /\ refresh[y] # "none"
        /\ exchange[x].code = exchange[y].code
        => x = y

(* Tokens are handed out only under the revision their code was issued     *)
(* from, which the row has at that very step.                              *)
DeliveredUnderLiveRevision ==
    [][\A x \in Exchanges :
          exchange'[x].pc = "delivered" /\ exchange[x].pc # "delivered" =>
              \A p \in exchange[x].code :
                  ValidReference(consent, page[p].reference, page[p].asks)]_consentVars
=============================================================================
