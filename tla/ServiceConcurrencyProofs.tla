---------------------- MODULE ServiceConcurrencyProofs ----------------------
(***************************************************************************)
(* Proofs about ServiceConcurrency for every set of calls and policies and *)
(* every TTL, renewal interval and timeout with                            *)
(* RenewInterval + 2 * RenewTimeout < TTL.                                 *)
(*                                                                         *)
(* The argument is about time.  A renewal that is not answered is given up *)
(* RenewTimeout after it was sent, and the next one is sent RenewInterval  *)
(* after the answer, so a running call always has more of its slot left    *)
(* than it needs to find out that the slot is lost.                        *)
(***************************************************************************)
EXTENDS ServiceConcurrency, FiniteSetTheorems, TLAPS

(* What is left of a running lease's slot, in each phase of its renewal.    *)
SlotMargin(c) ==
    /\ lease[c].pc = "running" /\ renewal[c] = "none" =>
           slot[c] > timer[c] + RenewTimeout
    /\ lease[c].pc = "running" /\ renewal[c] = "sent" => slot[c] > patience[c]
    /\ lease[c].pc = "running" => renewal[c] # "refused"
    /\ LoopAlive(c) /\ renewal[c] = "renewed" =>
           slot[c] + RenewTimeout >= TTL + patience[c]

(* A removal is on its way only for a call that is over, and only a call   *)
(* with a live lease has a renewal in flight.                              *)
LeaseOver(c) ==
    /\ release[c] => lease[c].pc = "ended"
    /\ renewal[c] # "none" => LoopAlive(c)

(* The limit a call read is one that was set.                              *)
KnownLimit(c) == lease[c].pc = "claiming" => lease[c].limit <= ceiling

(* The greatest limit covers the present one.                              *)
CeilingCovers ==
    EffectiveLimit(policy) # Unlimited => EffectiveLimit(policy) <= ceiling

LeaseInv(c) == SlotMargin(c) /\ LeaseOver(c) /\ KnownLimit(c)

ConcurrencyInv ==
    /\ ConcurrencyTypeOK
    /\ DocumentOutlivesSlots
    /\ \A c \in Leases : LeaseInv(c)
    /\ Cardinality(Held) <= ceiling
    /\ CeilingCovers

-----------------------------------------------------------------------------
(* Held slots are finite in number, before and after a step.               *)
LEMMA HeldFinite ==
    /\ IsFiniteSet(Held) /\ Cardinality(Held) \in Nat
    /\ IsFiniteSet(Held') /\ Cardinality(Held') \in Nat
<1>1. Held \subseteq Leases /\ Held' \subseteq Leases
  BY DEF Held
<1>2. IsFiniteSet(Held) /\ IsFiniteSet(Held')
  BY <1>1, ConcurrencyAssumption, FS_Subset
<1> QED
  BY <1>2, FS_CardinalityType

(* Fewer held slots keep the bound.                                        *)
LEMMA FewerHeld ==
    ASSUME Held' \subseteq Held, ceiling \in Nat, ceiling' \in Nat, ceiling' >= ceiling,
           Cardinality(Held) <= ceiling
    PROVE  Cardinality(Held') <= ceiling'
<1>1. Cardinality(Held') <= Cardinality(Held)
  BY HeldFinite, FS_Subset
<1> QED
  BY <1>1, HeldFinite

(* The greatest limit only grows, and covers the limit it was raised for.  *)
LEMMA AtLeastGrows ==
    ASSUME NEW n \in Nat, NEW l \in Limit
    PROVE  /\ AtLeast(n, l) \in Nat
           /\ AtLeast(n, l) >= n
           /\ l # Unlimited => l \in Nat /\ AtLeast(n, l) >= l
BY ConcurrencyAssumption DEF AtLeast, Limit

(* A step that leaves a lease's own state alone and takes nothing from its *)
(* slot keeps what is known of the lease.                                  *)
LEMMA UntouchedLease ==
    ASSUME ConcurrencyTypeOK, ConcurrencyTypeOK', NEW d \in Leases, LeaseInv(d),
           lease'[d] = lease[d], timer'[d] = timer[d], renewal'[d] = renewal[d],
           patience'[d] = patience[d], release'[d] = release[d],
           slot'[d] >= slot[d], ceiling' >= ceiling
    PROVE  LeaseInv(d)'
BY ConcurrencyAssumption
DEF ConcurrencyTypeOK, LeaseInv, SlotMargin, LeaseOver, KnownLimit, LoopAlive

(* The invariant holds initially.                                          *)
LEMMA ConcurrencyInitially == ConcurrencyInit => ConcurrencyInv
<1> SUFFICES ASSUME ConcurrencyInit PROVE ConcurrencyInv
  OBVIOUS
<1>1. EffectiveLimit(policy) \in Limit
  BY ConcurrencyAssumption DEF ConcurrencyInit
<1>2. ceiling \in Nat
  BY <1>1, AtLeastGrows DEF ConcurrencyInit
<1>3. ConcurrencyTypeOK
  BY <1>2, ConcurrencyAssumption DEF ConcurrencyInit, ConcurrencyTypeOK, LeaseState
<1>4. Held = {}
  BY DEF ConcurrencyInit, Held
<1>5. Cardinality(Held) <= ceiling
  BY <1>2, <1>4, FS_EmptySet
<1>6. CeilingCovers
  BY <1>1, AtLeastGrows DEF ConcurrencyInit, CeilingCovers
<1> QED
  BY <1>3, <1>5, <1>6 DEF ConcurrencyInit, ConcurrencyInv, DocumentOutlivesSlots,
     LeaseInv, SlotMargin, LeaseOver, KnownLimit, LoopAlive

-----------------------------------------------------------------------------
(* A policy change raises the ceiling or leaves it.                        *)
LEMMA SetPolicyKeeps ==
    ASSUME ConcurrencyInv, NEW p \in Policies, SetPolicy(p)
    PROVE  ConcurrencyInv'
<1>1. EffectiveLimit(p) \in Limit
  BY ConcurrencyAssumption
<1>2. ceiling \in Nat /\ ceiling' \in Nat /\ ceiling' >= ceiling
  BY <1>1, AtLeastGrows DEF SetPolicy, ConcurrencyInv, ConcurrencyTypeOK
<1>3. ConcurrencyTypeOK'
  BY <1>2 DEF SetPolicy, ConcurrencyInv, ConcurrencyTypeOK
<1>4. Cardinality(Held') <= ceiling'
  BY <1>2, FewerHeld DEF SetPolicy, ConcurrencyInv, Held
<1>5. ASSUME NEW d \in Leases PROVE LeaseInv(d)'
  BY <1>2, <1>3, UntouchedLease DEF SetPolicy, ConcurrencyInv, ConcurrencyTypeOK
<1>6. DocumentOutlivesSlots'
  BY DEF SetPolicy, ConcurrencyInv, DocumentOutlivesSlots
<1>7. CeilingCovers'
  BY <1>1, AtLeastGrows DEF SetPolicy, ConcurrencyInv, ConcurrencyTypeOK, CeilingCovers
<1> QED
  BY <1>3, <1>4, <1>5, <1>6, <1>7 DEF ConcurrencyInv

(* The steps of a lease that leave slots and document alone.               *)
QuietStep(c) ==
    \/ Acquire(c) \/ ClaimFails(c) \/ Confirm(c) \/ SendRenewal(c)
    \/ RenewalAnswered(c) \/ RenewalLost(c) \/ Finish(c) \/ FinishFree(c) \/ Crash(c)

(* They keep the types and the state of the other leases.                  *)
LEMMA QuietStepTypes ==
    ASSUME ConcurrencyTypeOK, NEW c \in Leases, QuietStep(c)
    PROVE  /\ ConcurrencyTypeOK'
           /\ UNCHANGED <<policy, ceiling, slot, docLeft>>
           /\ \A d \in Leases \ {c} :
                UNCHANGED <<lease[d], timer[d], renewal[d], patience[d], release[d]>>
<1>1. EffectiveLimit(policy) \in Limit
  BY ConcurrencyAssumption DEF ConcurrencyTypeOK
<1>2. UNCHANGED <<policy, ceiling, slot, docLeft>>
  BY DEF QuietStep, Acquire, ClaimFails, Confirm, SendRenewal, RenewalAnswered,
     RenewalLost, Finish, FinishFree, Crash, DropLease
<1>3. lease' \in [Leases -> [pc : LeaseState, limit : Nat]]
  <2>1. CASE Acquire(c)
    BY <1>1, <2>1 DEF Acquire, ConcurrencyTypeOK, LeaseState, Limit
  <2>2. CASE ~Acquire(c)
    BY <2>2 DEF QuietStep, ClaimFails, Confirm, SendRenewal, RenewalAnswered,
       RenewalLost, Finish, FinishFree, Crash, DropLease, ConcurrencyTypeOK, LeaseState
  <2> QED
    BY <2>1, <2>2
<1>4. /\ timer' \in [Leases -> 0 .. RenewInterval]
      /\ renewal' \in [Leases -> {"none", "sent", "renewed", "refused"}]
      /\ patience' \in [Leases -> 0 .. RenewTimeout]
  BY ConcurrencyAssumption
  DEF QuietStep, Acquire, ClaimFails, Confirm, SendRenewal, RenewalAnswered,
      RenewalLost, Finish, FinishFree, Crash, DropLease, ConcurrencyTypeOK
<1>5. late' \in [Leases -> BOOLEAN] /\ release' \in [Leases -> BOOLEAN]
  BY DEF QuietStep, Acquire, ClaimFails, Confirm, SendRenewal, RenewalAnswered,
     RenewalLost, Finish, FinishFree, Crash, DropLease, ConcurrencyTypeOK
<1>6. ASSUME NEW d \in Leases \ {c}
      PROVE  UNCHANGED <<lease[d], timer[d], renewal[d], patience[d], release[d]>>
  BY DEF QuietStep, Acquire, ClaimFails, Confirm, SendRenewal, RenewalAnswered,
     RenewalLost, Finish, FinishFree, Crash, DropLease, ConcurrencyTypeOK
<1> QED
  BY <1>2, <1>3, <1>4, <1>5, <1>6 DEF ConcurrencyTypeOK

(* They keep what is known of their own lease.                             *)
LEMMA QuietStepLease ==
    ASSUME ConcurrencyTypeOK, NEW c \in Leases, QuietStep(c), LeaseInv(c),
           CeilingCovers
    PROVE  LeaseInv(c)'
<1> USE ConcurrencyAssumption
<1>1. CASE Acquire(c)
  BY <1>1 DEF Acquire, ConcurrencyTypeOK, LeaseInv, SlotMargin, LeaseOver, KnownLimit,
     LoopAlive, CeilingCovers
<1>2. CASE ClaimFails(c) \/ FinishFree(c)
  BY <1>2 DEF ClaimFails, FinishFree, ConcurrencyTypeOK, LeaseInv, SlotMargin, LeaseOver,
     KnownLimit, LoopAlive
<1>3. CASE Confirm(c)
  BY <1>3 DEF Confirm, ConcurrencyTypeOK, LeaseInv, SlotMargin, LeaseOver, KnownLimit, LoopAlive
<1>4. CASE SendRenewal(c)
  BY <1>4 DEF SendRenewal, RenewalDue, ConcurrencyTypeOK, LeaseInv, SlotMargin, LeaseOver,
     KnownLimit, LoopAlive
<1>5. CASE RenewalAnswered(c)
  BY <1>5 DEF RenewalAnswered, ConcurrencyTypeOK, LeaseInv, SlotMargin, LeaseOver,
     KnownLimit, LoopAlive
<1>6. CASE RenewalLost(c) \/ Finish(c) \/ Crash(c)
  BY <1>6 DEF RenewalLost, Finish, Crash, DropLease, ConcurrencyTypeOK, LeaseInv, SlotMargin,
     LeaseOver, KnownLimit, LoopAlive
<1> QED
  BY <1>1, <1>2, <1>3, <1>4, <1>5, <1>6 DEF QuietStep

(* So they keep the invariant.                                             *)
LEMMA QuietStepKeeps ==
    ASSUME ConcurrencyInv, NEW c \in Leases, QuietStep(c)
    PROVE  ConcurrencyInv'
<1>1. /\ ConcurrencyTypeOK /\ ConcurrencyTypeOK'
      /\ UNCHANGED <<policy, ceiling, slot, docLeft>>
      /\ \A d \in Leases \ {c} :
           UNCHANGED <<lease[d], timer[d], renewal[d], patience[d], release[d]>>
  BY QuietStepTypes DEF ConcurrencyInv
<1>2. ASSUME NEW d \in Leases \ {c} PROVE LeaseInv(d)'
  BY <1>1, UntouchedLease DEF ConcurrencyInv, ConcurrencyTypeOK
<1>3. LeaseInv(c)'
  BY <1>1, QuietStepLease DEF ConcurrencyInv
<1>4. Cardinality(Held') <= ceiling'
  BY <1>1, FewerHeld DEF ConcurrencyInv, ConcurrencyTypeOK, Held
<1> QED
  BY <1>1, <1>2, <1>3, <1>4 DEF ConcurrencyInv, DocumentOutlivesSlots, CeilingCovers

-----------------------------------------------------------------------------
(* A claim takes a slot only below a limit that was set.                   *)
LEMMA ClaimKeeps ==
    ASSUME ConcurrencyInv, NEW c \in Leases, Claim(c)
    PROVE  ConcurrencyInv'
<1> USE ConcurrencyAssumption
<1>1. ConcurrencyTypeOK /\ ConcurrencyTypeOK'
  BY DEF Claim, ConcurrencyInv, ConcurrencyTypeOK, LeaseState
<1>2. ASSUME NEW d \in Leases \ {c} PROVE LeaseInv(d)'
  BY <1>1, UntouchedLease DEF Claim, ConcurrencyInv, ConcurrencyTypeOK
<1>3. LeaseInv(c)'
  BY <1>1 DEF Claim, ConcurrencyInv, ConcurrencyTypeOK, LeaseInv, SlotMargin, LeaseOver,
     KnownLimit, LoopAlive
<1>4. Cardinality(Held') <= ceiling'
  <2>1. CASE HasRoom(c)
    <3>1. Held' \subseteq Held \cup {c}
      BY <1>1, <2>1 DEF Claim, ConcurrencyTypeOK, Held
    <3>2. IsFiniteSet(Held \cup {c}) /\ Cardinality(Held \cup {c}) <= Cardinality(Held) + 1
      <4>1. CASE c \in Held
        <5>1. Held \cup {c} = Held
          BY <4>1
        <5>2. Cardinality(Held) <= Cardinality(Held) + 1
          BY HeldFinite
        <5> QED
          BY <5>1, <5>2, HeldFinite, Zenon
      <4>2. CASE c \notin Held
        <5>1. /\ IsFiniteSet(Held \cup {c})
              /\ Cardinality(Held \cup {c}) = Cardinality(Held) + 1
          BY <4>2, HeldFinite, FS_AddElement, Zenon
        <5> QED
          BY <5>1, HeldFinite
      <4> QED
        BY <4>1, <4>2
    <3>3. Cardinality(Held') <= Cardinality(Held \cup {c}) /\ Cardinality(Held \cup {c}) \in Nat
      BY <3>1, <3>2, FS_Subset, FS_CardinalityType
    <3>4. /\ lease[c].limit <= ceiling
          /\ lease[c].limit \in Nat /\ ceiling \in Nat /\ ceiling' = ceiling
          /\ Cardinality(Held) < lease[c].limit
      BY <1>1, <2>1 DEF Claim, HasRoom, ConcurrencyInv, LeaseInv, KnownLimit, ConcurrencyTypeOK
    <3> QED
      BY <3>2, <3>3, <3>4, HeldFinite
  <2>2. CASE ~HasRoom(c)
    BY <1>1, <2>2, FewerHeld DEF Claim, ConcurrencyInv, ConcurrencyTypeOK, Held
  <2> QED
    BY <2>1, <2>2
<1>5. DocumentOutlivesSlots' /\ CeilingCovers'
  BY <1>1 DEF Claim, ConcurrencyInv, ConcurrencyTypeOK, DocumentOutlivesSlots, CeilingCovers
<1> QED
  BY <1>1, <1>2, <1>3, <1>4, <1>5 DEF ConcurrencyInv

(* A renewal, waited for or not, extends a held slot and revives none.     *)
LEMMA RenewKeeps ==
    ASSUME ConcurrencyInv, NEW c \in Leases, ExecuteRenewal(c) \/ LateRenewal(c)
    PROVE  ConcurrencyInv'
<1> USE ConcurrencyAssumption
<1>1. ConcurrencyTypeOK /\ ConcurrencyTypeOK'
  <2>1. CASE ExecuteRenewal(c)
    BY <2>1 DEF ExecuteRenewal, Renew, ConcurrencyInv, ConcurrencyTypeOK
  <2>2. CASE LateRenewal(c)
    BY <2>2 DEF LateRenewal, Renew, ConcurrencyInv, ConcurrencyTypeOK
  <2> QED
    BY <2>1, <2>2
<1>2. ASSUME NEW d \in Leases \ {c} PROVE LeaseInv(d)'
  <2>1. /\ lease'[d] = lease[d] /\ timer'[d] = timer[d] /\ renewal'[d] = renewal[d]
        /\ patience'[d] = patience[d] /\ release'[d] = release[d]
        /\ slot'[d] >= slot[d] /\ ceiling' >= ceiling
    BY <1>1 DEF ExecuteRenewal, LateRenewal, Renew, ConcurrencyTypeOK
  <2> QED
    BY <1>1, <2>1, UntouchedLease DEF ConcurrencyInv
<1>3. LeaseInv(c)'
  <2>1. CASE ExecuteRenewal(c)
    BY <1>1, <2>1 DEF ExecuteRenewal, Renew, ConcurrencyInv, ConcurrencyTypeOK, LeaseInv,
       SlotMargin, LeaseOver, KnownLimit, LoopAlive
  <2>2. CASE LateRenewal(c)
    <3>1. /\ lease'[c] = lease[c] /\ timer'[c] = timer[c] /\ renewal'[c] = renewal[c]
          /\ patience'[c] = patience[c] /\ release'[c] = release[c]
          /\ slot'[c] >= slot[c] /\ ceiling' >= ceiling
      BY <1>1, <2>2 DEF LateRenewal, Renew, ConcurrencyTypeOK
    <3> QED
      BY <1>1, <3>1, UntouchedLease DEF ConcurrencyInv
  <2> QED
    BY <2>1, <2>2
<1>4. Cardinality(Held') <= ceiling'
  <2>1. Held' \subseteq Held
    BY <1>1 DEF ExecuteRenewal, LateRenewal, Renew, ConcurrencyTypeOK, Held
  <2> QED
    BY <1>1, <2>1, FewerHeld
    DEF ExecuteRenewal, LateRenewal, ConcurrencyInv, ConcurrencyTypeOK
<1>5. DocumentOutlivesSlots' /\ CeilingCovers'
  BY <1>1 DEF ExecuteRenewal, LateRenewal, Renew, ConcurrencyInv, ConcurrencyTypeOK,
     DocumentOutlivesSlots, CeilingCovers
<1> QED
  BY <1>1, <1>2, <1>3, <1>4, <1>5 DEF ConcurrencyInv

(* Removals concern leases that are over; a document is deleted only when  *)
(* no slot in it is held.                                                  *)
LEMMA RemovalKeeps ==
    ASSUME ConcurrencyInv, Reap \/ \E c \in Leases : Release(c)
    PROVE  ConcurrencyInv'
<1> USE ConcurrencyAssumption
<1>1. CASE Reap
  <2>1. slot' = slot
    BY <1>1 DEF Reap, ConcurrencyInv, ConcurrencyTypeOK, DocumentOutlivesSlots
  <2> QED
    BY <1>1, <2>1 DEF Reap, ConcurrencyInv, ConcurrencyTypeOK, DocumentOutlivesSlots, LeaseInv,
       SlotMargin, LeaseOver, KnownLimit, LoopAlive, Held, CeilingCovers
<1>2. ASSUME NEW c \in Leases, Release(c) PROVE ConcurrencyInv'
  <2>1. ConcurrencyTypeOK /\ ConcurrencyTypeOK'
    BY <1>2 DEF Release, ConcurrencyInv, ConcurrencyTypeOK
  <2>2. ASSUME NEW d \in Leases \ {c} PROVE LeaseInv(d)'
    <3>1. /\ lease'[d] = lease[d] /\ timer'[d] = timer[d] /\ renewal'[d] = renewal[d]
          /\ patience'[d] = patience[d] /\ release'[d] = release[d]
          /\ slot'[d] >= slot[d] /\ ceiling' >= ceiling
      BY <1>2, <2>1 DEF Release, ConcurrencyTypeOK
    <3> QED
      BY <2>1, <3>1, UntouchedLease DEF ConcurrencyInv
  <2>3. LeaseInv(c)'
    BY <1>2, <2>1 DEF Release, ConcurrencyInv, ConcurrencyTypeOK, LeaseInv, SlotMargin,
       LeaseOver, KnownLimit, LoopAlive
  <2>4. Held' \subseteq Held
    BY <1>2, <2>1 DEF Release, ConcurrencyTypeOK, Held
  <2>5. Cardinality(Held') <= ceiling'
    BY <1>2, <2>1, <2>4, FewerHeld DEF Release, ConcurrencyInv, ConcurrencyTypeOK
  <2>6. DocumentOutlivesSlots' /\ CeilingCovers'
    BY <1>2, <2>1 DEF Release, ConcurrencyInv, ConcurrencyTypeOK, DocumentOutlivesSlots,
       CeilingCovers
  <2> QED
    BY <2>1, <2>2, <2>3, <2>5, <2>6 DEF ConcurrencyInv
<1> QED
  BY <1>1, <1>2

(* Time takes as much from a slot as from the timer that guards it.        *)
LEMMA TickKeeps ==
    ASSUME ConcurrencyInv, Tick
    PROVE  ConcurrencyInv'
<1> USE ConcurrencyAssumption
<1>1. ConcurrencyTypeOK /\ ConcurrencyTypeOK'
  BY DEF Tick, Less, ConcurrencyInv, ConcurrencyTypeOK
<1>2. ASSUME NEW d \in Leases PROVE LeaseInv(d)'
  BY <1>1 DEF Tick, Less, TimerDue, RenewalDue, ConcurrencyInv, ConcurrencyTypeOK, LeaseInv,
     SlotMargin, LeaseOver, KnownLimit, LoopAlive
<1>3. Held' \subseteq Held
  BY <1>1 DEF Tick, Less, ConcurrencyTypeOK, Held
<1>4. Cardinality(Held') <= ceiling'
  BY <1>1, <1>3, FewerHeld DEF Tick, ConcurrencyInv, ConcurrencyTypeOK
<1>5. DocumentOutlivesSlots' /\ CeilingCovers'
  BY <1>1 DEF Tick, Less, ConcurrencyInv, ConcurrencyTypeOK, DocumentOutlivesSlots, CeilingCovers
<1> QED
  BY <1>1, <1>2, <1>4, <1>5 DEF ConcurrencyInv

-----------------------------------------------------------------------------
(* Every step keeps the invariant.                                         *)
LEMMA ConcurrencyStep == ConcurrencyInv /\ [ConcurrencyNext]_concurrencyVars => ConcurrencyInv'
<1> SUFFICES ASSUME ConcurrencyInv, [ConcurrencyNext]_concurrencyVars
             PROVE  ConcurrencyInv'
  OBVIOUS
<1>1. ASSUME NEW p \in Policies, SetPolicy(p) PROVE ConcurrencyInv'
  BY <1>1, SetPolicyKeeps
<1>2. ASSUME NEW c \in Leases, QuietStep(c) PROVE ConcurrencyInv'
  BY <1>2, QuietStepKeeps
<1>3. ASSUME NEW c \in Leases, Claim(c) PROVE ConcurrencyInv'
  BY <1>3, ClaimKeeps
<1>4. ASSUME NEW c \in Leases, ExecuteRenewal(c) \/ LateRenewal(c) PROVE ConcurrencyInv'
  BY <1>4, RenewKeeps
<1>5. CASE Reap \/ \E c \in Leases : Release(c)
  BY <1>5, RemovalKeeps
<1>6. CASE Tick
  BY <1>6, TickKeeps
<1>7. CASE UNCHANGED concurrencyVars
  BY <1>7 DEF concurrencyVars, ConcurrencyInv, ConcurrencyTypeOK, DocumentOutlivesSlots,
     LeaseInv, SlotMargin, LeaseOver, KnownLimit, LoopAlive, Held, CeilingCovers
<1> QED
  BY <1>1, <1>2, <1>3, <1>4, <1>5, <1>6, <1>7 DEF ConcurrencyNext, LeaseStep, QuietStep

(* The inductive invariant of the claims and renewals.                     *)
THEOREM ConcurrencyInvariant == ConcurrencySpec => []ConcurrencyInv
  BY ConcurrencyInitially, ConcurrencyStep, PTL DEF ConcurrencySpec

(* Every variable keeps its type (claim_inner, renew, Lease).              *)
THEOREM ConcurrencyTypes == ConcurrencySpec => []ConcurrencyTypeOK
<1>1. ConcurrencyInv => ConcurrencyTypeOK
  BY DEF ConcurrencyInv
<1> QED
  BY <1>1, ConcurrencyInvariant, PTL

(* A running call holds its slot, so the running calls are within the      *)
(* greatest limit that was set (claim_inner, Lease::new).                  *)
THEOREM CapacityHolds == ConcurrencySpec => []ServiceCapacity
<1>1. ConcurrencyInv => ServiceCapacity
  <2> SUFFICES ASSUME ConcurrencyInv PROVE Cardinality(Running) <= ceiling
    BY DEF ServiceCapacity
  <2>1. Running \subseteq Held
    BY ConcurrencyAssumption DEF Running, Held, ConcurrencyInv, ConcurrencyTypeOK, LeaseInv,
       SlotMargin, LoopAlive
  <2>2. IsFiniteSet(Running) /\ Cardinality(Running) <= Cardinality(Held)
    BY <2>1, HeldFinite, FS_Subset
  <2>3. Cardinality(Running) \in Nat /\ ceiling \in Nat
    BY <2>2, FS_CardinalityType DEF ConcurrencyInv, ConcurrencyTypeOK
  <2> QED
    BY <2>2, <2>3, HeldFinite DEF ConcurrencyInv
<1> QED
  BY <1>1, ConcurrencyInvariant, PTL

(* The scope document outlives its slots (renew, the TTL index).           *)
THEOREM DocumentOutlives == ConcurrencySpec => []DocumentOutlivesSlots
<1>1. ConcurrencyInv => DocumentOutlivesSlots
  BY DEF ConcurrencyInv
<1> QED
  BY <1>1, ConcurrencyInvariant, PTL
=============================================================================
