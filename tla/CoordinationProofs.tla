------------------------- MODULE CoordinationProofs -------------------------
(***************************************************************************)
(* The limiters, the audit chain, and the shared stores side by side.      *)
(*                                                                         *)
(* The limiters let through what they promise, for every policy and every  *)
(* length of run.  The bucket: tokens spent since a moment and tokens      *)
(* still in the bucket are one budget.  Granting moves a token between the *)
(* two, time adds to it at the rate of the refill, and the removal of the  *)
(* document adds nothing because the retention covers the time of a full   *)
(* refill.                                                                 *)
(*                                                                         *)
(* The audit chain has neither gap nor fork and the verifier raises no     *)
(* false alarm, for any number of appends, transactions, relays, verifiers *)
(* and faults.                                                             *)
(*                                                                         *)
(* An entry that was prepared follows an entry of the chain, and the chain *)
(* only grows, so that it follows one for ever.  The unique index admits   *)
(* it only under a number that is free: the next one.  A transaction that  *)
(* has inserted its entry holds that number until it ends.                 *)
(***************************************************************************)
EXTENDS MCCoordination, OwnershipProofs, FiniteSetTheorems, FunctionTheorems, TLAPS

Fresh == \A s \in Times : s > now => used[s] = 0

Budget == \A s \in Times :
              s <= now => Scale * used[s] + Available <= Capacity + Refill * (now - s)

Kept == bucket # NoBucket => bucket.expires = bucket.at + Retention

BucketInv == BucketTypeOK /\ Fresh /\ Budget /\ Kept

-----------------------------------------------------------------------------
\* refill_ms rounds up: that many milliseconds do fill n units.
LEMMA MillisCover == \A n \in Nat : Millis(n) \in Nat /\ Millis(n) * Refill >= n
  <1> SUFFICES ASSUME NEW n \in Nat
               PROVE  Millis(n) \in Nat /\ Millis(n) * Refill >= n
    OBVIOUS
  <1> DEFINE m == n + Refill - 1
  <1>1. m \in Nat /\ Refill \in Nat \ {0}
    BY TokenBucketAssumption
  <1> HIDE DEF m
  <1>2. /\ m \div Refill \in Int
        /\ m % Refill \in 0 .. (Refill - 1)
        /\ m = Refill * (m \div Refill) + (m % Refill)
    BY <1>1, SMT
  <1> DEFINE q == m \div Refill
             r == m % Refill
  <1>3. q \in Int /\ r \in 0 .. (Refill - 1) /\ m = Refill * q + r
    BY <1>2
  <1> HIDE DEF q, r
  <1>4. Refill * q >= n
    BY <1>1, <1>3 DEF m
  <1>5. q >= 0
    BY <1>1, <1>3, <1>4, SMT
  <1>6. Millis(n) = q
    BY DEF q, m, Millis
  <1> QED BY <1>1, <1>3, <1>4, <1>5, <1>6

\* A full bucket is a whole number of units.
LEMMA CapacityType == Capacity \in Nat /\ Retention \in Nat /\ Retention >= Millis(Capacity)
  <1>1. Capacity \in Nat
    BY TokenBucketAssumption DEF Capacity
  <1>2. Millis(Capacity) \in Nat
    BY <1>1, MillisCover
  <1> QED BY <1>1, <1>2, TokenBucketAssumption DEF Retention

\* What the update finds in the bucket is never more than its capacity.
LEMMA AvailableType == BucketTypeOK => Available \in 0 .. Capacity
  <1> SUFFICES ASSUME BucketTypeOK PROVE Available \in 0 .. Capacity
    OBVIOUS
  <1>1. CASE bucket = NoBucket
    BY <1>1, CapacityType DEF Available
  <1>2. CASE bucket # NoBucket
    <2>1. /\ bucket.tokens \in 0 .. Capacity /\ bucket.at \in Nat /\ now \in Nat
          /\ bucket.at <= now
      BY <1>2, TokenBucketAssumption DEF BucketTypeOK, Bucket, Times
    <2>2. (now - bucket.at) * Refill \in Nat
      BY <2>1, TokenBucketAssumption
    <2> QED BY <1>2, <2>1, <2>2, CapacityType DEF Available
  <1> QED BY <1>1, <1>2

\* When the TTL monitor may take the document, it stands for a full bucket.
LEMMA ExpiredIsFull == BucketTypeOK /\ Kept /\ BucketReap => Available = Capacity
  <1> SUFFICES ASSUME BucketTypeOK, Kept, BucketReap PROVE Available = Capacity
    OBVIOUS
  <1>1. /\ bucket # NoBucket
        /\ bucket.tokens \in 0 .. Capacity /\ bucket.at \in Nat /\ now \in Nat
        /\ bucket.at + Retention <= now
    BY TokenBucketAssumption DEF BucketTypeOK, Bucket, Times, Kept, BucketReap
  <1> DEFINE d == now - bucket.at
             c == Millis(Capacity)
  <1>2. d \in Nat /\ c \in Nat /\ d >= c /\ c * Refill >= Capacity
    BY <1>1, CapacityType, MillisCover
  <1> HIDE DEF d, c
  <1>3. d * Refill >= c * Refill
    BY <1>2, TokenBucketAssumption
  <1>4. d * Refill >= Capacity /\ d * Refill \in Nat
    BY <1>2, <1>3, CapacityType, TokenBucketAssumption
  <1>5. bucket.tokens + (now - bucket.at) * Refill >= Capacity
    BY <1>1, <1>4, CapacityType DEF d
  <1> QED BY <1>5 DEF Available

-----------------------------------------------------------------------------
\* BucketInv holds of an empty store at the start.
LEMMA BucketInitInv == BucketInit => BucketInv
  <1> SUFFICES ASSUME BucketInit PROVE BucketInv
    OBVIOUS
  <1>1. 0 \in Times /\ \A s \in Times : s \in Nat
    BY TokenBucketAssumption DEF Times
  <1>2. BucketTypeOK /\ Fresh /\ Kept
    BY <1>1 DEF BucketInit, BucketTypeOK, Fresh, Kept
  <1>3. Budget
    <2> SUFFICES ASSUME NEW s \in Times, s <= now
                 PROVE  Scale * used[s] + Available <= Capacity + Refill * (now - s)
      BY DEF Budget
    <2>1. s = 0 /\ now = 0 /\ used[s] = 0 /\ Available = Capacity
      BY <1>1 DEF BucketInit, Available
    <2> QED BY <2>1, CapacityType, TokenBucketAssumption
  <1> QED BY <1>2, <1>3 DEF BucketInv

\* The update leaves in the bucket exactly what it wrote.
LEMMA UpdatedAvailable ==
    ASSUME BucketTypeOK, NEW t \in 0 .. Capacity, bucket' = Updated(t), now' = now
    PROVE  /\ Available' = t /\ Kept'
           /\ bucket' \in Bucket /\ bucket' # NoBucket /\ bucket'.at = now
  <1>1. now \in Nat /\ now \in Times
    BY TokenBucketAssumption DEF BucketTypeOK, Times
  <1>2. /\ bucket'.tokens = t /\ bucket'.at = now /\ bucket'.expires = now + Retention
        /\ bucket' \in [tokens : 0 .. Capacity, at : Times, expires : Nat]
    BY <1>1, CapacityType DEF Updated
  <1>3. bucket' # NoBucket
    BY <1>1, <1>2, CapacityType, TokenBucketAssumption DEF Updated
  <1>4. (now' - bucket'.at) * Refill = 0
    BY <1>1, <1>2, TokenBucketAssumption
  <1>5. Available' = t
    BY <1>2, <1>3, <1>4, CapacityType DEF Available
  <1> QED BY <1>2, <1>3, <1>5 DEF Kept, Bucket

\* Every step keeps the budget.
LEMMA BucketNextInv == BucketInv /\ [BucketNext]_bucketVars => BucketInv'
  <1> SUFFICES ASSUME BucketInv, [BucketNext]_bucketVars PROVE BucketInv'
    OBVIOUS
  <1> USE DEF BucketInv
  <1>t. /\ now \in Nat /\ now \in Times /\ used \in [Times -> Nat]
        /\ \A s \in Times : s \in Nat
        /\ Available \in 0 .. Capacity
    BY TokenBucketAssumption, AvailableType DEF BucketTypeOK, Times
  <1>1. CASE Allow
    <2>1. Available - Scale \in 0 .. Capacity
      BY <1>1, <1>t, CapacityType, TokenBucketAssumption DEF Allow
    <2>2. /\ Available' = Available - Scale /\ Kept'
          /\ bucket' \in Bucket /\ bucket' # NoBucket /\ bucket'.at = now
      BY <1>1, <2>1, UpdatedAvailable DEF Allow
    <2>3. /\ now' = now
          /\ used' = [s \in Times |-> IF s <= now THEN used[s] + 1 ELSE used[s]]
      BY <1>1 DEF Allow
    <2>4. BucketTypeOK' /\ Fresh'
      BY <1>t, <2>2, <2>3 DEF BucketTypeOK, Fresh, Bucket, Times
    <2>5. Budget'
      <3> SUFFICES ASSUME NEW s \in Times, s <= now
                   PROVE  Scale * used'[s] + Available' <= Capacity + Refill * (now - s)
        BY <2>3, CapacityType DEF Budget
      <3>1. used'[s] = used[s] + 1 /\ used[s] \in Nat
        BY <1>t, <2>3
      <3>2. Scale * used'[s] = Scale * used[s] + Scale
        BY <3>1, TokenBucketAssumption
      <3>3. Scale * used[s] + Available <= Capacity + Refill * (now - s)
        BY DEF Budget
      <3>4. Scale * used[s] \in Int /\ Refill * (now - s) \in Int
        BY <1>t, <3>1, TokenBucketAssumption
      <3> QED BY <1>t, <2>2, <3>2, <3>3, <3>4, CapacityType, TokenBucketAssumption
    <2> QED BY <2>2, <2>4, <2>5
  <1>2. CASE Deny
    <2>1. /\ Available' = Available /\ Kept'
          /\ bucket' \in Bucket /\ bucket' # NoBucket /\ bucket'.at = now
          /\ now' = now /\ used' = used
      BY <1>2, <1>t, UpdatedAvailable DEF Deny
    <2>2. BucketTypeOK' /\ Fresh'
      BY <1>t, <2>1 DEF BucketTypeOK, Fresh, Bucket, Times
    <2>3. Budget'
      BY <2>1 DEF Budget, Capacity, Times
    <2> QED BY <2>1, <2>2, <2>3
  <1>3. CASE BucketReap
    <2>1. /\ Available = Capacity /\ bucket' = NoBucket
          /\ now' = now /\ used' = used
      BY <1>3, ExpiredIsFull DEF BucketReap
    <2>2. Available' = Capacity
      BY <2>1 DEF Available, Capacity
    <2>3. BucketTypeOK' /\ Fresh' /\ Kept'
      BY <1>t, <2>1 DEF BucketTypeOK, Fresh, Kept, Bucket, Times
    <2>4. Budget'
      BY <2>1, <2>2 DEF Budget, Capacity, Times
    <2> QED BY <2>3, <2>4
  <1>4. CASE BucketTick
    <2>1. /\ bucket' = bucket /\ used' = used /\ now' = now + 1 /\ now < MaxNow
      BY <1>4 DEF BucketTick
    <2>2. BucketTypeOK' /\ Fresh' /\ Kept'
      BY <1>t, <2>1, TokenBucketAssumption DEF BucketTypeOK, Fresh, Kept, Bucket, Times, Retention, Millis, Capacity
    <2>3. Available' \in 0 .. Capacity /\ Available' <= Available + Refill
      <3>1. CASE bucket = NoBucket
        BY <3>1, <1>t, <2>1, CapacityType, TokenBucketAssumption DEF Available, Capacity
      <3>2. CASE bucket # NoBucket
        <4>1. bucket.tokens \in Nat /\ bucket.at \in Nat /\ bucket.at <= now
          BY <3>2, TokenBucketAssumption, CapacityType DEF BucketTypeOK, Bucket, Times
        <4> DEFINE e == (now - bucket.at) * Refill
        <4>2. e \in Nat /\ (now' - bucket.at) * Refill = e + Refill
          BY <1>t, <2>1, <4>1, TokenBucketAssumption
        <4> HIDE DEF e
        <4>3. Available = IF bucket.tokens + e >= Capacity THEN Capacity ELSE bucket.tokens + e
          BY <3>2 DEF Available, e
        <4>4. Available' = IF bucket.tokens + (e + Refill) >= Capacity
                           THEN Capacity ELSE bucket.tokens + (e + Refill)
          BY <3>2, <2>1, <4>2 DEF Available, Capacity
        <4> QED BY <4>1, <4>2, <4>3, <4>4, CapacityType, TokenBucketAssumption
      <3> QED BY <3>1, <3>2
    <2>4. Budget'
      <3> SUFFICES ASSUME NEW s \in Times, s <= now'
                   PROVE  Scale * used'[s] + Available' <= Capacity + Refill * (now' - s)
        BY DEF Budget, Capacity, Times
      <3>0. used'[s] = used[s] /\ now' - s = now + 1 - s /\ s <= now + 1
        BY <1>t, <2>1
      <3>1. s \in Nat /\ used[s] \in Nat
        BY <1>t
      <3>2. CASE s <= now
        <4>1. Scale * used[s] + Available <= Capacity + Refill * (now - s)
          BY <3>2 DEF Budget
        <4>2. Refill * (now + 1 - s) = Refill * (now - s) + Refill
          BY <1>t, <3>1, TokenBucketAssumption
        <4>3. Scale * used[s] \in Int /\ Refill * (now - s) \in Int
          BY <1>t, <3>1, TokenBucketAssumption
        <4> QED BY <1>t, <2>3, <3>0, <4>1, <4>2, <4>3, CapacityType, TokenBucketAssumption
      <3>3. CASE s = now + 1
        <4>1. used[s] = 0
          BY <1>t, <3>3 DEF Fresh
        <4>2. Scale * used[s] = 0 /\ Refill * (now + 1 - s) = 0
          BY <1>t, <3>1, <3>3, <4>1, TokenBucketAssumption
        <4> QED BY <2>3, <3>0, <4>2, CapacityType
      <3> QED BY <1>t, <3>0, <3>1, <3>2, <3>3
    <2> QED BY <2>2, <2>4
  <1>5. CASE UNCHANGED bucketVars
    BY <1>5 DEF bucketVars, BucketTypeOK, Fresh, Budget, Kept, Available, Bucket, Times, Capacity,
                Retention, Millis
  <1> QED BY <1>1, <1>2, <1>3, <1>4, <1>5 DEF BucketNext

\* The budget, and so the bound, in every state of every behaviour.
THEOREM BudgetKept == BucketSpec => []BucketInv
  BY BucketInitInv, BucketNextInv, PTL DEF BucketSpec

\* The limiter's promise (admit_over_period): from any moment on no more than
\* a full bucket and what has flowed in since is granted.
THEOREM RateBounded == BucketSpec => []RateBound
  <1>1. BucketInv => RateBound
    <2> SUFFICES ASSUME BucketInv, NEW s \in 0 .. now
                 PROVE  Scale * used[s] <= Capacity + Refill * (now - s)
      BY DEF RateBound
    <2>1. now \in Nat /\ s \in Times /\ s \in Nat /\ s <= now /\ used[s] \in Nat
      BY TokenBucketAssumption DEF BucketInv, BucketTypeOK, Times
    <2>2. Scale * used[s] + Available <= Capacity + Refill * (now - s)
      BY <2>1 DEF BucketInv, Budget
    <2>3. /\ Available \in Nat /\ Scale * used[s] \in Int
          /\ Refill * (now - s) \in Int /\ Capacity \in Nat
      BY <2>1, AvailableType, CapacityType, TokenBucketAssumption DEF BucketInv
    <2> QED BY <2>2, <2>3
  <1> QED BY <1>1, BudgetKept, PTL

\* The TTL monitor removes a token-bucket document only when admit would treat
\* it as full anyway, so that the removal gives no tokens away.
THEOREM ReapInvisible == BucketSpec => ReapIsInvisible
  <1>1. BucketInv => (BucketReap => Available = Capacity)
    BY ExpiredIsFull DEF BucketInv
  <1>2. BucketInv /\ [BucketNext]_bucketVars => [BucketReap => Available = Capacity]_bucketVars
    BY <1>1
  <1> QED BY <1>2, BudgetKept, PTL DEF BucketSpec, ReapIsInvisible

-----------------------------------------------------------------------------
(* The fixed window.  What the document counts is what was admitted in the *)
(* current window, whether it still stands, was rolled over or was removed *)
(* by the TTL monitor, which takes no document of the current window.      *)

WindowIndex == clock \div Window

CountInv ==
    /\ admitted[WindowIndex] = Count
    /\ \A w \in DOMAIN admitted : w > WindowIndex => admitted[w] = 0

DocumentInv ==
    window # NoWindow => /\ window.start <= CurrentWindow
                         /\ window.expires = window.start + 2 * Window

WindowInv == WindowTypeOK /\ CountInv /\ DocumentInv /\ WindowBound

\* $dateTrunc: where a moment lies in its window.
LEMMA Truncated ==
    ASSUME NEW t \in Nat
    PROVE  /\ t \div Window \in Nat
           /\ Window * (t \div Window) \in Nat
           /\ Window * (t \div Window) <= t
           /\ t < Window * (t \div Window) + Window
  <1> DEFINE q == t \div Window
             r == t % Window
  <1>1. /\ q \in Int /\ r \in 0 .. (Window - 1) /\ t = Window * q + r
    BY RateWindowAssumption, SMT
  <1> HIDE DEF q, r
  <1>2. q >= 0
    BY <1>1, RateWindowAssumption, SMT
  <1> QED BY <1>1, <1>2, RateWindowAssumption DEF q

\* Windows are disjoint: multiples of the length are that length apart.
LEMMA WindowsApart ==
    ASSUME NEW a \in Nat, NEW b \in Nat, a < b
    PROVE  Window * a + Window <= Window * b
  BY RateWindowAssumption, SMT

\* A later moment is in the same window or in a later one.
LEMMA TruncatedMonotone ==
    ASSUME NEW t \in Nat, NEW u \in Nat, t <= u
    PROVE  t \div Window <= u \div Window
  <1> DEFINE a == t \div Window
             b == u \div Window
  <1>1. /\ a \in Nat /\ b \in Nat /\ Window * a <= t /\ u < Window * b + Window
        /\ Window * a \in Nat /\ Window * b \in Nat
    BY Truncated
  <1> HIDE DEF a, b
  <1>2. b < a => Window * b + Window <= Window * a
    BY <1>1, WindowsApart
  <1>3. a <= b
    BY <1>1, <1>2, RateWindowAssumption
  <1> QED BY <1>3 DEF a, b

LEMMA WindowTyped ==
    WindowTypeOK => /\ clock \in Nat /\ WindowIndex \in Nat /\ WindowIndex \in DOMAIN admitted
                    /\ CurrentWindow = Window * WindowIndex /\ CurrentWindow \in Nat
                    /\ CurrentWindow <= clock /\ clock < CurrentWindow + Window
                    /\ Count \in Nat
  <1> HAVE WindowTypeOK
  <1>1. clock \in Nat /\ clock <= MaxClock /\ MaxClock \in Nat
    BY RateWindowAssumption DEF WindowTypeOK
  <1>2. WindowIndex <= MaxClock \div Window /\ WindowIndex \in Nat
    BY <1>1, Truncated, TruncatedMonotone DEF WindowIndex
  <1>3. WindowIndex \in DOMAIN admitted
    BY <1>1, <1>2, Truncated DEF WindowTypeOK
  <1>4. Count \in Nat
    BY DEF Count, NewWindow, WindowTypeOK
  <1> QED BY <1>1, <1>2, <1>3, <1>4, Truncated DEF WindowIndex, CurrentWindow

LEMMA WindowInitInv == WindowInit => WindowInv
  <1> SUFFICES ASSUME WindowInit PROVE WindowInv
    OBVIOUS
  <1>1. WindowTypeOK
    BY RateWindowAssumption DEF WindowInit, WindowTypeOK
  <1>2. CountInv
    BY <1>1, WindowTyped DEF WindowInit, WindowTypeOK, CountInv, Count, NewWindow
  <1>3. DocumentInv
    BY DEF WindowInit, DocumentInv
  <1>4. WindowBound
    <2>1. PICK limit \in Limits : limit \in Nat
      BY RateWindowAssumption
    <2>2. \A w \in DOMAIN admitted : admitted[w] <= limit
      BY <2>1 DEF WindowInit
    <2> QED BY <2>1, <2>2 DEF WindowBound
  <1> QED BY <1>1, <1>2, <1>3, <1>4 DEF WindowInv

\* A call counts where it is decided, and only below its limit.
LEMMA AdmitInWindowInv ==
    ASSUME WindowInv, NEW limit \in Limits, AdmitInWindow(limit)
    PROVE  WindowInv'
  <1>0. /\ clock \in Nat /\ WindowIndex \in Nat /\ WindowIndex \in DOMAIN admitted
        /\ CurrentWindow \in Nat /\ Count \in Nat /\ limit \in Nat /\ Window \in Nat
        /\ admitted \in [0 .. (MaxClock \div Window) -> Nat]
    BY WindowTyped, RateWindowAssumption DEF WindowInv, WindowTypeOK
  <1>1. clock' = clock /\ WindowIndex' = WindowIndex /\ CurrentWindow' = CurrentWindow
    BY DEF AdmitInWindow, WindowIndex, CurrentWindow
  <1>2. PICK n \in Nat : /\ window' = [start |-> CurrentWindow, count |-> n,
                                       expires |-> WindowExpiry]
                         /\ admitted' = [admitted EXCEPT ![WindowIndex] = n]
                         /\ n = Count \/ n <= limit
    <2>1. CASE Count < limit
      <3>1. /\ window' = [start |-> CurrentWindow, count |-> Count + 1,
                          expires |-> WindowExpiry]
            /\ admitted' = [admitted EXCEPT ![WindowIndex] = Count + 1]
        BY <1>0, <2>1 DEF AdmitInWindow, WindowIndex, WindowInv, CountInv
      <3>2. Count + 1 \in Nat /\ Count + 1 <= limit
        BY <1>0, <2>1
      <3> QED BY <3>1, <3>2, Zenon
    <2>2. CASE ~(Count < limit)
      <3>1. /\ window' = [start |-> CurrentWindow, count |-> Count,
                          expires |-> WindowExpiry]
            /\ admitted' = [admitted EXCEPT ![WindowIndex] = Count]
        BY <1>0, <2>2 DEF AdmitInWindow, WindowIndex, WindowInv, CountInv
      <3> QED BY <1>0, <3>1
    <2> QED BY <2>1, <2>2
  <1>3. /\ window'.start = CurrentWindow /\ window'.count = n
        /\ window'.expires = CurrentWindow + 2 * Window
        /\ window' \in [start : Nat, count : Nat, expires : Nat]
    BY <1>0, <1>2 DEF WindowExpiry
  <1>4. window' # NoWindow
    BY <1>3, RateWindowAssumption
  <1>5. WindowTypeOK'
    BY <1>0, <1>1, <1>2, <1>3 DEF WindowInv, WindowTypeOK
  <1>6. /\ DOMAIN admitted' = DOMAIN admitted /\ admitted'[WindowIndex] = n
        /\ \A w \in DOMAIN admitted : w # WindowIndex => admitted'[w] = admitted[w]
    BY <1>0, <1>2
  <1>7. CountInv'
    <2>1. Count' = n
      BY <1>1, <1>3, <1>4 DEF Count, NewWindow
    <2> QED BY <1>0, <1>1, <1>6, <2>1 DEF WindowInv, CountInv
  <1>8. DocumentInv'
    BY <1>0, <1>1, <1>3 DEF DocumentInv
  <1>9. WindowBound'
    BY <1>0, <1>2, <1>6 DEF WindowInv, WindowBound, CountInv
  <1> QED BY <1>5, <1>7, <1>8, <1>9 DEF WindowInv

\* What the TTL monitor removes was not of the current window.
LEMMA WindowReapInv == WindowInv /\ WindowReap => WindowInv'
  <1> SUFFICES ASSUME WindowInv, WindowReap PROVE WindowInv'
    OBVIOUS
  <1>0. /\ clock \in Nat /\ CurrentWindow \in Nat /\ clock < CurrentWindow + Window
        /\ Window \in Nat
    BY WindowTyped, RateWindowAssumption DEF WindowInv
  <1>1. /\ window # NoWindow /\ window.expires <= clock /\ window' = NoWindow
        /\ UNCHANGED <<clock, admitted>>
    BY DEF WindowReap
  <1>2. window.start \in Nat /\ window.expires = window.start + 2 * Window
    BY <1>1 DEF WindowInv, WindowTypeOK, DocumentInv
  <1>3. window.start # CurrentWindow
    BY <1>0, <1>1, <1>2
  <1>4. Count = 0 /\ Count' = 0
    BY <1>1, <1>3 DEF Count, NewWindow
  <1>5. WindowTypeOK' /\ DocumentInv' /\ WindowBound'
    BY <1>1 DEF WindowInv, WindowTypeOK, DocumentInv, WindowBound
  <1>6. CountInv'
    BY <1>1, <1>4 DEF WindowInv, CountInv, WindowIndex
  <1> QED BY <1>5, <1>6 DEF WindowInv

\* A new window begins with nothing admitted and an outdated document.
LEMMA WindowTickInv == WindowInv /\ WindowTick => WindowInv'
  <1> SUFFICES ASSUME WindowInv, WindowTick PROVE WindowInv'
    OBVIOUS
  <1>0. /\ clock \in Nat /\ WindowIndex \in Nat /\ WindowIndex \in DOMAIN admitted
        /\ CurrentWindow = Window * WindowIndex /\ CurrentWindow \in Nat
        /\ Window \in Nat \ {0}
    BY WindowTyped, RateWindowAssumption DEF WindowInv
  <1>1. clock' = clock + 1 /\ clock < MaxClock /\ UNCHANGED <<window, admitted>>
    BY DEF WindowTick
  <1>2. WindowTypeOK' /\ WindowBound'
    BY <1>0, <1>1, RateWindowAssumption DEF WindowInv, WindowTypeOK, WindowBound
  <1>3. /\ WindowIndex' \in Nat /\ WindowIndex' \in DOMAIN admitted
        /\ CurrentWindow' = Window * WindowIndex' /\ CurrentWindow' \in Nat
    <2>1. clock' \in Nat /\ MaxClock \in Nat /\ clock' <= MaxClock
      BY <1>0, <1>1, RateWindowAssumption
    <2>2. WindowIndex' = clock' \div Window /\ CurrentWindow' = Window * WindowIndex'
      BY DEF WindowIndex, CurrentWindow
    <2>3. /\ clock' \div Window \in Nat /\ Window * (clock' \div Window) \in Nat
          /\ clock' \div Window <= MaxClock \div Window /\ MaxClock \div Window \in Nat
      BY <2>1, Truncated, TruncatedMonotone
    <2>4. DOMAIN admitted = 0 .. (MaxClock \div Window)
      BY DEF WindowInv, WindowTypeOK
    <2> QED BY <2>2, <2>3, <2>4
  <1>4. WindowIndex <= WindowIndex'
    BY <1>0, <1>1, TruncatedMonotone DEF WindowIndex
  <1>5. CASE WindowIndex' = WindowIndex
    <2>1. CurrentWindow' = CurrentWindow
      BY <1>0, <1>3, <1>5
    <2>2. Count' = Count
      BY <1>1, <2>1 DEF Count, NewWindow
    <2> QED BY <1>1, <1>2, <1>5, <2>1, <2>2 DEF WindowInv, CountInv, DocumentInv
  <1>6. CASE WindowIndex < WindowIndex'
    <2>1. CurrentWindow + Window <= CurrentWindow'
      BY <1>0, <1>3, <1>6, WindowsApart
    <2>2. admitted[WindowIndex'] = 0
      BY <1>3, <1>6 DEF WindowInv, CountInv
    <2>3. window # NoWindow => window.start \in Nat /\ window.start <= CurrentWindow
      BY DEF WindowInv, DocumentInv, WindowTypeOK
    <2>4. window # NoWindow => window.start # CurrentWindow' /\ window.start <= CurrentWindow'
      <3>1. /\ CurrentWindow \in Nat /\ CurrentWindow' \in Nat /\ Window \in Nat /\ Window > 0
            /\ CurrentWindow + Window <= CurrentWindow'
        <4>1. Window \in Nat /\ Window > 0
          BY <1>0
        <4> QED BY <1>0, <1>3, <2>1, <4>1, Zenon
      <3>2. CurrentWindow < CurrentWindow'
        BY <3>1
      <3>3. ASSUME NEW n \in Nat, n <= CurrentWindow
            PROVE  n # CurrentWindow' /\ n <= CurrentWindow'
        BY <3>1, <3>2, <3>3
      <3> QED BY <2>3, <3>3
    <2>5. Count' = 0
      BY <1>1, <2>4 DEF Count, NewWindow
    <2>6. \A w \in DOMAIN admitted : w \in Nat
      BY DEF WindowInv, WindowTypeOK
    <2> QED BY <1>0, <1>1, <1>2, <1>3, <1>6, <2>2, <2>4, <2>5, <2>6
            DEF WindowInv, CountInv, DocumentInv
  <1> QED BY <1>0, <1>3, <1>4, <1>5, <1>6

LEMMA WindowNextInv == WindowInv /\ [WindowNext]_windowVars => WindowInv'
  <1> SUFFICES ASSUME WindowInv, [WindowNext]_windowVars PROVE WindowInv'
    OBVIOUS
  <1>1. CASE UNCHANGED windowVars
    BY <1>1 DEF windowVars, WindowInv, WindowTypeOK, CountInv, DocumentInv, WindowBound,
       WindowIndex, Count, NewWindow, CurrentWindow
  <1> QED BY <1>1, AdmitInWindowInv, WindowReapInv, WindowTickInv DEF WindowNext

\* The count is right in every state of every behaviour.
THEOREM WindowCountKept == WindowSpec => []WindowInv
  BY WindowInitInv, WindowNextInv, PTL DEF WindowSpec

\* No window admits more than the greatest limit passed (RateWindowStore::admit),
\* for every length of window, all limits and any length of run.
THEOREM WindowBounded == WindowSpec => []WindowBound
  <1>1. WindowInv => WindowBound
    BY DEF WindowInv
  <1> QED BY <1>1, WindowCountKept, PTL

-----------------------------------------------------------------------------
(* The audit chain.                                                        *)

(* The entry carries the hash of an entry of the chain, one number lower.  *)
Follows(e) ==
    /\ e.seq \in Nat \ {0}
    /\ IF e.seq = 1 THEN e.prev = Genesis
       ELSE \E f \in chain : f.seq = e.seq - 1 /\ f.id = e.prev

ChainInv ==
    /\ IsFiniteSet(chain)
    /\ \A e \in chain : e.seq \in 1 .. Cardinality(chain)
    /\ \A n \in 1 .. Cardinality(chain) : \E e \in chain : e.seq = n
    /\ \A e, f \in chain : e.seq = f.seq \/ e.id = f.id => e = f
    /\ \A e \in chain : Follows(e)

(* An append under way is for an entry of its author, which follows one of *)
(* the chain; a relay marks a row only when its entry is in the chain.     *)
WriterSound(w) ==
    /\ writer[w].pc # "idle" => writer[w].entry.id \in Events \cup Logs
    /\ writer[w].pc # "idle" /\ w \in Relays => writer[w].entry.id \in Events
    /\ writer[w].pc \in {"insert", "lookup"} => Follows(writer[w].entry)
    /\ writer[w].pc = "mark" => w \in Relays /\ IdTaken(writer[w].entry.id)

WriterInv == \A w \in Writers : WriterSound(w)

(* A transaction that inserted its entry holds the next number.            *)
ChangeSound(c) ==
    /\ change[c].pc \in {"insert", "commit"} =>
         change[c].entry.id = c /\ Follows(change[c].entry)
    /\ change[c].pc = "commit" => ~SeqTaken(change[c].entry.seq)
    /\ IdTaken(c) => change[c].pc \in {"done", "failed"}

ChangeInv ==
    /\ \A c \in Changes : ChangeSound(c)
    /\ \A c, d \in Changes : change[c].pc = "commit" /\ change[d].pc = "commit" => c = d

JournalInv == \A e \in Events : journal[e] = "audited" => IdTaken(e)

(* A verifier starts where everything before was found good, and reads     *)
(* entries with consecutive numbers.                                       *)
VerifierSound(v) ==
    /\ verifier[v].pc # "idle" =>
         /\ verifier[v].from >= 1
         /\ \A n \in 1 .. verifier[v].from - 1 : n \in verified
    /\ verifier[v].pc = "persist" =>
         /\ verifier[v].found \subseteq chain
         /\ Cardinality(verifier[v].found) \in Nat
         /\ {e.seq : e \in verifier[v].found} =
              verifier[v].from .. verifier[v].from + Cardinality(verifier[v].found) - 1

VerifyInv ==
    /\ \A v \in Verifiers : VerifierSound(v)
    /\ status.cursor >= 1 /\ VerifierIsSound

WriterDoc == [pc : {"idle", "read", "insert", "lookup", "mark", "failed", "done"},
              entry : Entry \cup {NoEntry}, attempt : 0 .. MaxAttempts]

ChangeDoc == [pc : {"idle", "insert", "commit", "done", "failed"},
              entry : Entry \cup {NoEntry}]

VerifierDoc == [pc : {"idle", "head", "read", "persist"},
                from : Nat, head : Nat, found : SUBSET Entry]

StatusDoc == [outcome : {"ok", "broken"}, cursor : Nat]

AuditInv == /\ AuditTypeOK /\ ChainInv /\ WriterInv /\ ChangeInv /\ JournalInv
            /\ VerifyInv

LEMMA AuditTyped ==
    AuditTypeOK <=> /\ chain \subseteq Entry
                    /\ journal \in [Events -> {"absent", "committed", "audited"}]
                    /\ attempts \in [Events -> 0 .. MaxAuditFaults + 1]
                    /\ writer \in [Writers -> WriterDoc]
                    /\ change \in [Changes -> ChangeDoc]
                    /\ verifier \in [Verifiers -> VerifierDoc]
                    /\ status \in StatusDoc
                    /\ verified \subseteq Nat
                    /\ auditFaults \in 0 .. MaxAuditFaults
  BY DEF AuditTypeOK, WriterDoc, ChangeDoc, VerifierDoc, StatusDoc

LEMMA AuditInitInv == AuditInit => AuditInv
  <1> SUFFICES ASSUME AuditInit PROVE AuditInv
    OBVIOUS
  <1>1. AuditTypeOK
    <2>1. writer \in [Writers -> WriterDoc] /\ change \in [Changes -> ChangeDoc]
      BY AuditChainAssumption DEF AuditInit, WriterDoc, ChangeDoc
    <2>2. verifier \in [Verifiers -> VerifierDoc] /\ status \in StatusDoc
      BY DEF AuditInit, VerifierDoc, StatusDoc
    <2> QED BY <2>1, <2>2, AuditTyped, AuditChainAssumption DEF AuditInit
  <1>2. ChainInv
    BY FS_EmptySet DEF AuditInit, ChainInv
  <1>3. WriterInv /\ JournalInv
    BY DEF AuditInit, WriterInv, WriterSound, JournalInv
  <1>4. ChangeInv
    BY DEF AuditInit, ChangeInv, ChangeSound, IdTaken
  <1>5. VerifyInv
    BY DEF AuditInit, VerifyInv, VerifierSound, VerifierIsSound
  <1> QED BY <1>1, <1>2, <1>3, <1>4, <1>5 DEF AuditInv

-----------------------------------------------------------------------------
(* The chain and its head.                                                 *)

LEMMA ChainLength == ChainInv => Cardinality(chain) \in Nat
  BY FS_CardinalityType DEF ChainInv

LEMMA HeadIsLength == ChainInv => HeadSeq = Cardinality(chain)
  <1> SUFFICES ASSUME ChainInv PROVE HeadSeq = Cardinality(chain)
    OBVIOUS
  <1> DEFINE N == Cardinality(chain)
             S == {0} \cup {e.seq : e \in chain}
  <1>1. N \in Nat
    BY ChainLength
  <1>2. \A e \in chain : e.seq \in Nat /\ e.seq <= N
    BY <1>1 DEF ChainInv
  <1>3. N \in S
    BY <1>1 DEF ChainInv
  <1>4. HeadSeq \in S /\ \A e \in chain : e.seq <= HeadSeq
    BY <1>2, <1>3, Zenon DEF HeadSeq
  <1>5. HeadSeq \in Nat /\ HeadSeq <= N
    BY <1>1, <1>2, <1>4
  <1>6. N # 0 => N <= HeadSeq
    BY <1>1, <1>4 DEF ChainInv
  <1> QED BY <1>1, <1>5, <1>6

LEMMA IdOfNumber ==
    ASSUME ChainInv, NEW e \in chain
    PROVE  IdAt(e.seq) = e.id
  <1>1. e.seq # 0
    BY ChainLength DEF ChainInv
  <1>2. (CHOOSE f \in chain : f.seq = e.seq) = e
    BY DEF ChainInv
  <1> QED BY <1>1, <1>2 DEF IdAt

(* What follows an entry has that entry's id as its hash.                  *)
LEMMA FollowsHash ==
    ASSUME ChainInv, NEW e, Follows(e)
    PROVE  e.prev = IdAt(e.seq - 1)
  <1>1. CASE e.seq = 1
    BY <1>1 DEF Follows, IdAt
  <1>2. CASE e.seq # 1
    BY <1>2, IdOfNumber DEF Follows
  <1> QED BY <1>1, <1>2

(* An entry is prepared to follow the head.                                *)
LEMMA ChainedFollows ==
    ASSUME ChainInv, chain \subseteq Entry, NEW e \in Entry \cup {NoEntry}, e.id \in Ids
    PROVE  Chained(e) \in Entry /\ Chained(e).id = e.id /\ Follows(Chained(e))
  <1> DEFINE N == Cardinality(chain)
             k(n, h) == [e EXCEPT !.seq = n, !.prev = h]
  <1>1. N \in Nat /\ HeadSeq = N
    BY ChainLength, HeadIsLength
  <1>2. IdAt(N) \in Ids \cup {Genesis}
    <2>1. CASE N = 0
      BY <2>1 DEF IdAt
    <2>2. CASE N # 0
      BY <1>1, <2>2, IdOfNumber DEF ChainInv, Entry
    <2> QED BY <2>1, <2>2
  <1>3. /\ e \in [id : Ids \cup {Genesis}, seq : Nat, prev : Ids \cup {Genesis}, content : Nat]
        /\ e.content \in Nat
    <2>1. CASE e \in Entry
      BY <2>1 DEF Entry
    <2>2. CASE e = NoEntry
      BY <2>2 DEF NoEntry
    <2> QED BY <2>1, <2>2
  <1>4. ASSUME NEW n \in Nat, NEW h \in Ids \cup {Genesis}
        PROVE  k(n, h) \in Entry /\ k(n, h).id = e.id /\ k(n, h).seq = n /\ k(n, h).prev = h
    BY <1>3 DEF Entry
  <1> HIDE DEF N
  <1>5. /\ Chained(e) \in Entry /\ Chained(e).id = e.id /\ Chained(e).seq = N + 1
        /\ Chained(e).prev = IdAt(N)
    <2>1. N + 1 \in Nat
      BY <1>1
    <2>2. Chained(e) = k(N + 1, IdAt(N))
      BY <1>1 DEF Chained
    <2> HIDE DEF k
    <2> QED BY <1>2, <1>4, <2>1, <2>2
  <1>6. N # 0 => \E f \in chain : f.seq = N /\ f.id = IdAt(N)
    BY <1>1, IdOfNumber DEF ChainInv, N
  <1>7. Follows(Chained(e))
    BY <1>1, <1>5, <1>6 DEF Follows, IdAt
  <1> QED BY <1>5, <1>7

(* A free number that follows an entry is the next.                        *)
LEMMA FreeIsNext ==
    ASSUME ChainInv, NEW e, Follows(e), ~SeqTaken(e.seq)
    PROVE  e.seq = Cardinality(chain) + 1
  <1> DEFINE N == Cardinality(chain)
  <1>1. N \in Nat
    BY ChainLength
  <1>2. e.seq \in Nat \ {0} /\ e.seq \notin 1 .. N
    BY DEF ChainInv, SeqTaken, Follows
  <1>3. e.seq = 1 \/ e.seq - 1 <= N
    BY <1>1 DEF ChainInv, Follows
  <1> HIDE DEF N
  <1> QED BY <1>1, <1>2, <1>3 DEF N

(* What follows an entry follows it for ever.                              *)
LEMMA FollowsKept ==
    ASSUME chain \subseteq chain', NEW e, Follows(e)
    PROVE  /\ e.seq \in Nat \ {0}
           /\ IF e.seq = 1 THEN e.prev = Genesis
              ELSE \E f \in chain' : f.seq = e.seq - 1 /\ f.id = e.prev
  BY DEF Follows

LEMMA ChainGrows ==
    ASSUME ChainInv, NEW e, Follows(e), ~SeqTaken(e.seq), ~IdTaken(e.id),
           chain' = chain \cup {e}
    PROVE  ChainInv'
  <1> DEFINE N == Cardinality(chain)
  <1>1. N \in Nat /\ e.seq = N + 1 /\ e \notin chain
    BY ChainLength, FreeIsNext DEF SeqTaken
  <1>2. IsFiniteSet(chain') /\ Cardinality(chain') = N + 1
    BY <1>1, FS_AddElement DEF ChainInv
  <1>3. \A f \in chain' : f.seq \in 1 .. N + 1
    BY <1>1 DEF ChainInv
  <1>4. \A n \in 1 .. N + 1 : \E f \in chain' : f.seq = n
    <2>1. \A n \in 1 .. N + 1 : n \in 1 .. N \/ n = N + 1
      BY <1>1
    <2> QED BY <1>1, <2>1 DEF ChainInv
  <1>5. \A f, g \in chain' : f.seq = g.seq \/ f.id = g.id => f = g
    BY DEF ChainInv, SeqTaken, IdTaken
  <1>6. \A f \in chain' : Follows(f)'
    BY FollowsKept DEF ChainInv, Follows
  <1> QED BY <1>2, <1>3, <1>4, <1>5, <1>6 DEF ChainInv

-----------------------------------------------------------------------------
(* What a step leaves alone stays sound while the chain grows.             *)

LEMMA JournalKept ==
    ASSUME AuditInv, chain \subseteq chain', UNCHANGED journal
    PROVE  JournalInv'
  BY DEF AuditInv, JournalInv, IdTaken

LEMMA VerifiersKept ==
    ASSUME AuditInv, chain \subseteq chain', UNCHANGED <<verifier, status, verified>>
    PROVE  VerifyInv'
  BY DEF AuditInv, VerifyInv, VerifierSound, VerifierIsSound

LEMMA WriterKept ==
    ASSUME chain \subseteq chain', NEW w \in Writers, WriterSound(w), writer'[w] = writer[w]
    PROVE  WriterSound(w)'
  <1>1. writer[w].pc \in {"insert", "lookup"} => Follows(writer[w].entry)'
    BY FollowsKept DEF WriterSound, Follows
  <1>2. IdTaken(writer[w].entry.id) => IdTaken(writer[w].entry.id)'
    BY DEF IdTaken
  <1> QED BY <1>1, <1>2 DEF WriterSound, Follows, IdTaken

LEMMA ChangesKept ==
    ASSUME AuditInv, UNCHANGED <<chain, change>>
    PROVE  ChangeInv' /\ ChainInv'
  BY DEF AuditInv, ChangeInv, ChangeSound, ChainInv, SeqTaken, IdTaken, Follows

(* An append takes effect: the entry has the next number, which no         *)
(* transaction holds.                                                      *)
LEMMA Insertion ==
    ASSUME AuditInv, NEW e \in Entry, e.id \in Events \cup Logs, Follows(e),
           ~SeqTaken(e.seq), ~IdTaken(e.id), ~SeqLocked(e.seq),
           chain' = chain \cup {e}, UNCHANGED change
    PROVE  ChainInv' /\ ChangeInv' /\ chain' \subseteq Entry
  <1>1. ChainInv'
    BY ChainGrows DEF AuditInv
  <1>2. ASSUME NEW c \in Changes PROVE ChangeSound(c)'
    <2>1. ChangeSound(c)
      BY DEF AuditInv, ChangeInv
    <2>2. change[c].pc \in {"insert", "commit"} => Follows(change[c].entry)'
      BY <2>1, FollowsKept DEF ChangeSound, Follows
    <2>3. change[c].pc = "commit" => ~SeqTaken(change[c].entry.seq)'
      BY <2>1 DEF ChangeSound, SeqTaken, SeqLocked
    <2>4. IdTaken(c)' => IdTaken(c)
      BY AuditChainAssumption DEF IdTaken
    <2> QED BY <2>1, <2>2, <2>3, <2>4 DEF ChangeSound, Follows, SeqTaken, IdTaken
  <1>3. ChangeInv'
    BY <1>2 DEF AuditInv, ChangeInv
  <1> QED BY <1>1, <1>3 DEF AuditInv, AuditTypeOK

(* A step of one append.                                                   *)
LEMMA WriterMoves ==
    ASSUME AuditInv, NEW w \in Writers, NEW k \in WriterDoc,
           writer' = [writer EXCEPT ![w] = k], WriterSound(w)',
           chain \subseteq chain', chain' \subseteq Entry, ChainInv', ChangeInv', JournalInv',
           journal' \in [Events -> {"absent", "committed", "audited"}],
           attempts' \in [Events -> 0 .. MaxAuditFaults + 1],
           auditFaults' \in 0 .. MaxAuditFaults,
           UNCHANGED <<change, verifier, status, verified>>
    PROVE  AuditInv'
  <1>0. writer \in [Writers -> WriterDoc]
    BY AuditTyped DEF AuditInv
  <1>1. writer' \in [Writers -> WriterDoc] /\ \A v \in Writers : v # w => writer'[v] = writer[v]
    BY <1>0
  <1>2. AuditTypeOK'
    BY <1>1 DEF AuditInv, AuditTypeOK, WriterDoc
  <1>3. WriterInv'
    <2>1. ASSUME NEW v \in Writers, v # w PROVE WriterSound(v)'
      BY <1>1, <2>1, WriterKept DEF AuditInv, WriterInv
    <2> QED BY <2>1 DEF WriterInv
  <1> QED BY <1>2, <1>3, VerifiersKept DEF AuditInv

(* A step of one append that touches nothing else.                         *)
LEMMA WriterProceeds ==
    ASSUME AuditInv, NEW w \in Writers, NEW k \in WriterDoc,
           writer' = [writer EXCEPT ![w] = k],
           k.pc # "idle" => k.entry.id \in Events \cup Logs,
           k.pc # "idle" /\ w \in Relays => k.entry.id \in Events,
           k.pc \in {"insert", "lookup"} => Follows(k.entry),
           k.pc = "mark" => w \in Relays /\ IdTaken(k.entry.id),
           UNCHANGED <<chain, journal, attempts, change, verifier, status, verified>>,
           auditFaults' \in 0 .. MaxAuditFaults
    PROVE  AuditInv'
  <1>0. /\ writer \in [Writers -> WriterDoc] /\ chain \subseteq Entry
        /\ journal \in [Events -> {"absent", "committed", "audited"}]
        /\ attempts \in [Events -> 0 .. MaxAuditFaults + 1]
    BY AuditTyped DEF AuditInv
  <1>1. writer'[w] = k
    BY <1>0
  <1>2. WriterSound(w)'
    BY <1>1 DEF WriterSound, Follows, IdTaken
  <1> QED BY <1>0, <1>2, ChangesKept, JournalKept, WriterMoves

-----------------------------------------------------------------------------
(* The steps of appends.                                                   *)

(* A new append of an entry that is not numbered yet.                      *)
LEMMA StartInv ==
    ASSUME AuditInv, NEW w \in Writers, NEW n \in Entry, n.id \in Events \cup Logs,
           w \in Relays => n.id \in Events,
           writer' = [writer EXCEPT ![w] = [pc |-> "read", entry |-> n, attempt |-> 1]],
           UNCHANGED <<chain, journal, attempts, change, verifier, status, verified, auditFaults>>
    PROVE  AuditInv'
  <1> DEFINE k == [pc |-> "read", entry |-> n, attempt |-> 1]
  <1>1. k \in WriterDoc /\ k.pc = "read" /\ k.entry = n
    BY AuditChainAssumption DEF WriterDoc
  <1>2. auditFaults' \in 0 .. MaxAuditFaults
    BY AuditTyped DEF AuditInv
  <1> HIDE DEF k
  <1>3. writer' = [writer EXCEPT ![w] = k]
    BY DEF k
  <1> QED BY <1>1, <1>2, <1>3, WriterProceeds

LEMMA StartLogInv == ASSUME AuditInv, NEW l \in Logs, StartLog(l) PROVE AuditInv'
  <1> DEFINE n == [NoEntry EXCEPT !.id = l]
  <1>1. n \in Entry /\ n.id = l
    BY DEF NoEntry, Entry, Ids
  <1>2. /\ writer' = [writer EXCEPT ![l] = [pc |-> "read", entry |-> n, attempt |-> 1]]
        /\ UNCHANGED <<chain, journal, attempts, change, verifier, status, verified, auditFaults>>
    BY DEF StartLog
  <1> HIDE DEF n
  <1> QED BY <1>1, <1>2, StartInv, AuditChainAssumption DEF Writers

LEMMA StartPublishInv ==
    ASSUME AuditInv, NEW r \in Relays, NEW e \in Events, StartPublish(r, e)
    PROVE  AuditInv'
  <1> DEFINE n == [NoEntry EXCEPT !.id = e, !.content = Mirror(e)]
  <1>1. n \in Entry /\ n.id = e
    BY DEF NoEntry, Entry, Ids, Mirror
  <1>2. /\ writer' = [writer EXCEPT ![r] = [pc |-> "read", entry |-> n, attempt |-> 1]]
        /\ UNCHANGED <<chain, journal, attempts, change, verifier, status, verified, auditFaults>>
    BY DEF StartPublish
  <1> HIDE DEF n
  <1> QED BY <1>1, <1>2, StartInv DEF Writers

(* Facts about an append under way.                                        *)
LEMMA WriterFacts ==
    ASSUME AuditInv, NEW w \in Writers
    PROVE  /\ writer \in [Writers -> WriterDoc] /\ writer[w] \in WriterDoc
           /\ writer[w].entry \in Entry \cup {NoEntry} /\ writer[w].attempt \in 0 .. MaxAttempts
           /\ WriterSound(w) /\ chain \subseteq Entry /\ ChainInv
           /\ journal \in [Events -> {"absent", "committed", "audited"}]
           /\ attempts \in [Events -> 0 .. MaxAuditFaults + 1]
           /\ auditFaults \in 0 .. MaxAuditFaults
           /\ writer[w].pc # "idle" => writer[w].entry \in Entry /\ writer[w].entry.id \in Ids
  <1>1. /\ writer \in [Writers -> WriterDoc] /\ chain \subseteq Entry /\ ChainInv
        /\ journal \in [Events -> {"absent", "committed", "audited"}]
        /\ attempts \in [Events -> 0 .. MaxAuditFaults + 1]
        /\ auditFaults \in 0 .. MaxAuditFaults /\ WriterSound(w)
    BY AuditTyped DEF AuditInv, WriterInv
  <1>2. writer[w] \in WriterDoc
    BY <1>1
  <1>3. writer[w].entry \in Entry \cup {NoEntry} /\ writer[w].attempt \in 0 .. MaxAttempts
    BY <1>2 DEF WriterDoc
  <1>4. writer[w].pc # "idle" => writer[w].entry.id \in Ids
    BY <1>1 DEF WriterSound, Ids
  <1>5. NoEntry.id \notin Ids
    BY AuditChainAssumption DEF NoEntry
  <1> QED BY <1>1, <1>2, <1>3, <1>4, <1>5

(* The append moves on with the entry it has.                              *)
LEMMA WriterAtInv ==
    ASSUME AuditInv, NEW w \in Writers,
           NEW pc \in {"idle", "read", "lookup", "mark", "failed", "done"}, WriterAt(w, pc),
           writer[w].pc # "idle",
           pc = "lookup" => writer[w].pc = "insert",
           pc = "mark" => w \in Relays /\ IdTaken(writer[w].entry.id),
           UNCHANGED <<chain, journal, attempts, change, verifier, status, verified>>,
           auditFaults' \in 0 .. MaxAuditFaults
    PROVE  AuditInv'
  <1>0. /\ writer \in [Writers -> WriterDoc] /\ writer[w] \in WriterDoc /\ WriterSound(w)
    BY WriterFacts
  <1> DEFINE k == [writer[w] EXCEPT !.pc = pc]
  <1>1. k \in WriterDoc /\ k.pc = pc /\ k.entry = writer[w].entry
    BY <1>0 DEF WriterDoc
  <1>2. writer' = [writer EXCEPT ![w] = k]
    BY <1>0 DEF WriterAt
  <1> HIDE DEF k
  <1> QED BY <1>0, <1>1, <1>2, WriterProceeds DEF WriterSound

LEMMA ReadTailInv == ASSUME AuditInv, NEW w \in Writers, ReadTail(w) PROVE AuditInv'
  <1>0. /\ writer \in [Writers -> WriterDoc] /\ writer[w] \in WriterDoc /\ WriterSound(w)
        /\ writer[w].entry \in Entry \cup {NoEntry} /\ chain \subseteq Entry /\ ChainInv
        /\ writer[w].pc = "read" /\ writer[w].entry.id \in Ids
        /\ auditFaults \in 0 .. MaxAuditFaults
    BY WriterFacts DEF ReadTail
  <1> DEFINE n == Chained(writer[w].entry)
             k == [writer[w] EXCEPT !.pc = "insert", !.entry = n]
  <1>1. n \in Entry /\ n.id = writer[w].entry.id /\ Follows(n)
    BY <1>0, ChainedFollows
  <1>2. /\ writer' = [writer EXCEPT ![w].pc = "insert", ![w].entry = n]
        /\ UNCHANGED <<chain, journal, attempts, change, verifier, status, verified, auditFaults>>
    BY DEF ReadTail
  <1> HIDE DEF n
  <1>3. writer' = [writer EXCEPT ![w] = k]
    BY <1>0, <1>2
  <1>4. k \in WriterDoc /\ k.pc = "insert" /\ k.entry = n
    BY <1>0, <1>1 DEF WriterDoc
  <1> HIDE DEF k
  <1> QED BY <1>0, <1>1, <1>2, <1>3, <1>4, WriterProceeds DEF WriterSound

(* The entry goes into the chain, and the append ends or fails.            *)
LEMMA WriterInserts ==
    ASSUME AuditInv, NEW w \in Writers, NEW pc \in {"idle", "mark", "failed", "done"},
           WriterAt(w, pc), pc = "mark" => w \in Relays, writer[w].pc = "insert",
           ~SeqLocked(writer[w].entry.seq), ~SeqTaken(writer[w].entry.seq),
           ~IdTaken(writer[w].entry.id), chain' = chain \cup {writer[w].entry},
           UNCHANGED <<journal, attempts, change, verifier, status, verified>>,
           auditFaults' \in 0 .. MaxAuditFaults
    PROVE  AuditInv'
  <1> DEFINE e == writer[w].entry
             k == [writer[w] EXCEPT !.pc = pc]
  <1>0. /\ writer \in [Writers -> WriterDoc] /\ writer[w] \in WriterDoc /\ WriterSound(w)
        /\ e \in Entry /\ e.id \in Events \cup Logs /\ Follows(e)
        /\ journal \in [Events -> {"absent", "committed", "audited"}]
        /\ attempts \in [Events -> 0 .. MaxAuditFaults + 1]
    BY WriterFacts DEF WriterSound
  <1>1. ChainInv' /\ ChangeInv' /\ chain' \subseteq Entry
    BY <1>0, Insertion
  <1>2. k \in WriterDoc /\ k.pc = pc /\ k.entry = e
    BY <1>0 DEF WriterDoc
  <1>3. writer' = [writer EXCEPT ![w] = k]
    BY <1>0 DEF WriterAt
  <1> HIDE DEF k
  <1>4. writer'[w] = k
    BY <1>0, <1>3
  <1>5. \E f \in chain' : f.id = k.entry.id
    BY <1>2
  <1>6. WriterSound(w)'
    BY <1>0, <1>2, <1>4, <1>5 DEF WriterSound, IdTaken
  <1> QED BY <1>0, <1>1, <1>2, <1>3, <1>6, JournalKept, WriterMoves

LEMMA InsertEntryInv == ASSUME AuditInv, NEW w \in Writers, InsertEntry(w) PROVE AuditInv'
  <1>0. auditFaults \in 0 .. MaxAuditFaults
    BY WriterFacts
  <1>1. Appended(w) \in {"mark", "done"} /\ (Appended(w) = "mark" => w \in Relays)
    BY DEF Appended
  <1>2. CASE WriterAt(w, "lookup") /\ UNCHANGED chain
    BY <1>0, <1>2, WriterAtInv DEF InsertEntry
  <1>3. CASE ~(SeqTaken(writer[w].entry.seq) \/ IdTaken(writer[w].entry.id))
    BY <1>0, <1>1, <1>3, WriterInserts DEF InsertEntry
  <1> QED BY <1>2, <1>3 DEF InsertEntry

LEMMA LookUpEntryInv == ASSUME AuditInv, NEW w \in Writers, LookUpEntry(w) PROVE AuditInv'
  <1>0. /\ auditFaults \in 0 .. MaxAuditFaults /\ writer \in [Writers -> WriterDoc]
        /\ writer[w] \in WriterDoc /\ WriterSound(w) /\ writer[w].attempt \in 0 .. MaxAttempts
        /\ writer[w].pc = "lookup"
        /\ UNCHANGED <<chain, journal, attempts, change, verifier, status, verified, auditFaults>>
    BY WriterFacts DEF LookUpEntry
  <1>1. Appended(w) \in {"mark", "done"} /\ (Appended(w) = "mark" => w \in Relays)
    BY DEF Appended
  <1>2. ASSUME NEW e \in chain, e.id = writer[w].entry.id,
               WriterAt(w, IF e.content = writer[w].entry.content THEN Appended(w) ELSE "failed")
        PROVE  AuditInv'
    <2>1. IdTaken(writer[w].entry.id)
      BY <1>2 DEF IdTaken
    <2>2. CASE e.content = writer[w].entry.content
      BY <1>0, <1>1, <1>2, <2>1, <2>2, WriterAtInv
    <2>3. CASE e.content # writer[w].entry.content
      BY <1>0, <1>2, <2>3, WriterAtInv
    <2> QED BY <2>2, <2>3
  <1>3. CASE writer' = [writer EXCEPT
                           ![w].pc = IF writer[w].attempt < MaxAttempts
                                     THEN "read" ELSE "failed",
                           ![w].attempt = IF @ < MaxAttempts THEN @ + 1 ELSE @]
    <2>1. PICK pc \in {"read", "failed"}, n \in 0 .. MaxAttempts :
            writer' = [writer EXCEPT ![w].pc = pc, ![w].attempt = n]
      <3>1. CASE writer[w].attempt < MaxAttempts
        <4>1. writer' = [writer EXCEPT ![w].pc = "read", ![w].attempt = writer[w].attempt + 1]
          BY <1>0, <1>3, <3>1
        <4>2. writer[w].attempt + 1 \in 0 .. MaxAttempts
          BY <1>0, <3>1, AuditChainAssumption
        <4> QED BY <4>1, <4>2
      <3>2. CASE ~(writer[w].attempt < MaxAttempts)
        <4>1. writer' = [writer EXCEPT ![w].pc = "failed", ![w].attempt = writer[w].attempt]
          BY <1>0, <1>3, <3>2
        <4> QED BY <1>0, <4>1
      <3> QED BY <3>1, <3>2
    <2> DEFINE k == [writer[w] EXCEPT !.pc = pc, !.attempt = n]
    <2>2. k \in WriterDoc /\ k.pc = pc /\ k.entry = writer[w].entry
      BY <1>0 DEF WriterDoc
    <2>3. writer' = [writer EXCEPT ![w] = k]
      BY <1>0, <2>1
    <2> HIDE DEF k
    <2> QED BY <1>0, <2>2, <2>3, WriterProceeds DEF WriterSound
  <1> QED BY <1>2, <1>3 DEF LookUpEntry

LEMMA MarkAuditedInv == ASSUME AuditInv, NEW r \in Relays, MarkAudited(r) PROVE AuditInv'
  <1> DEFINE e == writer[r].entry.id
             k == [writer[r] EXCEPT !.pc = "idle"]
  <1>0. /\ r \in Writers /\ writer \in [Writers -> WriterDoc] /\ writer[r] \in WriterDoc
        /\ journal \in [Events -> {"absent", "committed", "audited"}] /\ chain \subseteq Entry
        /\ attempts \in [Events -> 0 .. MaxAuditFaults + 1] /\ auditFaults \in 0 .. MaxAuditFaults
        /\ writer[r].pc = "mark" /\ e \in Events /\ IdTaken(e)
    BY WriterFacts DEF MarkAudited, Writers, WriterSound
  <1>1. /\ journal' = [journal EXCEPT ![e] = "audited"]
        /\ UNCHANGED <<chain, attempts, change, verifier, status, verified, auditFaults>>
    BY DEF MarkAudited
  <1>2. k \in WriterDoc /\ k.pc = "idle"
    BY <1>0 DEF WriterDoc
  <1>3. writer' = [writer EXCEPT ![r] = k]
    BY <1>0 DEF MarkAudited, WriterAt
  <1> HIDE DEF k, e
  <1>4. JournalInv'
    BY <1>0, <1>1 DEF AuditInv, JournalInv, IdTaken
  <1>5. WriterSound(r)'
    <2>1. writer'[r] = k
      BY <1>0, <1>3
    <2> QED BY <1>2, <2>1 DEF WriterSound
  <1>6. journal' \in [Events -> {"absent", "committed", "audited"}]
    BY <1>0, <1>1
  <1> QED BY <1>0, <1>1, <1>2, <1>3, <1>4, <1>5, <1>6, ChangesKept, WriterMoves

LEMMA PublishFailedInv == ASSUME AuditInv, NEW r \in Relays, PublishFailed(r) PROVE AuditInv'
  <1> DEFINE e == writer[r].entry.id
             k == [writer[r] EXCEPT !.pc = "idle"]
  <1>0. /\ r \in Writers /\ writer \in [Writers -> WriterDoc] /\ writer[r] \in WriterDoc
        /\ journal \in [Events -> {"absent", "committed", "audited"}] /\ chain \subseteq Entry
        /\ attempts \in [Events -> 0 .. MaxAuditFaults + 1] /\ auditFaults \in 0 .. MaxAuditFaults
        /\ writer[r].pc = "failed" /\ e \in Events
    BY WriterFacts DEF PublishFailed, Writers, WriterSound
  <1>1. UNCHANGED <<chain, journal, change, verifier, status, verified, auditFaults>>
    BY DEF PublishFailed
  <1>2. attempts' \in [Events -> 0 .. MaxAuditFaults + 1]
    <2>1. attempts' = [attempts EXCEPT ![e] =
             IF journal[e] = "committed" /\ attempts[e] <= MaxAuditFaults
             THEN attempts[e] + 1 ELSE attempts[e]]
      BY <1>0 DEF PublishFailed
    <2> HIDE DEF e
    <2>2. attempts[e] \in 0 .. MaxAuditFaults + 1 /\ MaxAuditFaults \in Nat
      BY <1>0, AuditChainAssumption
    <2>3. (IF journal[e] = "committed" /\ attempts[e] <= MaxAuditFaults
           THEN attempts[e] + 1 ELSE attempts[e]) \in 0 .. MaxAuditFaults + 1
      BY <2>2
    <2> QED BY <1>0, <2>1, <2>3
  <1>3. k \in WriterDoc /\ k.pc = "idle"
    BY <1>0 DEF WriterDoc
  <1>4. writer' = [writer EXCEPT ![r] = k]
    BY <1>0 DEF PublishFailed, WriterAt
  <1> HIDE DEF k
  <1>5. WriterSound(r)'
    <2>1. writer'[r] = k
      BY <1>0, <1>4
    <2> QED BY <1>3, <2>1 DEF WriterSound
  <1> QED BY <1>0, <1>1, <1>2, <1>3, <1>4, <1>5, ChangesKept, JournalKept, WriterMoves

LEMMA AppendFailsInv == ASSUME AuditInv, NEW w \in Writers, AppendFails(w) PROVE AuditInv'
  <1>1. /\ auditFaults' \in 0 .. MaxAuditFaults
        /\ UNCHANGED <<journal, attempts, change, verifier, status, verified>>
    <2>1. auditFaults \in 0 .. MaxAuditFaults
      BY WriterFacts
    <2> QED BY <2>1, AuditChainAssumption DEF AppendFails, AuditFault
  <1>2. PICK pc \in {"failed", "idle"} : WriterAt(w, pc)
    BY DEF AppendFails
  <1>3. CASE writer[w].pc \in {"read", "insert", "lookup", "mark"} /\ UNCHANGED chain
    BY <1>1, <1>2, <1>3, WriterAtInv
  <1>4. CASE /\ writer[w].pc = "insert"
             /\ ~SeqLocked(writer[w].entry.seq)
             /\ ~SeqTaken(writer[w].entry.seq) /\ ~IdTaken(writer[w].entry.id)
             /\ chain' = chain \cup {writer[w].entry}
    BY <1>1, <1>2, <1>4, WriterInserts
  <1> QED BY <1>3, <1>4 DEF AppendFails

LEMMA CommitEventInv == ASSUME AuditInv, NEW e \in Events, CommitEvent(e) PROVE AuditInv'
  <1>1. /\ journal' = [journal EXCEPT ![e] = "committed"]
        /\ UNCHANGED <<chain, attempts, writer, change, verifier, status, verified, auditFaults>>
    BY DEF CommitEvent
  <1>2. AuditTypeOK'
    BY <1>1 DEF AuditInv, AuditTypeOK
  <1>3. JournalInv'
    BY <1>1 DEF AuditInv, AuditTypeOK, JournalInv, IdTaken
  <1>4. WriterInv'
    BY <1>1, WriterKept DEF AuditInv, WriterInv
  <1> QED BY <1>1, <1>2, <1>3, <1>4, ChangesKept, VerifiersKept DEF AuditInv

-----------------------------------------------------------------------------
(* The steps of transactions.                                              *)

LEMMA ChangeMoves ==
    ASSUME AuditInv, NEW c \in Changes, NEW k \in ChangeDoc,
           change' = [change EXCEPT ![c] = k],
           chain \subseteq chain', chain' \subseteq Entry, ChainInv', ChangeInv',
           auditFaults' \in 0 .. MaxAuditFaults,
           UNCHANGED <<journal, attempts, writer, verifier, status, verified>>
    PROVE  AuditInv'
  <1>0. change \in [Changes -> ChangeDoc]
    BY AuditTyped DEF AuditInv
  <1>1. change' \in [Changes -> ChangeDoc]
    BY <1>0
  <1>2. AuditTypeOK'
    BY <1>1 DEF AuditInv, AuditTypeOK, ChangeDoc
  <1>3. WriterInv'
    BY WriterKept DEF AuditInv, WriterInv
  <1> QED BY <1>2, <1>3, JournalKept, VerifiersKept DEF AuditInv

LEMMA ChangeFacts ==
    ASSUME AuditInv, NEW c \in Changes
    PROVE  /\ change \in [Changes -> ChangeDoc] /\ change[c] \in ChangeDoc
           /\ ChangeSound(c) /\ ChainInv /\ chain \subseteq Entry
           /\ auditFaults \in 0 .. MaxAuditFaults
           /\ change[c].pc \in {"insert", "commit"} => change[c].entry \in Entry
  <1>1. /\ change \in [Changes -> ChangeDoc] /\ ChangeSound(c) /\ ChainInv
        /\ chain \subseteq Entry /\ auditFaults \in 0 .. MaxAuditFaults
    BY AuditTyped DEF AuditInv, ChangeInv
  <1>2. change[c] \in ChangeDoc
    BY <1>1
  <1>3. NoEntry.id # c
    BY AuditChainAssumption DEF NoEntry, Ids
  <1> QED BY <1>1, <1>2, <1>3 DEF ChangeDoc, ChangeSound

(* A transaction moves on without effect on the chain.                     *)
LEMMA ChangeProceeds ==
    ASSUME AuditInv, NEW c \in Changes, NEW k \in ChangeDoc,
           change' = [change EXCEPT ![c] = k],
           k.pc \in {"insert", "commit"} => k.entry.id = c /\ Follows(k.entry),
           k.pc = "commit" => ~SeqTaken(k.entry.seq) /\ ~SeqLocked(k.entry.seq),
           change[c].pc \in {"idle", "insert"} \/ k.pc = "failed",
           change[c].pc \in {"idle", "insert", "commit"},
           UNCHANGED <<chain, journal, attempts, writer, verifier, status, verified>>,
           auditFaults' \in 0 .. MaxAuditFaults
    PROVE  AuditInv'
  <1>0. change \in [Changes -> ChangeDoc] /\ ChangeSound(c) /\ ChainInv /\ chain \subseteq Entry
    BY ChangeFacts
  <1>1. change'[c] = k /\ \A d \in Changes : d # c => change'[d] = change[d]
    BY <1>0
  <1>2. ~IdTaken(c)
    BY <1>0 DEF ChangeSound
  <1>3. ChainInv'
    BY DEF AuditInv, ChainInv, Follows
  <1>4. ChangeSound(c)'
    BY <1>1, <1>2 DEF ChangeSound, SeqTaken, IdTaken, Follows
  <1>5. \A d \in Changes : d # c => ChangeSound(d)'
    BY <1>1 DEF AuditInv, ChangeInv, ChangeSound, SeqTaken, IdTaken, Follows
  <1>6. ASSUME NEW d \in Changes, d # c, k.pc = "commit" PROVE change[d].pc # "commit"
    <2>1. SUFFICES ASSUME change[d].pc = "commit" PROVE FALSE
      OBVIOUS
    <2>2. Follows(change[d].entry) /\ ~SeqTaken(change[d].entry.seq)
      BY <2>1 DEF AuditInv, ChangeInv, ChangeSound
    <2>3. change[d].entry.seq = k.entry.seq
      BY <1>0, <1>6, <2>2, FreeIsNext
    <2> QED BY <1>6, <2>1, <2>3 DEF SeqLocked
  <1>7. ChangeInv'
    BY <1>1, <1>4, <1>5, <1>6 DEF AuditInv, ChangeInv
  <1> QED BY <1>0, <1>3, <1>7, ChangeMoves

(* The transaction commits: its entry has the number it held.              *)
LEMMA ChangeCommits ==
    ASSUME AuditInv, NEW c \in Changes, NEW pc \in {"done", "failed"}, ChangeAt(c, pc),
           change[c].pc = "commit", chain' = chain \cup {change[c].entry},
           UNCHANGED <<journal, attempts, writer, verifier, status, verified>>,
           auditFaults' \in 0 .. MaxAuditFaults
    PROVE  AuditInv'
  <1> DEFINE e == change[c].entry
             k == [change[c] EXCEPT !.pc = pc]
  <1>0. /\ change \in [Changes -> ChangeDoc] /\ change[c] \in ChangeDoc /\ ChainInv
        /\ chain \subseteq Entry /\ e \in Entry /\ e.id = c /\ Follows(e)
        /\ ~SeqTaken(e.seq) /\ ~IdTaken(e.id)
    BY ChangeFacts DEF ChangeSound
  <1>1. k \in ChangeDoc /\ k.pc = pc
    BY <1>0 DEF ChangeDoc
  <1>2. change' = [change EXCEPT ![c] = k]
    BY <1>0 DEF ChangeAt
  <1>3. chain' = chain \cup {e}
    OBVIOUS
  <1> HIDE DEF k, e
  <1>4. change'[c] = k /\ \A d \in Changes : d # c => change'[d] = change[d]
    BY <1>0, <1>2
  <1>5. ChainInv'
    BY <1>0, <1>3, ChainGrows
  <1>6. ChangeSound(c)'
    BY <1>1, <1>4 DEF ChangeSound
  <1>7. ASSUME NEW d \in Changes, d # c PROVE ChangeSound(d)'
    <2>1. ChangeSound(d) /\ change[d].pc # "commit"
      BY <1>7 DEF AuditInv, ChangeInv
    <2>2. change[d].pc = "insert" => Follows(change[d].entry)'
      BY <1>3, <1>4, <1>7, <2>1, FollowsKept DEF ChangeSound, Follows
    <2>3. IdTaken(d)' => IdTaken(d)
      BY <1>0, <1>3, <1>7 DEF IdTaken
    <2> QED BY <1>4, <1>7, <2>1, <2>2, <2>3 DEF ChangeSound, Follows, IdTaken
  <1>8. ChangeInv'
    BY <1>1, <1>4, <1>6, <1>7 DEF AuditInv, ChangeInv
  <1> QED BY <1>0, <1>1, <1>2, <1>3, <1>5, <1>8, ChangeMoves

LEMMA ChangeStepInv ==
    ASSUME AuditInv, NEW c \in Changes, ChangeStep(c) \/ ChangeFails(c)
    PROVE  AuditInv'
  <1>0. /\ change \in [Changes -> ChangeDoc] /\ change[c] \in ChangeDoc /\ ChangeSound(c)
        /\ ChainInv /\ chain \subseteq Entry /\ auditFaults \in 0 .. MaxAuditFaults
    BY ChangeFacts
  <1>1. ASSUME NEW pc \in {"idle", "commit", "failed"}, ChangeAt(c, pc),
               change[c].pc = "insert" \/ (pc = "failed" /\ change[c].pc = "commit"),
               pc = "commit" => ~SeqTaken(change[c].entry.seq) /\ ~SeqLocked(change[c].entry.seq),
               UNCHANGED <<chain, journal, attempts, writer, verifier, status, verified>>,
               auditFaults' \in 0 .. MaxAuditFaults
        PROVE  AuditInv'
    <2> DEFINE k == [change[c] EXCEPT !.pc = pc]
    <2>1. k \in ChangeDoc /\ k.pc = pc /\ k.entry = change[c].entry
      BY <1>0 DEF ChangeDoc
    <2>2. change' = [change EXCEPT ![c] = k]
      BY <1>0, <1>1 DEF ChangeAt
    <2> HIDE DEF k
    <2> QED BY <1>0, <1>1, <2>1, <2>2, ChangeProceeds DEF ChangeSound
  <1>2. CASE BeginChange(c)
    <2> DEFINE m == [NoEntry EXCEPT !.id = c]
               n == Chained(m)
               k == [pc |-> "insert", entry |-> n]
    <2>1. m \in Entry /\ m.id = c /\ c \in Ids
      BY DEF NoEntry, Entry, Ids
    <2> HIDE DEF m
    <2>2. n \in Entry /\ n.id = c /\ Follows(n)
      BY <1>0, <2>1, ChainedFollows
    <2>3. /\ change[c].pc = "idle" /\ change' = [change EXCEPT ![c] = k]
          /\ UNCHANGED <<chain, journal, attempts, writer, verifier, status, verified,
                         auditFaults>>
      BY <1>2 DEF BeginChange, m
    <2> HIDE DEF n
    <2>4. k \in ChangeDoc /\ k.pc = "insert" /\ k.entry = n
      BY <2>2 DEF ChangeDoc
    <2> HIDE DEF k
    <2> QED BY <1>0, <2>2, <2>3, <2>4, ChangeProceeds
  <1>3. CASE InsertInSession(c)
    <2>1. /\ change[c].pc = "insert"
          /\ UNCHANGED <<chain, journal, attempts, writer, verifier, status, verified,
                         auditFaults>>
      BY <1>3 DEF InsertInSession
    <2>2. CASE SeqTaken(change[c].entry.seq) \/ SeqLocked(change[c].entry.seq)
      BY <1>0, <1>1, <1>3, <2>1, <2>2 DEF InsertInSession
    <2>3. CASE ~(SeqTaken(change[c].entry.seq) \/ SeqLocked(change[c].entry.seq))
      BY <1>0, <1>1, <1>3, <2>1, <2>3 DEF InsertInSession
    <2> QED BY <2>2, <2>3
  <1>4. CASE CommitChange(c)
    BY <1>0, <1>4, ChangeCommits DEF CommitChange
  <1>5. CASE ChangeFails(c)
    <2>1. /\ auditFaults' \in 0 .. MaxAuditFaults /\ ChangeAt(c, "failed")
          /\ UNCHANGED <<journal, attempts, writer, verifier, status, verified>>
      BY <1>0, <1>5, AuditChainAssumption DEF ChangeFails, AuditFault
    <2>2. CASE change[c].pc \in {"insert", "commit"} /\ UNCHANGED chain
      BY <1>1, <2>1, <2>2
    <2>3. CASE change[c].pc = "commit" /\ chain' = chain \cup {change[c].entry}
      BY <2>1, <2>3, ChangeCommits
    <2> QED BY <1>5, <2>2, <2>3 DEF ChangeFails
  <1> QED BY <1>2, <1>3, <1>4, <1>5 DEF ChangeStep

-----------------------------------------------------------------------------
(* The verifier.                                                           *)

Span(a, b) == {f \in chain : f.seq \in a .. b}

(* Numbers are consecutive, so that they count the entries.                *)
LEMMA SpanCount ==
    ASSUME ChainInv, NEW a \in Nat, NEW b \in Nat, 1 <= a, a <= b, b <= Cardinality(chain)
    PROVE  Cardinality(Span(a, b)) = b - a + 1 /\ {e.seq : e \in Span(a, b)} = a .. b
  <1> DEFINE S == Span(a, b)
             g == [e \in S |-> e.seq]
  <1>1. Cardinality(chain) \in Nat
    BY ChainLength
  <1>2. \A n \in a .. b : \E e \in S : e.seq = n
    <2>1. \A n \in a .. b : n \in 1 .. Cardinality(chain)
      BY <1>1
    <2> QED BY <2>1 DEF ChainInv, Span
  <1>3. \A e \in S : e \in chain /\ e.seq \in a .. b
    BY DEF Span
  <1> HIDE DEF S
  <1>4. g \in Bijection(S, a .. b)
    <2>1. g \in [S -> a .. b] /\ \A e \in S : g[e] = e.seq
      BY <1>3
    <2>2. \A e, f \in S : g[e] = g[f] => e = f
      BY <1>3, <2>1 DEF ChainInv
    <2>3. \A n \in a .. b : \E e \in S : g[e] = n
      BY <1>2, <2>1
    <2> HIDE DEF g
    <2> QED BY <2>1, <2>2, <2>3, Fun_IsBij
  <1>5. ExistsBijection(a .. b, S)
    <2>1. Inverse(g, S, a .. b) \in Bijection(a .. b, S)
      BY <1>4, Fun_BijInverse
    <2> QED BY <2>1 DEF ExistsBijection
  <1>6. IsFiniteSet(a .. b) /\ Cardinality(a .. b) = b - a + 1
    BY FS_Interval
  <1>7. Cardinality(S) = b - a + 1
    BY <1>5, <1>6, FS_Bijection
  <1>8. {e.seq : e \in S} = a .. b
    BY <1>2, <1>3
  <1> QED BY <1>7, <1>8 DEF S

(* A chunk holds consecutive entries from its first number on.             *)
LEMMA ChunkIsConsecutive ==
    ASSUME ChainInv, NEW n \in Nat, 1 <= n
    PROVE  LET found == ChunkFrom(n)
           IN  /\ found \subseteq chain /\ Cardinality(found) \in Nat
               /\ {e.seq : e \in found} = n .. n + Cardinality(found) - 1
  <1> DEFINE N == Cardinality(chain)
             m == IF N <= n + Chunk - 1 THEN N ELSE n + Chunk - 1
  <1>1. N \in Nat /\ Chunk \in Nat \ {0} /\ \A e \in chain : e.seq \in Nat /\ e.seq <= N
    BY ChainLength, AuditChainAssumption DEF ChainInv
  <1>2. CASE N < n
    <2>1. \A e \in chain : ~(e.seq >= n)
      BY <1>1, <1>2
    <2>2. ChunkFrom(n) = {}
      BY <2>1 DEF ChunkFrom
    <2>3. {e.seq : e \in {}} = {} /\ n .. n - 1 = {}
      OBVIOUS
    <2> QED BY <2>2, <2>3, FS_EmptySet
  <1>3. CASE n <= N
    <2>1. m \in Nat /\ n <= m /\ m <= N /\ m <= n + Chunk - 1
      BY <1>1, <1>3
    <2>2. ASSUME NEW e \in chain, e.seq >= n
          PROVE  Cardinality({f \in chain : f.seq \in n .. e.seq}) <= Chunk <=> e.seq \in n .. m
      <3>1. Cardinality({f \in chain : f.seq \in n .. e.seq}) = e.seq - n + 1
        BY <1>1, <2>2, SpanCount DEF Span
      <3> QED BY <1>1, <2>1, <2>2, <3>1
    <2>3. \A e \in chain : e.seq \in n .. m => e.seq >= n
      BY <2>1
    <2> HIDE DEF m
    <2>4. ChunkFrom(n) = Span(n, m)
      BY <2>2, <2>3 DEF ChunkFrom, Span
    <2>5. Cardinality(Span(n, m)) = m - n + 1 /\ {e.seq : e \in Span(n, m)} = n .. m
      BY <2>1, SpanCount
    <2>6. m - n + 1 \in Nat /\ n + (m - n + 1) - 1 = m
      BY <2>1
    <2>7. Span(n, m) \subseteq chain
      BY DEF Span
    <2> QED BY <2>4, <2>5, <2>6, <2>7
  <1> QED BY <1>1, <1>2, <1>3

(* Nothing is wrong with consecutive entries of the chain.                 *)
LEMMA NothingIsBad ==
    ASSUME ChainInv, NEW from \in Nat, 1 <= from, NEW found \in SUBSET chain,
           {e.seq : e \in found} = from .. from + Cardinality(found) - 1
    PROVE  BadSeqs(from, found) = {}
  <1>1. ASSUME NEW n \in from .. from + Cardinality(found) - 1
        PROVE  /\ ~(n > 1 /\ ~SeqTaken(n - 1))
               /\ \E e \in found : e.seq = n /\ e.prev = IdAt(n - 1)
    <2>1. PICK e \in found : e.seq = n
      BY <1>1
    <2>2. Follows(e)
      BY DEF ChainInv
    <2>3. e.prev = IdAt(e.seq - 1)
      BY <2>2, FollowsHash
    <2>4. n # 1 => SeqTaken(n - 1)
      BY <2>1, <2>2 DEF Follows, SeqTaken
    <2>5. n \in Nat
      BY <2>1, <2>2 DEF Follows
    <2> QED BY <2>1, <2>3, <2>4, <2>5
  <1> QED BY <1>1 DEF BadSeqs

LEMMA VerifierMoves ==
    ASSUME AuditInv, NEW v \in Verifiers, NEW k \in VerifierDoc,
           verifier' = [verifier EXCEPT ![v] = k],
           UNCHANGED <<chain, journal, attempts, writer, change>>,
           status' \in StatusDoc, status'.cursor >= 1, VerifierIsSound',
           verified \subseteq verified', verified' \subseteq Nat,
           auditFaults' \in 0 .. MaxAuditFaults, VerifierSound(v)'
    PROVE  AuditInv'
  <1>0. verifier \in [Verifiers -> VerifierDoc]
    BY AuditTyped DEF AuditInv
  <1>1. verifier' \in [Verifiers -> VerifierDoc]
    BY <1>0
  <1>2. \A u \in Verifiers : u # v => verifier'[u] = verifier[u]
    BY <1>0
  <1>3. AuditTypeOK'
    BY <1>1 DEF AuditInv, AuditTypeOK, VerifierDoc, StatusDoc
  <1>4. ASSUME NEW u \in Verifiers, u # v PROVE VerifierSound(u)'
    BY <1>2, <1>4 DEF AuditInv, VerifyInv, VerifierSound
  <1>5. VerifyInv'
    BY <1>4 DEF VerifyInv
  <1>6. WriterInv'
    BY WriterKept DEF AuditInv, WriterInv
  <1> QED BY <1>3, <1>5, <1>6, ChangesKept, JournalKept DEF AuditInv

LEMMA VerifyStepInv ==
    ASSUME AuditInv, NEW v \in Verifiers, VerifyStep(v) \/ VerifyFails(v)
    PROVE  AuditInv'
  <1>0. /\ verifier \in [Verifiers -> VerifierDoc] /\ verifier[v] \in VerifierDoc
        /\ VerifierSound(v) /\ ChainInv /\ chain \subseteq Entry
        /\ status \in StatusDoc /\ status.cursor \in Nat /\ status.cursor >= 1
        /\ VerifierIsSound /\ verified \subseteq Nat /\ auditFaults \in 0 .. MaxAuditFaults
    BY AuditTyped DEF AuditInv, VerifyInv, StatusDoc
  <1>i. ASSUME verifier' = [verifier EXCEPT ![v] = [pc |-> "idle", from |-> 1, head |-> 0,
                                                    found |-> {}]]
        PROVE  /\ [pc |-> "idle", from |-> 1, head |-> 0, found |-> {}] \in VerifierDoc
               /\ VerifierSound(v)'
    BY <1>0, <1>i DEF VerifierDoc, VerifierSound
  <1>1. CASE StartVerify(v)
    <2> DEFINE k == [pc |-> "head", from |-> status.cursor, head |-> 0, found |-> {}]
    <2>1. /\ verifier' = [verifier EXCEPT ![v] = k]
          /\ UNCHANGED <<chain, journal, attempts, writer, change, status, verified,
                         auditFaults>>
      BY <1>1 DEF StartVerify
    <2>2. k \in VerifierDoc /\ k.pc = "head" /\ k.from = status.cursor
      BY <1>0 DEF VerifierDoc
    <2> HIDE DEF k
    <2>3. verifier'[v] = k
      BY <1>0, <2>1
    <2>4. VerifierSound(v)' /\ VerifierIsSound'
      BY <1>0, <2>1, <2>2, <2>3 DEF VerifierSound, VerifierIsSound
    <2> QED BY <1>0, <2>1, <2>2, <2>4, VerifierMoves
  <1>2. CASE ReadHead(v)
    <2> DEFINE k == [verifier[v] EXCEPT !.pc = "read", !.head = HeadSeq]
    <2>1. /\ verifier[v].pc = "head"
          /\ UNCHANGED <<chain, journal, attempts, writer, change, status, verified,
                         auditFaults>>
      BY <1>2 DEF ReadHead
    <2>2. verifier' = [verifier EXCEPT ![v] = k]
      BY <1>0, <1>2 DEF ReadHead
    <2>3. HeadSeq \in Nat
      BY <1>0, HeadIsLength, ChainLength
    <2>4. k \in VerifierDoc /\ k.pc = "read" /\ k.from = verifier[v].from
      BY <1>0, <2>3 DEF VerifierDoc
    <2> HIDE DEF k
    <2>5. verifier'[v] = k
      BY <1>0, <2>2
    <2>6. VerifierSound(v)' /\ VerifierIsSound'
      BY <1>0, <2>1, <2>4, <2>5 DEF VerifierSound, VerifierIsSound
    <2> QED BY <1>0, <2>1, <2>2, <2>4, <2>6, VerifierMoves
  <1>3. CASE ReadChunk(v)
    <2> DEFINE c == ChunkFrom(verifier[v].from)
               k == [verifier[v] EXCEPT !.pc = "persist", !.found = c]
    <2>1. /\ verifier[v].pc = "read"
          /\ UNCHANGED <<chain, journal, attempts, writer, change, status, verified,
                         auditFaults>>
      BY <1>3 DEF ReadChunk
    <2>2. verifier' = [verifier EXCEPT ![v] = k]
      BY <1>0, <1>3 DEF ReadChunk
    <2>3. verifier[v].from \in Nat /\ 1 <= verifier[v].from
      BY <1>0, <2>1 DEF VerifierSound, VerifierDoc
    <2>4. /\ c \subseteq chain /\ Cardinality(c) \in Nat
          /\ {e.seq : e \in c} = verifier[v].from .. verifier[v].from + Cardinality(c) - 1
      BY <1>0, <2>3, ChunkIsConsecutive
    <2> HIDE DEF c
    <2>5. c \in SUBSET Entry
      BY <1>0, <2>4
    <2>6. k \in VerifierDoc /\ k.pc = "persist" /\ k.from = verifier[v].from /\ k.found = c
      BY <1>0, <2>5 DEF VerifierDoc
    <2> HIDE DEF k
    <2>7. verifier'[v] = k
      BY <1>0, <2>2
    <2>8. VerifierSound(v)'
      BY <1>0, <2>1, <2>4, <2>6, <2>7 DEF VerifierSound
    <2>9. VerifierIsSound'
      BY <1>0, <2>1 DEF VerifierIsSound
    <2> QED BY <1>0, <2>1, <2>2, <2>6, <2>8, <2>9, VerifierMoves
  <1>4. CASE PersistStatus(v)
    <2> DEFINE from == verifier[v].from
               found == verifier[v].found
               next == from + Cardinality(found)
    <2>1. /\ found \subseteq chain /\ Cardinality(found) \in Nat /\ from \in Nat /\ 1 <= from
          /\ {e.seq : e \in found} = from .. next - 1
          /\ \A n \in 1 .. from - 1 : n \in verified
      BY <1>0, <1>4 DEF PersistStatus, VerifierSound, VerifierDoc
    <2>2. BadSeqs(from, found) = {}
      BY <1>0, <2>1, NothingIsBad
    <2>3. /\ status' = [outcome |-> "ok", cursor |-> NextFrom(v)]
          /\ verified' = verified \cup {e.seq : e \in found}
          /\ verifier' = [verifier EXCEPT ![v] = [pc |-> "idle", from |-> 1, head |-> 0,
                                                  found |-> {}]]
          /\ UNCHANGED <<chain, journal, attempts, writer, change, auditFaults>>
      BY <1>4, <2>2 DEF PersistStatus
    <2>4. NextFrom(v) \in {1, next}
      BY DEF NextFrom
    <2> HIDE DEF from, found
    <2>5. next \in Nat /\ next >= 1
      BY <2>1
    <2>6. \A n \in 1 .. next - 1 : n \in verified'
      BY <2>1, <2>3
    <2> HIDE DEF next
    <2>7. NextFrom(v) \in Nat /\ NextFrom(v) >= 1
      BY <2>4, <2>5
    <2>8. /\ status' \in StatusDoc /\ status'.cursor = NextFrom(v) /\ status'.outcome = "ok"
      BY <2>3, <2>7 DEF StatusDoc
    <2>9. VerifierIsSound'
      <3>1. \A n \in 1 .. NextFrom(v) - 1 : n \in verified'
        BY <2>4, <2>6
      <3> QED BY <2>8, <3>1 DEF VerifierIsSound
    <2>10. verified' \subseteq Nat /\ verified \subseteq verified'
      <3>1. \A n \in from .. next - 1 : n \in Nat
        BY <2>1, <2>5
      <3>2. {e.seq : e \in found} \subseteq Nat
        BY <2>1, <3>1
      <3> QED BY <1>0, <2>3, <3>2
    <2> QED BY <1>0, <1>i, <2>3, <2>7, <2>8, <2>9, <2>10, VerifierMoves
  <1>5. CASE VerifyFails(v)
    <2>1. /\ verifier' = [verifier EXCEPT ![v] = [pc |-> "idle", from |-> 1, head |-> 0,
                                                  found |-> {}]]
          /\ UNCHANGED <<chain, journal, attempts, writer, change, status, verified>>
          /\ auditFaults' \in 0 .. MaxAuditFaults
      BY <1>0, <1>5, AuditChainAssumption DEF VerifyFails, AuditFault
    <2>2. VerifierIsSound'
      BY <1>0, <2>1 DEF VerifierIsSound
    <2> QED BY <1>0, <1>i, <2>1, <2>2, VerifierMoves
  <1> QED BY <1>1, <1>2, <1>3, <1>4, <1>5 DEF VerifyStep

-----------------------------------------------------------------------------
LEMMA AuditNextInv == AuditInv /\ [AuditNext]_auditVars => AuditInv'
  <1>1. ASSUME AuditInv, [AuditNext]_auditVars PROVE AuditInv'
    <2>1. CASE UNCHANGED auditVars
      <3>1. AuditTypeOK'
        BY <1>1, <2>1 DEF auditVars, AuditInv, AuditTypeOK
      <3>2. WriterInv'
        BY <1>1, <2>1, WriterKept DEF auditVars, AuditInv, WriterInv
      <3> QED BY <1>1, <2>1, <3>1, <3>2, ChangesKept, JournalKept, VerifiersKept
              DEF auditVars, AuditInv
    <2>2. ASSUME NEW w \in Writers, AppendStep(w) PROVE AuditInv'
      BY <1>1, <2>2, ReadTailInv, InsertEntryInv, LookUpEntryInv DEF AppendStep
    <2>3. ASSUME NEW r \in Relays, RelayStep(r) PROVE AuditInv'
      BY <1>1, <2>2, <2>3, StartPublishInv, MarkAuditedInv, PublishFailedInv
      DEF RelayStep, Writers
    <2>4. ASSUME NEW l \in Logs, StartLog(l) \/ AppendStep(l) PROVE AuditInv'
      BY <1>1, <2>2, <2>4, StartLogInv DEF Writers
    <2> QED BY <1>1, <2>1, <2>3, <2>4, CommitEventInv, AppendFailsInv, ChangeStepInv,
               VerifyStepInv DEF AuditNext
  <1> QED BY <1>1

(* AuditInv is inductive, for any number of events, logs, changes, relays  *)
(* and verifiers, any chunk and any number of attempts and faults.         *)
THEOREM AuditInvariant == AuditSpec => []AuditInv
  BY AuditInitInv, AuditNextInv, PTL DEF AuditSpec

(* The chain has no gap, no fork and no double entry, and what a relay     *)
(* marked is in it (append_chained_entry, relay::publish).                 *)
THEOREM ChainStaysIntact == AuditSpec => []ChainIsIntact
  <1>1. AuditInv => ChainIsIntact
    <2> SUFFICES ASSUME AuditInv PROVE ChainIsIntact
      OBVIOUS
    <2>1. {e.seq : e \in chain} = 1 .. Cardinality(chain)
      BY DEF AuditInv, ChainInv
    <2>2. \A e \in chain : e.prev = IdAt(e.seq - 1)
      BY FollowsHash DEF AuditInv, ChainInv
    <2>3. \A e, f \in chain : e.id = f.id => e = f
      BY DEF AuditInv, ChainInv
    <2> QED BY <2>1, <2>2, <2>3 DEF AuditInv, JournalInv, IdTaken, ChainIsIntact
  <1> QED BY <1>1, AuditInvariant, PTL

(* No verifier reports a break, and the shared cursor skips no entry       *)
(* (chain_verify_service.rs).                                              *)
THEOREM VerifierRaisesNoFalseAlarm == AuditSpec => []VerifierIsSound
  <1>1. AuditInv => VerifierIsSound
    BY DEF AuditInv, VerifyInv
  <1> QED BY <1>1, AuditInvariant, PTL

-----------------------------------------------------------------------------
(* The shared stores side by side.                                         *)

\* Whichever store a behaviour uses, every document keeps its type: no step
\* on a lease, a bucket, a window, an owner record or the audit chain writes
\* what the code cannot read back.
THEOREM CoordinationIsTyped == CoordinationSpec => []CoordinationTypeOK
<1> DEFINE All == Inv /\ BucketInv /\ WindowInv /\ NodeOwnerInv /\ AuditInv
<1>1. CoordinationInit => All
  BY InitInv, BucketInitInv, WindowInitInv, NodeOwnerInitInv, AuditInitInv
  DEF CoordinationInit
<1>2. All /\ [CoordinationNext]_coordinationVars => All'
  <2> SUFFICES ASSUME All, [CoordinationNext]_coordinationVars PROVE All'
    OBVIOUS
  <2>1. /\ [Next]_vars /\ [BucketNext]_bucketVars /\ [WindowNext]_windowVars
        /\ [NodeOwnerNext]_ownerVars /\ [AuditNext]_auditVars
    BY DEF CoordinationNext, coordinationVars
  <2> QED BY <2>1, InvInductive, BucketNextInv, WindowNextInv, NodeOwnerInductive, AuditNextInv
<1>3. All => CoordinationTypeOK
  BY DEF Inv, BucketInv, WindowInv, NodeOwnerInv, AuditInv, CoordinationTypeOK
<1> QED BY <1>1, <1>2, <1>3, PTL DEF CoordinationSpec
=============================================================================
