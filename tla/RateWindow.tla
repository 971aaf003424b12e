----------------------------- MODULE RateWindow -----------------------------
(***************************************************************************)
(* RateWindowStore of services/coordination_service.rs: one document per   *)
(* key counts the admissions of the current fixed window.  A single update *)
(* rolls the window over, counts and decides; the TTL monitor removes the  *)
(* document some time after its window.                                    *)
(*                                                                         *)
(* One key.  The limit is an argument of every call and may differ between *)
(* calls.  $$NOW is the primary's clock and does not go back here.         *)
(***************************************************************************)
EXTENDS Integers

CONSTANTS
    Window,     \* length of a window
    Limits,     \* limits that callers pass
    NoWindow,   \* no document
    MaxClock    \* bound: how long the clock runs

ASSUME RateWindowAssumption ==
    /\ Window \in Nat \ {0}
    /\ Limits \subseteq Nat /\ Limits # {}
    /\ MaxClock \in Nat
    /\ NoWindow \notin [start : Nat, count : Nat, expires : Nat]

VARIABLES
    window,   \* the document: window_start, count, expires_at
    clock,
    admitted  \* history: admitted[w], admissions in the w-th window

windowVars == <<window, clock, admitted>>

(* Every variable has its type.                                            *)
WindowTypeOK ==
    /\ window \in [start : Nat, count : Nat, expires : Nat] \cup {NoWindow}
    /\ clock \in 0 .. MaxClock
    /\ admitted \in [0 .. (MaxClock \div Window) -> Nat]

WindowInit ==
    /\ window = NoWindow
    /\ clock = 0
    /\ admitted = [w \in 0 .. (MaxClock \div Window) |-> 0]

-----------------------------------------------------------------------------

(* $dateTrunc *)
CurrentWindow == Window * (clock \div Window)

(* __new_window *)
NewWindow == window = NoWindow \/ window.start # CurrentWindow

Count == IF NewWindow THEN 0 ELSE window.count

\* slip: the document expires with the start of its window
WindowExpiryShort == CurrentWindow

WindowExpiry == CurrentWindow + 2 * Window

(* The update: the window rolls over, and a call below its limit counts.   *)
AdmitInWindow(limit) ==
    LET allowed == Count < limit
    IN  /\ window' = [start |-> CurrentWindow,
                      count |-> IF allowed THEN Count + 1 ELSE Count,
                      expires |-> WindowExpiry]
        /\ admitted' = [admitted EXCEPT ![clock \div Window] =
                          IF allowed THEN @ + 1 ELSE @]
        /\ UNCHANGED clock

(* MongoDB's TTL monitor.                                                  *)
WindowReap ==
    /\ window # NoWindow
    /\ window.expires <= clock
    /\ window' = NoWindow
    /\ UNCHANGED <<clock, admitted>>

WindowTick ==
    /\ clock < MaxClock
    /\ clock' = clock + 1
    /\ UNCHANGED <<window, admitted>>

WindowNext == \/ \E limit \in Limits : AdmitInWindow(limit)
              \/ WindowReap
              \/ WindowTick

WindowSpec == WindowInit /\ [][WindowNext]_windowVars

-----------------------------------------------------------------------------
(* No window admits more than the greatest limit that was passed, so no    *)
(* stretch as long as a window more than twice that: neither the rollover  *)
(* nor the removal of the document forgets an admission of the window.     *)
WindowBound ==
    \A w \in DOMAIN admitted : \E limit \in Limits : admitted[w] <= limit

=============================================================================
