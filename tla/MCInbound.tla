----------------------------- MODULE MCInbound -----------------------------
(* What comes in and is to be handled once: messages of a platform and     *)
(* events of a device, which share the dedup store, and due triggers.      *)
(* Each has documents of its own, so a behaviour uses one of them and the  *)
(* others rest.                                                            *)
EXTENDS ChannelAdmission, EventForwarding, TriggerSchedule, TLC

VARIABLE part

inboundVars == <<part, vars, forwardVars, scheduleVars>>

MCDeliveries == Deliveries
(* The schedulers borrow the values of the webhooks, and their symmetry.   *)
MCSymmetry == Permutations(Webhooks) \cup Permutations(Gateways)

InboundInit ==
    /\ part \in {"message", "event", "trigger"}
    /\ Init /\ ForwardInit /\ ScheduleInit
    /\ part # "trigger" => trigger.overlap = "skip"

InboundNext ==
    /\ UNCHANGED part
    /\ \/ part = "message" /\ Next /\ UNCHANGED <<forwardVars, scheduleVars>>
       \/ part = "event" /\ ForwardNext /\ UNCHANGED <<vars, scheduleVars>>
       \/ part = "trigger" /\ ScheduleNext /\ UNCHANGED <<vars, forwardVars>>

InboundSpec == InboundInit /\ [][InboundNext]_inboundVars

(* Every variable of every part has its type.                              *)
InboundTypeOK == TypeOK /\ ForwardTypeOK /\ ScheduleTypeOK
=============================================================================
