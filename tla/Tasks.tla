-------------------------------- MODULE Tasks --------------------------------
(***************************************************************************)
(* The runtime task and the shell task (main/app_main.cpp) above any       *)
(* transports: what they promise is one set of queued payloads, of which   *)
(* each poll may put on the air one that has not expired and may drop      *)
(* some.  Payloads that one tick builds with one lifetime are one member.  *)
(* Firmware implements it with the transports of the code.                 *)
(***************************************************************************)
EXTENDS Runtime

VARIABLES
    queue,             \* the payloads in the transports' queues
    sent               \* the payload that the last poll put on the air, if any

airVars == <<queue, sent>>
vars == <<runtimeVars, airVars>>

Init == RuntimeInit /\ queue = {} /\ sent = {}

(* Runtime::tick submits what it can encode, and a transport may refuse it. *)
TickAndSubmit ==
    \E failed \in SUBSET Built(sampledAt) :
    \E refused \in SUBSET (Built(sampledAt) \ failed) :
        /\ Tick(failed, refused)
        /\ queue' = queue \union {PayloadOf(m, sampledAt) :
                                     m \in Built(sampledAt) \ (failed \union refused)}
        /\ UNCHANGED sent

(* One poll of one transport. *)
Poll ==
    /\ queue' \in SUBSET queue
    /\ \/ sent' = {}
       \/ \E p \in queue : sampledAt <= p.expires /\ sent' = {p}

PollMore == phase = "polling" /\ Poll /\ UNCHANGED runtimeVars
LastPoll == EndRound /\ Poll

Next ==
    \/ TickAndSubmit \/ PollMore \/ LastPoll
    \/ ((\E f \in Fleets : Apply(f)) \/ SampleTime \/ Skip \/ TickRefused \/ Advance)
          /\ UNCHANGED airVars

Spec == Init /\ [][Next]_vars
=============================================================================
