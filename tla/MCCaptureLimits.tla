-------------------------- MODULE MCCaptureLimits ---------------------------
(* For TLC, one at a time: the limits of a capture (OutputLimits) and the *)
(* wakeups of a ring (RingWake).                                          *)
EXTENDS OutputLimits, RingWake

-----------------------------------------------------------------------------
(* Two programs of different record length on one CPU's ring of 16 units.  *)

MCPrograms == {"entry", "xdp"}
MCRecLen == [entry |-> 2, xdp |-> 3]

-----------------------------------------------------------------------------
VARIABLE part      \* the component that runs; the others rest

captureVars == <<part, limitVars, wakeVars>>

IdleLimit ==
    /\ mode = "file" /\ count = 0 /\ totalLimit = 0
    /\ left = [s \in Shards |-> 0] /\ limitPc = [s \in Shards |-> "ended"]
    /\ batch = left /\ old = left /\ late = left
    /\ captured = 0 /\ total = 0 /\ written = 0 /\ limited = 0 /\ nulls = 0
    /\ consumed = 0 /\ failure = FALSE /\ mu = 0 /\ coord = "done"
IdleWake ==
    /\ noWakeup = FALSE /\ prog = [p \in Programs |-> Idle] /\ ring = <<>>
    /\ made = 0 /\ dropped = 0 /\ missed = 0 /\ ready = FALSE
    /\ reader = [pc |-> "off", end |-> 0, walked |-> 0]

Init ==
    \/ part = "limits" /\ LimitInit /\ IdleWake
    \/ part = "wake" /\ IdleLimit /\ WakeInit

Next ==
    /\ \/ part = "limits" /\ LimitNext /\ UNCHANGED wakeVars
       \/ part = "wake" /\ WakeNext /\ UNCHANGED limitVars
    /\ UNCHANGED part

Spec ==
    /\ Init /\ [][Next]_captureVars
    /\ LimitFairness /\ WakeFairness
=============================================================================
