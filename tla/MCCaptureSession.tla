-------------------------- MODULE MCCaptureSession --------------------------
(* CaptureSession for TLC. *)
EXTENDS CaptureSession

CONSTANTS s1, s2

Session(shards, records, fast, busyPoll, batched) ==
    [shards |-> shards, records |-> records, fast |-> fast, busyPoll |-> busyPoll,
     batched |-> batched]

\* One ring with each reader and each way to the sink, and two rings.
SomeSetups ==
    {Session({s1}, 3, TRUE, FALSE, TRUE), Session({s1}, 3, FALSE, FALSE, TRUE),
     Session({s1}, 3, FALSE, FALSE, FALSE), Session({s1, s2}, 1, TRUE, TRUE, FALSE)}

=============================================================================
