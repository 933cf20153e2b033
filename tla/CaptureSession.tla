---------------------------- MODULE CaptureSession ----------------------------
(* The transport of a capture, internal/capture: one BPF ring buffer and one  *)
(* reader goroutine per CPU ("shard"), a session that stops them and joins    *)
(* them (shardSession), and the positions the tag barrier relies on.          *)
(*                                                                            *)
(* A ring is the sequence of records ever reserved in it; positions count     *)
(* records.  A record is busy until its producer commits it, in any order     *)
(* (programs nest), as a good record, a malformed one, or a discard.          *)
EXTENDS Integers, Sequences, FiniteSets, FiniteSetsExt

CONSTANTS
    RingCap,       \* records a ring holds between consumer and producer
    BatchSize,     \* records the cilium reader takes per round
    Setups         \* the sessions: CPUs, reader, sink, and a bound on the records

\* A setup: its shards; fast, the mmap reader (fastrb) and not the cilium one;
\* busyPoll, the fast reader does not sleep; batched, records go to the sink in
\* batches and not one by one; records, the bound on the records of a ring.
ASSUME SessionAssumption ==
    /\ RingCap \in Nat \ {0} /\ BatchSize \in Nat \ {0}
    /\ \A s \in Setups :
          /\ IsFiniteSet(s.shards) /\ s.records \in Nat
          /\ s.fast \in BOOLEAN /\ s.busyPoll \in BOOLEAN /\ s.batched \in BOOLEAN

VARIABLES
    setup,         \* the options the session was started with
    ring,          \* [Shards -> Seq(Status)]: producer position = length
    cons,          \* published consumer positions
    producing,     \* probes are attached
    pc,            \* where each reader goroutine is
    pos, limit,    \* ReadBatch's local cursor and the producer position it loaded
    taken,         \* records of the cilium reader's current round
    draining,      \* each reader's local copy of stopping()
    batch,         \* batchBuilder.buf: positions not yet handed to the sink
    written,       \* positions the sink accepted, in order
    acked,         \* acknowledged
    consumed,      \* records delivered, malformed ones included
    malformed,     \* records ParseRawSample refused
    failed,        \* session.err is set
    ctl,           \* the goroutine that calls stop()
    final          \* producer positions stop() recorded

ringVars == <<ring, producing>>
readVars == <<cons, pc, pos, limit, taken, draining, batch, written, acked,
              consumed, malformed>>
vars == <<setup, ringVars, readVars, failed, ctl, final>>

Shards == setup.shards

Status == {"busy", "good", "bad", "discard"}
NoPos == -1

Produced(i) == Len(ring[i])

Settled(i, p) == p <= Produced(i) /\ ring[i][p] # "busy"
stopping == ctl \in {"closed", "returned"}

Init ==
    /\ setup \in Setups
    \* a ring reused from an earlier run starts with a drained prefix
    /\ ring \in [Shards -> {<<>>, <<"discard">>}]
    /\ cons = [i \in Shards |-> Len(ring[i])]
    /\ producing = TRUE
    /\ pc = [i \in Shards |-> "start"]
    /\ pos = [i \in Shards |-> 0] /\ limit = [i \in Shards |-> 0]
    /\ taken = [i \in Shards |-> 0]
    /\ draining = [i \in Shards |-> FALSE]
    /\ batch = [i \in Shards |-> <<>>] /\ written = [i \in Shards |-> <<>>]
    /\ acked = [i \in Shards |-> 0]
    /\ consumed = [i \in Shards |-> 0] /\ malformed = [i \in Shards |-> 0]
    /\ failed = FALSE
    /\ ctl = "running" /\ final = [i \in Shards |-> NoPos]

-----------------------------------------------------------------------------
(* Producers: bpf_ringbuf_reserve, _submit and _discard *)

Reserve(i) ==
    /\ producing
    /\ Produced(i) < setup.records
    /\ Produced(i) - cons[i] < RingCap
    /\ ring' = [ring EXCEPT ![i] = Append(@, "busy")]
    /\ UNCHANGED <<producing, readVars, failed, ctl, final>>

Commit(i) ==
    /\ \E p \in 1 .. Produced(i), status \in Status \ {"busy"} :
           /\ ring[i][p] = "busy"
           /\ ring' = [ring EXCEPT ![i][p] = status]
    /\ UNCHANGED <<producing, readVars, failed, ctl, final>>

\* Probe.Quiesce, before stop looks at a ring: detached, no program left running.
Quiesce ==
    /\ producing /\ \A i \in Shards : final[i] = NoPos
    /\ \A i \in Shards : \A p \in 1 .. Produced(i) : ring[i][p] # "busy"
    /\ producing' = FALSE
    /\ UNCHANGED <<ring, readVars, failed, ctl, final>>

-----------------------------------------------------------------------------
(* Reader goroutines *)

Goto(i, l) == pc' = [pc EXCEPT ![i] = l]

\* Only the fast reader acknowledges before its first round.
Start(i) ==
    /\ pc[i] = "start"
    /\ acked' = IF setup.fast THEN [acked EXCEPT ![i] = cons[i]] ELSE acked
    /\ Goto(i, "top")
    /\ UNCHANGED <<ringVars, cons, pos, limit, taken, draining, batch, written,
                   consumed, malformed, failed, ctl, final>>

Top(i) ==
    /\ pc[i] = "top"
    /\ draining' = [draining EXCEPT ![i] = stopping]
    /\ taken' = [taken EXCEPT ![i] = 0]
    /\ Goto(i, IF ~setup.fast THEN "take"
               ELSE IF stopping \/ setup.busyPoll THEN "load" ELSE "wait")
    /\ UNCHANGED <<ringVars, cons, pos, limit, batch, written, acked, consumed,
                   malformed, failed, ctl, final>>

\* epoll returns: data, the stop eventfd, or the timeout; stopping() is read again.
Wait(i) ==
    /\ pc[i] = "wait"
    /\ draining' = [draining EXCEPT ![i] = stopping]
    /\ Goto(i, "load")
    /\ UNCHANGED <<ringVars, cons, pos, limit, taken, batch, written, acked,
                   consumed, malformed, failed, ctl, final>>

\* epoll fails: the session fails and the reader gives up.
WaitError(i) ==
    /\ pc[i] = "wait"
    /\ failed' = TRUE
    /\ Goto(i, "dead")
    /\ UNCHANGED <<ringVars, cons, pos, limit, taken, draining, batch, written,
                   acked, consumed, malformed, ctl, final>>

\* ReadBatch loads the producer position once.
Load(i) ==
    /\ pc[i] = "load"
    /\ limit' = [limit EXCEPT ![i] = Produced(i)]
    /\ pos' = [pos EXCEPT ![i] = cons[i]]
    /\ Goto(i, "walk")
    /\ UNCHANGED <<ringVars, cons, taken, draining, batch, written, acked,
                   consumed, malformed, failed, ctl, final>>

\* Mutant: discards are counted as consumed.
DeliverCountsDiscards(i, p) ==
    /\ consumed' = [consumed EXCEPT ![i] = @ + 1]
    /\ batch' = IF setup.batched /\ ring[i][p] = "good" THEN [batch EXCEPT ![i] = Append(@, p)] ELSE batch
    /\ written' = IF ~setup.batched /\ ring[i][p] = "good" THEN [written EXCEPT ![i] = Append(@, p)] ELSE written
    /\ UNCHANGED <<malformed, failed>>

\* The record at position p goes through ParseRawSample to the builder or the
\* sink; a discard is passed over, a malformed record or a sink error fails the
\* session.
Deliver(i, p) ==
    CASE ring[i][p] = "discard" -> UNCHANGED <<batch, written, consumed, malformed, failed>>
      [] ring[i][p] = "bad" ->
            /\ consumed' = [consumed EXCEPT ![i] = @ + 1]
            /\ malformed' = [malformed EXCEPT ![i] = @ + 1]
            /\ failed' = TRUE
            /\ UNCHANGED <<batch, written>>
      [] OTHER ->
            /\ consumed' = [consumed EXCEPT ![i] = @ + 1]
            /\ UNCHANGED malformed
            /\ \/ /\ setup.batched
                  /\ batch' = [batch EXCEPT ![i] = Append(@, p)]
                  /\ UNCHANGED <<written, failed>>
               \/ /\ ~setup.batched
                  /\ written' = [written EXCEPT ![i] = Append(@, p)]
                  /\ UNCHANGED <<batch, failed>>
               \/ /\ ~setup.batched
                  /\ failed' = TRUE
                  /\ UNCHANGED <<batch, written>>

\* ReadBatch's loop: stop at the loaded position or at the first busy record.
Walk(i) ==
    /\ pc[i] = "walk"
    /\ pos[i] < limit[i] /\ Settled(i, pos[i] + 1)
    /\ Deliver(i, pos[i] + 1)
    /\ pos' = [pos EXCEPT ![i] = @ + 1]
    /\ UNCHANGED <<ringVars, cons, pc, limit, taken, draining, acked, ctl, final>>

\* Mutants: the position is not published; it is acknowledged before the flush.
PublishForgets(i) ==
    /\ pc[i] = "walk"
    /\ ~(pos[i] < limit[i] /\ Settled(i, pos[i] + 1))
    /\ Goto(i, "flush")
    /\ UNCHANGED <<ringVars, cons, pos, limit, taken, draining, batch, written,
                   acked, consumed, malformed, failed, ctl, final>>

PublishAcks(i) ==
    /\ pc[i] = "walk"
    /\ ~(pos[i] < limit[i] /\ Settled(i, pos[i] + 1))
    /\ cons' = [cons EXCEPT ![i] = pos[i]]
    /\ acked' = [acked EXCEPT ![i] = pos[i]]
    /\ Goto(i, "flush")
    /\ UNCHANGED <<ringVars, pos, limit, taken, draining, batch, written,
                   consumed, malformed, failed, ctl, final>>

\* The consumer position is published once, after the walk.
Publish(i) ==
    /\ pc[i] = "walk"
    /\ ~(pos[i] < limit[i] /\ Settled(i, pos[i] + 1))
    /\ cons' = [cons EXCEPT ![i] = pos[i]]
    /\ pos' = [pos EXCEPT ![i] = 0] /\ limit' = [limit EXCEPT ![i] = 0]
    /\ Goto(i, "flush")
    /\ UNCHANGED <<ringVars, taken, draining, batch, written, acked, consumed,
                   malformed, failed, ctl, final>>

\* The cilium reader: one record per ReadInto, published at once; it waits out a
\* busy record, and does not count discards.
Take(i) ==
    /\ pc[i] = "take"
    /\ taken[i] < BatchSize
    /\ Settled(i, cons[i] + 1)
    /\ Deliver(i, cons[i] + 1)
    /\ cons' = [cons EXCEPT ![i] = @ + 1]
    /\ taken' = IF ring[i][cons[i] + 1] = "discard" THEN taken
                ELSE [taken EXCEPT ![i] = @ + 1]
    /\ UNCHANGED <<ringVars, pc, pos, limit, draining, acked, ctl, final>>

\* The round ends at the batch size, or at the deadline on an empty ring.
TakeEnd(i) ==
    /\ pc[i] = "take"
    /\ taken[i] = BatchSize \/ cons[i] = Produced(i)
    /\ Goto(i, "flush")
    /\ UNCHANGED <<ringVars, cons, pos, limit, taken, draining, batch, written,
                   acked, consumed, malformed, failed, ctl, final>>

\* ReadInto fails otherwise: what was gathered is flushed, nothing acknowledged.
TakeError(i) ==
    /\ pc[i] = "take"
    /\ failed' = TRUE
    /\ \/ written' = [written EXCEPT ![i] = @ \o batch[i]]
       \/ UNCHANGED written
    /\ batch' = [batch EXCEPT ![i] = <<>>]
    /\ Goto(i, "dead")
    /\ UNCHANGED <<ringVars, cons, pos, limit, taken, draining, acked, consumed,
                   malformed, ctl, final>>

\* The sink takes the batch, or fails it; the builder is reset either way.
Flush(i) ==
    /\ pc[i] = "flush"
    /\ \/ /\ written' = [written EXCEPT ![i] = @ \o batch[i]]
          /\ UNCHANGED failed
       \/ /\ batch[i] # <<>>
          /\ failed' = TRUE
          /\ UNCHANGED written
    /\ batch' = [batch EXCEPT ![i] = <<>>]
    /\ Goto(i, "ack")
    /\ UNCHANGED <<ringVars, cons, pos, limit, taken, draining, acked, consumed,
                   malformed, ctl, final>>

\* Mutants: the reader leaves at the first round after the stop; the final
\* position must be exceeded; only the last round is acknowledged.
AcknowledgeLeaves(i) ==
    /\ pc[i] = "ack"
    /\ acked' = [acked EXCEPT ![i] = cons[i]]
    /\ Goto(i, IF draining[i] THEN "done" ELSE "top")
    /\ UNCHANGED <<ringVars, cons, pos, limit, taken, draining, batch, written,
                   consumed, malformed, failed, ctl, final>>

AcknowledgePast(i) ==
    /\ pc[i] = "ack"
    /\ acked' = [acked EXCEPT ![i] = cons[i]]
    /\ Goto(i, IF draining[i] /\ cons[i] > final[i] THEN "done" ELSE "top")
    /\ UNCHANGED <<ringVars, cons, pos, limit, taken, draining, batch, written,
                   consumed, malformed, failed, ctl, final>>

AcknowledgeLast(i) ==
    /\ pc[i] = "ack"
    /\ IF draining[i] /\ cons[i] >= final[i]
       THEN /\ acked' = [acked EXCEPT ![i] = cons[i]]
            /\ Goto(i, "done")
       ELSE /\ Goto(i, "top")
            /\ UNCHANGED acked
    /\ UNCHANGED <<ringVars, cons, pos, limit, taken, draining, batch, written,
                   consumed, malformed, failed, ctl, final>>

\* acknowledge, then leave once draining has reached the final position; closing
\* the reader on the way out may fail.
Acknowledge(i) ==
    /\ pc[i] = "ack"
    /\ acked' = [acked EXCEPT ![i] = cons[i]]
    /\ \/ /\ ~(draining[i] /\ cons[i] >= final[i])
          /\ Goto(i, "top")
          /\ UNCHANGED failed
       \/ /\ draining[i] /\ cons[i] >= final[i]
          /\ Goto(i, "done")
          /\ failed' \in {failed, TRUE}
    /\ UNCHANGED <<ringVars, cons, pos, limit, taken, draining, batch, written,
                   consumed, malformed, ctl, final>>

-----------------------------------------------------------------------------
(* shardSession.stop, reached through stopBeforeDrain: Quiesce was called, and *)
(* if it failed stop goes ahead with the producers still there.               *)

StopSnapshot(i) ==
    /\ ctl = "running" /\ final[i] = NoPos
    /\ final' = [final EXCEPT ![i] = Produced(i)]
    /\ UNCHANGED <<ringVars, readVars, failed, ctl>>

StopClose ==
    /\ ctl = "running" /\ \A i \in Shards : final[i] # NoPos
    /\ ctl' = "closed"
    /\ failed' \in {failed, TRUE}          \* the wake-up may fail
    /\ UNCHANGED <<ringVars, readVars, final>>

StopReturn ==
    /\ ctl = "closed" /\ \A i \in Shards : pc[i] \in {"done", "dead"}
    /\ ctl' = "returned"
    /\ failed' \in {failed, TRUE}          \* closing the eventfd and the cursors
    /\ UNCHANGED <<ringVars, readVars, final>>

Reader(i) ==
    \/ Start(i) \/ Top(i) \/ Wait(i) \/ Load(i) \/ Walk(i) \/ Publish(i)
    \/ Take(i) \/ TakeEnd(i) \/ Flush(i) \/ Acknowledge(i)

Step ==
    \/ \E i \in Shards : \/ Reserve(i) \/ Commit(i)
                         \/ Reader(i) \/ WaitError(i) \/ TakeError(i)
                         \/ StopSnapshot(i)
    \/ Quiesce \/ StopClose \/ StopReturn

Next == Step /\ UNCHANGED setup

Spec == Init /\ [][Next]_vars

\* captureReport: the run ended without an error, and the transport's counters agree,
\* exported = consumed = written with no malformed record.  The records --count cut off
\* and the ones that found no room are counted outside the transport (OutputLimits,
\* RingWake); here none is.
Total(f) == MapThenSumSet(LAMBDA i : f[i], Shards)
Submitted == [i \in Shards |-> Cardinality({p \in 1 .. Produced(i) : ring[i][p] \in {"good", "bad"}})]
CountersAgree ==
    /\ Total(Submitted) = Total(consumed)
    /\ Total(malformed) = 0
    /\ Total([i \in Shards |-> Len(written[i])]) = Total(consumed)
ReportedComplete == ~failed /\ CountersAgree

AllShards == UNION {s.shards : s \in Setups}

\* Readers are goroutines that keep being scheduled (epoll times out), programs
\* run to completion, and stop() goes on once it was entered.
Fairness ==
    /\ \A i \in AllShards :
          /\ WF_vars(i \in Shards /\ Reader(i) /\ UNCHANGED setup)
          /\ WF_vars(i \in Shards /\ Commit(i) /\ UNCHANGED setup)
          /\ WF_vars(i \in Shards /\ StopSnapshot(i) /\ UNCHANGED setup
                     /\ \E j \in Shards : final[j] # NoPos)
    /\ WF_vars(StopClose /\ UNCHANGED setup) /\ WF_vars(StopReturn /\ UNCHANGED setup)

FairSpec == Spec /\ Fairness

-----------------------------------------------------------------------------
(* Properties *)

\* Ring positions, reader positions and the session's state keep their types.
TypeOK ==
    /\ ring \in [Shards -> Seq(Status)]
    /\ producing \in BOOLEAN /\ failed \in BOOLEAN
    /\ pc \in [Shards -> {"start", "top", "wait", "load", "walk", "take", "flush",
                          "ack", "done", "dead"}]
    /\ cons \in [Shards -> Nat] /\ pos \in [Shards -> Nat] /\ limit \in [Shards -> Nat]
    /\ taken \in [Shards -> Nat] /\ draining \in [Shards -> BOOLEAN]
    /\ batch \in [Shards -> Seq(Nat)] /\ written \in [Shards -> Seq(Nat)]
    /\ acked \in [Shards -> Nat]
    /\ consumed \in [Shards -> Nat] /\ malformed \in [Shards -> Nat]
    /\ ctl \in {"running", "closed", "returned"}
    /\ final \in [Shards -> Nat \cup {NoPos}]

Written(i) == {written[i][k] : k \in DOMAIN written[i]}
GoodUpTo(i, n) == {p \in 1 .. Produced(i) : p <= n /\ ring[i][p] = "good"}

\* No record reaches the output twice or out of ring order, and none that was
\* not committed as good (Reader.ReadBatch, batchBuilder).
InOrderOnce ==
    \A i \in Shards :
        /\ \A k, l \in DOMAIN written[i] : k < l => written[i][k] < written[i][l]
        /\ Written(i) \subseteq GoodUpTo(i, Produced(i))

\* An acknowledged position vouches for the output: every good record below it
\* was accepted by the sink (session.go:78-80), unless the session failed.
AckVouches ==
    ~failed => \A i \in Shards : GoodUpTo(i, acked[i]) \subseteq Written(i)

\* When stop() returns, every reader that was not cut off by a read error has
\* passed each record reserved before stop() looked at its ring; if producers
\* were quiet by then and nothing failed, the output is the whole ring.
StopDrains ==
    ctl = "returned" =>
        /\ \A i \in Shards : pc[i] = "done" => cons[i] >= final[i] /\ acked[i] = cons[i]
        /\ ~failed => \A i \in Shards : GoodUpTo(i, final[i]) \subseteq Written(i)
        /\ ~failed /\ ~producing =>
               \A i \in Shards : Written(i) = GoodUpTo(i, Produced(i))

\* The report the program ends with agrees with the output.  Its counters never agree
\* while a committed record is missing, even when the session failed or the probes could
\* not be stopped, and it says "complete" whenever all went well (captureReport).
ReportHonest ==
    ctl = "returned" =>
        /\ CountersAgree => \A i \in Shards : Written(i) = GoodUpTo(i, Produced(i))
        /\ ~failed /\ ~producing => ReportedComplete

\* Positions only move forward, and a consumer never passes an uncommitted record.
Monotone ==
    [][\A i \in Shards :
          /\ cons'[i] >= cons[i] /\ acked'[i] >= acked[i]
          /\ \A p \in 1 .. cons'[i] : ring'[i][p] # "busy"]_vars

\* stop() always returns once it has begun, even with producers left running.
StopReturns == (ctl = "closed") ~> (ctl = "returned")

\* A barrier taken at any time completes: every position a producer reached is
\* acknowledged in the end, or the reader died and the session failed, or the
\* session was stopped.
BarrierCompletes ==
    <>[](\A i \in Shards : acked[i] = Produced(i) \/ pc[i] \in {"dead", "done"})

=============================================================================
