--------------------------- MODULE OutputLimits ---------------------------
(* The single-file, stdout, null and raw capture loops (captureLoopSharded,      *)
(* captureLoopShardedRaw, pumpShards): shard goroutines that claim the --count    *)
(* budget, test and feed the --max-bytes total, and write; and the coordinator    *)
(* that polls the limits, the readers and the first output failure.               *)
EXTENDS Integers, FiniteSets, FiniteSetsExt

CONSTANTS
    Shards,
    Records,          \* records each ring holds in all
    MaxBatch,         \* most records of one sink call
    Modes,            \* subset of {"file", "stdout", "null", "raw"}
    Counts, Totals    \* values of --count and --max-bytes (0: off); a record is one byte

ASSUME LimitsAssumption ==
    /\ Records \in Nat /\ MaxBatch \in Nat \ {0}
    /\ Counts \subseteq Nat /\ Totals \subseteq Nat

VARIABLES
    mode, count, totalLimit,
    left,             \* records still in each ring
    limitPc, batch, old,   \* where each shard's sink is, what it holds, the counter value it read
    captured, total, written, limited, nulls, consumed,
    failure,          \* the first output failure is recorded
    late,             \* writes each shard started after that
    mu,               \* holder of sharedMu, or 0
    coord             \* "poll", "stopping" or "done"

limitVars == <<mode, count, totalLimit, left, limitPc, batch, old, captured, total, written, limited,
               nulls, consumed, failure, late, mu, coord>>
conf == <<mode, count, totalLimit>>

LimitInit ==
    /\ mode \in Modes /\ count \in Counts
    /\ totalLimit \in (IF mode \in {"raw", "null"} THEN {0} ELSE Totals)
    /\ left = [s \in Shards |-> Records]
    /\ limitPc = [s \in Shards |-> "read"] /\ batch = [s \in Shards |-> 0] /\ old = [s \in Shards |-> 0]
    /\ captured = 0 /\ total = 0 /\ written = 0 /\ limited = 0 /\ nulls = 0 /\ consumed = 0
    /\ failure = FALSE /\ late = [s \in Shards |-> 0] /\ mu = 0 /\ coord = "poll"

totalReached == totalLimit > 0 /\ total >= totalLimit

-----------------------------------------------------------------------------
(* A shard: one sink call per batch *)

Goto(s, p) == limitPc' = [limitPc EXCEPT ![s] = p]

\* The reader hands over a batch, or ends: after stop, when its ring is drained.
Read(s, n) ==
    /\ limitPc[s] = "read" /\ n \in 1..left[s] /\ n <= MaxBatch
    /\ mode = "raw" => n = 1
    /\ left' = [left EXCEPT ![s] = @ - n] /\ batch' = [batch EXCEPT ![s] = n]
    /\ consumed' = consumed + n
    /\ Goto(s, IF mode = "raw" THEN "failed?" ELSE IF count > 0 THEN "load" ELSE "total?")
    /\ UNCHANGED <<conf, old, captured, total, written, limited, nulls, failure, late, mu, coord>>

Ends(s) ==
    /\ limitPc[s] = "read" /\ left[s] = 0 /\ coord = "stopping"
    /\ Goto(s, "ended")
    /\ UNCHANGED <<conf, left, batch, old, captured, total, written, limited, nulls, consumed, failure, late, mu, coord>>

\* claimPackets: the counter is read, then swapped if nobody changed it in between.
ClaimLoad(s) ==
    /\ limitPc[s] = "load" /\ old' = [old EXCEPT ![s] = captured] /\ Goto(s, "cas")
    /\ UNCHANGED <<conf, left, batch, captured, total, written, limited, nulls, consumed, failure, late, mu, coord>>

Granted(s) == Min({batch[s], Max({0, count - old[s]})})
AfterClaim == IF mode = "raw" THEN "write" ELSE "total?"

\* Mutant: the budget is stored, not swapped.
ClaimSwapStore(s) ==
    /\ limitPc[s] = "cas"
    /\ captured' = old[s] + Granted(s) /\ limited' = limited + (batch[s] - Granted(s))
    /\ batch' = [batch EXCEPT ![s] = Granted(s)]
    /\ Goto(s, IF Granted(s) = 0 THEN "read" ELSE AfterClaim)
    /\ UNCHANGED <<conf, left, old, total, written, nulls, consumed, failure, late, mu, coord>>

ClaimSwap(s) ==
    /\ limitPc[s] = "cas"
    /\ IF Granted(s) # 0 /\ captured # old[s]
       THEN Goto(s, "load") /\ UNCHANGED <<captured, limited, batch>>
       ELSE /\ captured' = captured + Granted(s)
            /\ limited' = limited + (batch[s] - Granted(s))
            /\ batch' = [batch EXCEPT ![s] = Granted(s)]
            /\ Goto(s, IF Granted(s) = 0 THEN "read" ELSE AfterClaim)
    /\ UNCHANGED <<conf, left, old, total, written, nulls, consumed, failure, late, mu, coord>>

\* A reached total drops the batch; the claim it made is not returned.
TotalCheck(s) ==
    /\ limitPc[s] = "total?"
    /\ IF totalReached THEN limited' = limited + batch[s] /\ Goto(s, "read")
       ELSE Goto(s, "failed?") /\ UNCHANGED limited
    /\ UNCHANGED <<conf, left, batch, old, captured, total, written, nulls, consumed, failure, late, mu, coord>>

\* An error of the sink ends this reader's batch, not the reader.
FailureCheck(s) ==
    /\ limitPc[s] = "failed?"
    /\ Goto(s, IF failure THEN "read" ELSE IF mode = "raw" /\ count > 0 THEN "load" ELSE "write")
    /\ UNCHANGED <<conf, left, batch, old, captured, total, written, limited, nulls, consumed, failure, late, mu, coord>>

\* The stdout writer is shared under a mutex; files are the shard's own.
Lock(s) ==
    /\ limitPc[s] = "write" /\ mode = "stdout" /\ mu = 0
    /\ mu' = s /\ Goto(s, "writing")
    /\ UNCHANGED <<conf, left, batch, old, captured, total, written, limited, nulls, consumed, failure, late, coord>>

Started(s) == limitPc[s] = "writing" \/ (limitPc[s] = "write" /\ mode # "stdout")

WriteOK(s) ==
    /\ Started(s)
    /\ IF mode = "null" THEN nulls' = nulls + batch[s] /\ UNCHANGED written
       ELSE written' = written + batch[s] /\ UNCHANGED nulls
    /\ late' = [late EXCEPT ![s] = @ + IF failure THEN 1 ELSE 0]
    /\ Goto(s, "account")
    /\ UNCHANGED <<conf, left, batch, old, captured, total, limited, consumed, failure, mu, coord>>

\* A failed write keeps its claim: what it persisted is unknown.
WriteFails(s) ==
    /\ Started(s) /\ mode # "null"
    /\ failure' = TRUE /\ mu' = IF mu = s THEN 0 ELSE mu
    /\ late' = [late EXCEPT ![s] = @ + IF failure THEN 1 ELSE 0]
    /\ Goto(s, "read")
    /\ UNCHANGED <<conf, left, batch, old, captured, total, written, limited, nulls, consumed, coord>>

\* After the write the bytes go to the shared total, and without --count the records to captured.
Account(s) ==
    /\ limitPc[s] = "account"
    /\ total' = IF totalLimit > 0 THEN total + batch[s] ELSE total
    /\ captured' = IF count = 0 /\ mode # "raw" THEN captured + batch[s] ELSE captured
    /\ mu' = IF mu = s THEN 0 ELSE mu
    /\ Goto(s, "read")
    /\ UNCHANGED <<conf, left, batch, old, written, limited, nulls, consumed, failure, late, coord>>

-----------------------------------------------------------------------------
(* The coordinator *)

\* Mutant: only the count ends the poll.
PollCount ==
    /\ coord = "poll"
    /\ (count > 0 /\ captured >= count) \/ failure
    /\ coord' = "stopping"
    /\ UNCHANGED <<conf, left, limitPc, batch, old, captured, total, written, limited, nulls, consumed, failure, late, mu>>

LimitReached == (count > 0 /\ captured >= count) \/ totalReached

\* A limit, an output failure or a signal ends the poll: probes are quiesced, readers stopped.
Poll ==
    /\ coord = "poll"
    /\ LimitReached \/ failure
    /\ coord' = "stopping"
    /\ UNCHANGED <<conf, left, limitPc, batch, old, captured, total, written, limited, nulls, consumed, failure, late, mu>>

Signal ==
    /\ coord = "poll" /\ coord' = "stopping"
    /\ UNCHANGED <<conf, left, limitPc, batch, old, captured, total, written, limited, nulls, consumed, failure, late, mu>>

\* stop returns when every reader has drained its ring and ended.
LimitStopped ==
    /\ coord = "stopping" /\ \A s \in Shards : limitPc[s] = "ended"
    /\ coord' = "done"
    /\ UNCHANGED <<conf, left, limitPc, batch, old, captured, total, written, limited, nulls, consumed, failure, late, mu>>

Done == coord = "done" /\ UNCHANGED limitVars

Shard(s) ==
    \/ \E n \in 1..MaxBatch : Read(s, n)
    \/ Ends(s) \/ ClaimLoad(s) \/ ClaimSwap(s) \/ TotalCheck(s) \/ FailureCheck(s)
    \/ Lock(s) \/ WriteOK(s) \/ WriteFails(s) \/ Account(s)

LimitNext == (\E s \in Shards : Shard(s)) \/ Poll \/ Signal \/ LimitStopped \/ Done

LimitSpec == LimitInit /\ [][LimitNext]_limitVars

\* Goroutines and the poll loop keep running; a signal may never come. sharedMu is a Go
\* mutex, which hands itself to a waiter eventually: strong fairness of its acquisition.
LimitFairness ==
    /\ WF_limitVars(Poll) /\ WF_limitVars(LimitStopped)
    /\ \A s \in Shards : WF_limitVars(Shard(s)) /\ SF_limitVars(Lock(s))

-----------------------------------------------------------------------------
InSink == {s \in Shards : limitPc[s] \notin {"read", "ended"}}

\* --count is never exceeded by what is written, however the shards' claims interleave,
\* and when only the count can stop the capture every granted record is written.
CountBound ==
    /\ count > 0 => captured <= count /\ written + nulls <= count
    /\ coord = "done" /\ count > 0 /\ totalLimit = 0 /\ ~failure =>
           written + nulls = Min({count, consumed})

\* The report's balance: with no output failure, every record that was read is written,
\* limited or discarded; none is unaccounted for.
Balanced ==
    InSink = {} /\ ~failure => consumed = written + limited + nulls

\* The byte total overshoots --max-bytes by at most one batch per shard.
TotalOvershoot ==
    totalLimit > 0 => total <= totalLimit - 1 + MaxBatch * Cardinality(Shards)

\* After the first failure each shard starts at most the one write it had already decided on.
FailureStopsWrites == \A s \in Shards : late[s] <= 1

\* What the limits promise together: no --count exceeded and none given away, the bytes
\* past --max-bytes bounded, every record of the report accounted for, and no writing on
\* after a failure (runWithSink, claimCaptureCount, totalLimitReached).
LimitsHonest == CountBound /\ TotalOvershoot /\ Balanced /\ FailureStopsWrites

\* A reached limit ends the capture, all rings drained.
LimitEnds == LimitReached ~> coord = "done"
=============================================================================
