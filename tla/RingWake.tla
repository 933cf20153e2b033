------------------------------ MODULE RingWake ------------------------------
(***************************************************************************)
(* When a capture program signals the reader of its CPU's ring             *)
(* (emitWakeFlag, emitShardedRBReserve and ringbufSubmitFlag in            *)
(* internal/program) and what the fast reader does when it is not          *)
(* signalled (FastShardedReader.run, fastrb).  A program asks the ring for *)
(* its backlog, computes the submit flag, reserves, and submits with that  *)
(* flag: another program of the CPU, and the reader, may run in between.   *)
(* Lengths are in units of the ring's alignment.                           *)
(***************************************************************************)
EXTENDS Integers, Sequences, SequencesExt, Bitwise

CONSTANTS
    Programs,    \* capture programs that share the CPU's ring
    RecLen,      \* Programs -> length of its record, header included
    Total,       \* the ring budget, and the CPUs it is split over
    NumCPUs,
    MinShard,    \* the floor of a shard
    MaxRecords   \* bound: records reserved in a behaviour

\* Sizing: the largest power of two within the shard's share of the budget.
shardRingbufSize ==
    LET perShard == IF Total \div NumCPUs > MinShard THEN Total \div NumCPUs ELSE MinShard
    IN  CHOOSE n \in {2 ^ k : k \in 0 .. 16} : n <= perShard /\ perShard < 2 * n

Quarter == shardRingbufSize \div 4

\* Every record fits in a quarter of the smallest shard.
ASSUME RecLenAssumption ==
    /\ MinShard \in Nat /\ NumCPUs \in Nat \ {0} /\ Total \in Nat /\ MaxRecords \in Nat
    /\ \A p \in Programs : RecLen[p] \in 1 .. (Quarter - 1)

NO_WAKEUP == 1
FORCE_WAKEUP == 2

VARIABLES
    noWakeup,  \* capture.NoWakeup, set before programs and reader exist
    prog,      \* Programs -> [pc, flag, at]: at, the records made when it asked
    ring,      \* the unconsumed records: [by, busy]
    made,      \* records reserved so far
    dropped,   \* reserves that failed, counted as ringbuf_reserve_fail
    reader,    \* [pc, end, walked]: the batch's loaded end and its progress
    ready,     \* the ring is on the epoll ready list
    missed     \* multiples of Quarter that stale flags let pass since the ring was empty

wakeVars == <<noWakeup, prog, ring, made, dropped, reader, ready, missed>>

Idle == [pc |-> "idle", flag |-> NO_WAKEUP, at |-> 0]

LengthOf(records) == FoldSeq(LAMBDA r, sum : RecLen[r.by] + sum, 0, records)
Backlog == LengthOf(ring)

WakeInit ==
    /\ noWakeup \in BOOLEAN
    /\ prog = [p \in Programs |-> Idle]
    /\ ring = <<>> /\ made = 0 /\ dropped = 0 /\ missed = 0
    /\ reader = [pc |-> "wait", end |-> 0, walked |-> 0]
    /\ ready = FALSE

-----------------------------------------------------------------------------
\* The programs.

\* Mutant: the record itself is left out of the comparison.
emitWakeFlagLevel(p) == IF Backlog < Quarter THEN NO_WAKEUP ELSE FORCE_WAKEUP

\* NO_WAKEUP plus the sign bit of Quarter - 1 - x; nothing is computed, and the
\* flag is a constant, under NoWakeup.
emitWakeFlag(p) ==
    LET x == (Backlog + RecLen[p]) ^^ Backlog
        sign == IF Quarter - 1 - x < 0 THEN 1 ELSE 0
    IN  IF noWakeup THEN NO_WAKEUP ELSE NO_WAKEUP + sign

Query(p) ==
    /\ prog[p].pc = "idle"
    /\ made + dropped < MaxRecords
    /\ prog' = [prog EXCEPT ![p] = [pc |-> "asked", flag |-> emitWakeFlag(p), at |-> made]]
    /\ UNCHANGED <<noWakeup, ring, made, dropped, reader, ready, missed>>

\* The kernel keeps one unit of the ring free.
Fits(p) == Backlog + RecLen[p] < shardRingbufSize

\* Multiples that this record crosses although its flag was computed before
\* another record was reserved.
CrossedUnseen(p) ==
    IF prog[p].at = made \/ prog[p].flag = FORCE_WAKEUP THEN 0
    ELSE (Backlog + RecLen[p]) \div Quarter - Backlog \div Quarter

emitShardedRBReserve(p) ==
    /\ prog[p].pc = "asked"
    /\ \/ /\ Fits(p)
          /\ ring' = Append(ring, [by |-> p, busy |-> TRUE])
          /\ made' = made + 1
          /\ missed' = missed + CrossedUnseen(p)
          /\ prog' = [prog EXCEPT ![p].pc = "reserved"]
          /\ UNCHANGED dropped
       \/ /\ ~Fits(p)
          /\ dropped' = dropped + 1
          /\ prog' = [prog EXCEPT ![p] = Idle]
          /\ UNCHANGED <<ring, made, missed>>
    /\ UNCHANGED <<noWakeup, reader, ready>>

\* bpf_ringbuf_submit, or the discard after a failed copy, with the same flag: a
\* forced wakeup puts the ring on the ready list and ends a sleep.
Submit(p) ==
    /\ prog[p].pc = "reserved"
    /\ ring' = [i \in DOMAIN ring |-> IF ring[i].by = p THEN [ring[i] EXCEPT !.busy = FALSE]
                                                        ELSE ring[i]]
    /\ ready' = (ready \/ prog[p].flag = FORCE_WAKEUP)
    /\ prog' = [prog EXCEPT ![p] = Idle]
    /\ UNCHANGED <<noWakeup, made, dropped, reader, missed>>

-----------------------------------------------------------------------------
\* The fast reader.

\* epoll_wait polls the ring again while it is on the ready list: with data it
\* returns and stays listed, without it is taken off and the reader sleeps.
WaitForData ==
    /\ reader.pc \in {"wait", "sleep"}
    /\ ready \/ reader.pc = "wait"
    /\ reader' = [reader EXCEPT !.pc = IF ready /\ ring # <<>> THEN "load" ELSE "sleep"]
    /\ ready' = (ready /\ ring # <<>>)
    /\ UNCHANGED <<noWakeup, prog, ring, made, dropped, missed>>

\* Mutant: a wait that reports no ready fd is repeated without reading.
TimeoutIgnored ==
    /\ reader.pc = "sleep"
    /\ reader' = [reader EXCEPT !.pc = "wait"]
    /\ UNCHANGED <<noWakeup, prog, ring, made, dropped, ready, missed>>

\* shardWaitMs, or shardPollTimeoutMs under NoWakeup, ran out.
Timeout ==
    /\ reader.pc = "sleep"
    /\ reader' = [reader EXCEPT !.pc = "load"]
    /\ UNCHANGED <<noWakeup, prog, ring, made, dropped, ready, missed>>

\* ReadBatch loads the producer position once ...
ReadBatch ==
    /\ reader.pc = "load"
    /\ reader' = [pc |-> "walk", end |-> Len(ring), walked |-> 0]
    /\ UNCHANGED <<noWakeup, prog, ring, made, dropped, ready, missed>>

\* ... walks the records, and at that end or at the first busy record stores the
\* consumer position.
Readable == reader.walked < reader.end /\ ~ring[reader.walked + 1].busy

Walk ==
    /\ reader.pc = "walk"
    /\ Readable
    /\ reader' = [reader EXCEPT !.walked = @ + 1]
    /\ UNCHANGED <<noWakeup, prog, ring, made, dropped, ready, missed>>

Publish ==
    /\ reader.pc = "walk"
    /\ ~Readable
    /\ ring' = SubSeq(ring, reader.walked + 1, Len(ring))
    /\ missed' = IF ring' = <<>> THEN 0 ELSE missed
    /\ reader' = [pc |-> "wait", end |-> 0, walked |-> 0]
    /\ UNCHANGED <<noWakeup, prog, made, dropped, ready>>

Reader == WaitForData \/ ReadBatch \/ Walk \/ Publish

Program(p) == Query(p) \/ emitShardedRBReserve(p) \/ Submit(p)

WakeNext == (\E p \in Programs : Program(p)) \/ Reader \/ Timeout

\* A program that asked runs to its end, and epoll_wait returns at its bound.
WakeFairness ==
    /\ \A p \in Programs : WF_wakeVars(emitShardedRBReserve(p) \/ Submit(p))
    /\ WF_wakeVars(Reader)
    /\ WF_wakeVars(Timeout)

WakeSpec == WakeInit /\ [][WakeNext]_wakeVars

-----------------------------------------------------------------------------
\* A wakeup that will come: a reserved record carries it, or the ready list does.
SignalComing == ready \/ \E p \in Programs : prog[p].pc = "reserved" /\ prog[p].flag = FORCE_WAKEUP

\* The backlog never stands at a multiple of a quarter of the ring unsignalled,
\* whatever the reader publishes between a program's query and its reserve, except
\* for the multiples that interleaving programs passed with stale flags: each such
\* miss costs one multiple, and the next one still wakes the reader (the comment of
\* emitWakeFlag).  With one program on the CPU nothing is ever missed.
QuarterIsSignalled ==
    ~noWakeup => SignalComing \/ Backlog \div Quarter <= missed

\* Every record a program reserved is read, whether its submit was signalled or
\* not: the bounded wait of FastShardedReader.run collects what no flag announces,
\* under NoWakeup everything.  (The programs reserve MaxRecords and no more, so the
\* ring is empty in the end.)
EveryRecordRead == <>[](ring = <<>>)
=============================================================================
