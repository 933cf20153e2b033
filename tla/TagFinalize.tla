----------------------------- MODULE TagFinalize -----------------------------
(* Tag-split capture with --finalize-on-del: when the last active set entry   *)
(* of a tag goes away, the tag's per-CPU files are closed and merged into one *)
(* file, whose appearance acknowledges the removal, while other tags go on.   *)
(*                                                                            *)
(* Composed here: the BPF programs behind the set lookup and the tombstone    *)
(* gate (internal/program/tag_barrier.go), the shard readers reduced to what  *)
(* CaptureSession shows of them (take, sink, acknowledge), writeShard with    *)
(* the byte caps, the finalizer, the lifecycle tick and the shutdown          *)
(* (cmd/bpf-ninja).  Bytes are counted in records.                            *)
EXTENDS Integers, Sequences, FiniteSets

CONSTANTS
    Tags,
    Setups,           \* the captures: CPUs, set entries, caps
    MaxRecords,       \* bound: records per ring
    MaxErrors         \* bound: I/O and map errors injected

\* A setup: its shards; the tag each set entry carries; max-bytes of each tag's
\* entries, 0 for uncapped; --exit-when-capped; ops, a bound on external set add / set del.
ASSUME FinalizeAssumption ==
    /\ IsFiniteSet(Tags)
    /\ \A s \in Setups :
          /\ IsFiniteSet(s.shards) /\ IsFiniteSet(DOMAIN s.tagOf)
          /\ s.tagOf \in [DOMAIN s.tagOf -> Tags]
          /\ s.limit \in [Tags -> Nat] /\ s.exitWhenCapped \in BOOLEAN /\ s.ops \in Nat
    /\ MaxRecords \in Nat /\ MaxErrors \in Nat

VARIABLES
    setup,            \* the options the capture was started with
    entry,            \* state of each set entry
    limits,           \* tagCounter.limit: the caps in force, in records
    setOps, errors,   \* bounded environment
    attached, prog,   \* links up; the program running on each CPU
    closed,           \* tombstones (ninja_closed)
    waitFor,          \* CPUs whose program a grace period waits for
    ring,             \* per shard: records reserved, [tag, busy]
    cons, batch, acked, rpc,                  \* shard readers
    own, live, reg,   \* writers: held by the shard, not closed, registered
    file, disk,       \* positions written, and on disk
    bad,              \* writers that remember a flush error
    limited,          \* positions dropped on purpose
    bytes, capped,    \* byteCaps
    outErr, sessErr,  \* outputFailure.first, session.err
    known, target, failedTags, closing, finalized, merged,     \* tagFinalizer
    ack, ackFile,     \* records of the merged file, and whether it is there
    ctl, cur, todo,   \* the control loop
    snap, everActive, \* the tick's snapshot of the entries; capLifecycle.everActive
    stoppedBy         \* what ended the capture

setVars == <<entry, setOps, limits>>
kernVars == <<attached, prog, closed, ring, waitFor>>
readVars == <<cons, batch, acked, rpc>>
fileVars == <<own, live, file, disk, bad, limited, bytes, capped>>
errVars == <<outErr, sessErr, errors>>
finVars == <<reg, known, target, failedTags, closing, finalized, merged>>
ackVars == <<ack, ackFile>>
ctlVars == <<ctl, cur, todo, snap, everActive, stoppedBy>>
vars == <<setup, setVars, kernVars, readVars, fileVars, errVars, finVars, ackVars, ctlVars>>

Shards == setup.shards
TagOf == setup.tagOf
Keys == DOMAIN TagOf
Limit == setup.limit
ExitWhenCapped == setup.exitWhenCapped

NoTag == 0
Idle == [at |-> "idle", tag |-> NoTag]
NoTarget == [i \in Shards |-> -1]

\* Tags with an active entry, and with any entry, in a snapshot of the entries.
Active(f) == {TagOf[k] : k \in {j \in Keys : f[j] = "active"}}
Present(f) == {TagOf[k] : k \in {j \in Keys : f[j] # "absent"}}

\* refreshLimits: the caps of the tags a snapshot holds; other tags keep theirs.
RefreshedLimits(old, f) == [t \in Tags |-> IF t \in Present(f) THEN Limit[t] ELSE old[t]]

\* The capture reads the caps once before it starts (main.go).
Init ==
    /\ setup \in Setups
    /\ entry \in [Keys -> {"absent", "active"}] /\ setOps = 0 /\ errors = 0
    /\ limits = RefreshedLimits([t \in Tags |-> 0], entry)
    /\ attached = TRUE /\ prog = [i \in Shards |-> Idle] /\ closed = {}
    /\ ring = [i \in Shards |-> <<>>] /\ cons = [i \in Shards |-> 0]
    /\ batch = [i \in Shards |-> <<>>] /\ acked = [i \in Shards |-> 0]
    /\ rpc = [i \in Shards |-> "idle"]
    /\ own = {} /\ live = {} /\ reg = {} /\ bad = {}
    /\ file = [i \in Shards |-> {}] /\ disk = [i \in Shards |-> {}]
    /\ limited = [i \in Shards |-> {}]
    /\ bytes = [t \in Tags |-> 0] /\ capped = {}
    /\ outErr = FALSE /\ sessErr = FALSE
    /\ known = {} /\ target = [t \in Tags |-> NoTarget] /\ failedTags = {}
    /\ closing = {} /\ finalized = {} /\ merged = {}
    /\ ack = [t \in Tags |-> {}] /\ ackFile = [t \in Tags |-> "none"]
    /\ ctl = "poll" /\ cur = NoTag /\ todo = {} /\ snap = entry /\ everActive = {}
    /\ waitFor = {} /\ stoppedBy = "none"

\* An operation on files or maps may fail, as often as the bound allows.
Fault == errors < MaxErrors /\ errors' = errors + 1
NoFault == UNCHANGED errors

-----------------------------------------------------------------------------
(* bpf-ninja set add / set del, run by somebody else *)

\* An entry that is there keeps its state when it is added again.
SetAdd(k) ==
    /\ setOps < setup.ops /\ setOps' = setOps + 1
    /\ entry[k] = "absent"
    /\ entry' = [entry EXCEPT ![k] = "active"]
    /\ UNCHANGED <<limits, kernVars, readVars, fileVars, errVars, finVars, ackVars, ctlVars>>

\* An add that looked the entry up before it was parked puts it back active (SetMap).
SetAddStale(k) ==
    /\ setOps < setup.ops /\ setOps' = setOps + 1
    /\ entry[k] \in {"capped", "finalized"}
    /\ entry' = [entry EXCEPT ![k] = "active"]
    /\ UNCHANGED <<limits, kernVars, readVars, fileVars, errVars, finVars, ackVars, ctlVars>>

SetDel(k) ==
    /\ setOps < setup.ops /\ setOps' = setOps + 1
    /\ entry[k] # "absent"
    /\ entry' = [entry EXCEPT ![k] = "absent"]
    /\ UNCHANGED <<limits, kernVars, readVars, fileVars, errVars, finVars, ackVars, ctlVars>>

\* SetState: rewrite the state of the entries that carry a tag of T.  A map error
\* ends the pass over the entries.
SetState(T, st) ==
    LET carries == {k \in Keys : entry[k] # "absent" /\ TagOf[k] \in T}
        mark(K) == [k \in Keys |-> IF k \in K THEN st ELSE entry[k]]
    IN \/ entry' = mark(carries) /\ NoFault
       \/ carries # {} /\ Fault /\ \E K \in SUBSET carries : entry' = mark(K)

-----------------------------------------------------------------------------
(* BPF programs: set lookup, tombstone gate, reserve, submit *)

unchangedByProg == <<setVars, attached, closed, readVars, fileVars, errVars,
                     finVars, ackVars, ctlVars>>

\* The program on CPU i ends; a grace period no longer waits for it.
Return(i) ==
    /\ prog' = [prog EXCEPT ![i] = Idle]
    /\ waitFor' = waitFor \ {i}

Match(i, t) ==
    /\ attached /\ prog[i] = Idle /\ Len(ring[i]) < MaxRecords
    /\ t \in Active(entry)
    /\ prog' = [prog EXCEPT ![i] = [at |-> "matched", tag |-> t]]
    /\ UNCHANGED <<ring, waitFor, unchangedByProg>>

\* emitTagBarrier: a tombstone ends the program.
Gate(i) ==
    /\ prog[i].at = "matched"
    /\ IF prog[i].tag \in closed
       THEN Return(i)
       ELSE /\ prog' = [prog EXCEPT ![i].at = "passed"]
            /\ UNCHANGED waitFor
    /\ UNCHANGED <<ring, unchangedByProg>>

ReserveRecord(i) ==
    /\ prog[i].at = "passed"
    /\ ring' = [ring EXCEPT ![i] = Append(@, [tag |-> prog[i].tag, busy |-> TRUE])]
    /\ prog' = [prog EXCEPT ![i].at = "reserved"]
    /\ UNCHANGED <<waitFor, unchangedByProg>>

Submit(i) ==
    /\ prog[i].at = "reserved"
    /\ ring' = [ring EXCEPT ![i][Len(ring[i])].busy = FALSE]
    /\ Return(i)
    /\ UNCHANGED unchangedByProg

-----------------------------------------------------------------------------
(* Shard readers and writeShard *)

TagAt(i, p) == ring[i][p].tag
Goto(i, l) == rpc' = [rpc EXCEPT ![i] = l]
Head1(i) == TagAt(i, batch[i][1])

\* The same-tag run at the head of the batch.
RunLen(i) ==
    CHOOSE n \in 1 .. Len(batch[i]) :
        /\ \A k \in 1 .. n : TagAt(i, batch[i][k]) = Head1(i)
        /\ n < Len(batch[i]) => TagAt(i, batch[i][n + 1]) # Head1(i)
Run(i) == {batch[i][k] : k \in 1 .. RunLen(i)}
DropRun(i) ==
    /\ batch' = [batch EXCEPT ![i] = SubSeq(@, RunLen(i) + 1, Len(@))]
    /\ Goto(i, IF RunLen(i) = Len(batch[i]) THEN "ack" ELSE "run")

\* finalizer.mu is held for the whole of step(), its grace period included.
Locked == ctl \in {"step", "grace"}

\* stateFor: the finalizer learns of the tag.
StateFor(t) ==
    /\ t \in known \/ ~Locked
    /\ known' = known \cup {t}

Settled(i) == {p \in 1 .. Len(ring[i]) : \A q \in 1 .. p : ~ring[i][q].busy}

Take(i) ==
    /\ rpc[i] = "idle"
    /\ \E p \in Settled(i) :
          /\ p > cons[i]
          /\ batch' = [batch EXCEPT ![i] = [k \in 1 .. p - cons[i] |-> cons[i] + k]]
          /\ cons' = [cons EXCEPT ![i] = p]
    /\ Goto(i, "sink")
    /\ UNCHANGED <<setVars, kernVars, acked, fileVars, errVars, finVars, ackVars, ctlVars>>

\* The sink refuses a batch once any output failed.
Sink(i) ==
    /\ rpc[i] = "sink"
    /\ IF outErr
       THEN /\ sessErr' = TRUE
            /\ batch' = [batch EXCEPT ![i] = <<>>]
            /\ Goto(i, "ack")
       ELSE /\ Goto(i, "run")
            /\ UNCHANGED <<sessErr, batch>>
    /\ UNCHANGED <<setVars, kernVars, cons, acked, fileVars, outErr, errors, finVars,
                   ackVars, ctlVars>>

\* writeShard gives up on the batch: the tag and the capture failed.
Abandon(i, t) ==
    /\ ~Locked
    /\ failedTags' = failedTags \cup {t}
    /\ outErr' = TRUE /\ sessErr' = TRUE
    /\ batch' = [batch EXCEPT ![i] = <<>>]
    /\ Goto(i, "ack")

\* Writer.Close by its shard: flushed and closed, or closed with an error that
\* the writer remembers and gives to every later Close.
CloseOK(i, t) ==
    /\ <<i, t>> \notin bad /\ UNCHANGED bad
    /\ live' = live \ {<<i, t>>} /\ own' = own \ {<<i, t>>}
    /\ disk' = [disk EXCEPT ![i] = @ \cup {p \in file[i] : TagAt(i, p) = t}]
CloseFails(i, t) ==
    /\ IF <<i, t>> \in bad THEN NoFault ELSE Fault
    /\ bad' = bad \cup {<<i, t>>}
    /\ live' = live \ {<<i, t>>}
    /\ UNCHANGED <<own, disk>>

\* Records of a finalized or capped tag are dropped.  The writer of a finalized
\* tag is the finalizer's and is forgotten; that of a capped one is closed.
RunDropped(i) ==
    /\ rpc[i] = "run" /\ Head1(i) \in finalized \cup capped
    /\ limited' = [limited EXCEPT ![i] = @ \cup Run(i)]
    /\ LET t == Head1(i)
           closes == t \notin finalized /\ <<i, t>> \in own
       IN \/ /\ ~closes
             /\ DropRun(i)
             /\ own' = own \ {<<i, t>>}
             /\ UNCHANGED <<live, disk, bad, errVars, failedTags>>
          \/ /\ closes
             /\ CloseOK(i, t)
             /\ Goto(i, "dereg")
             /\ UNCHANGED <<batch, errVars, failedTags>>
          \/ /\ closes
             /\ CloseFails(i, t)
             /\ Abandon(i, t)
    /\ UNCHANGED <<setVars, kernVars, cons, acked, file, bytes, capped, reg, known,
                   target, closing, finalized, merged, ackVars, ctlVars>>

\* Mutant: a capped tag's writer is opened again.
RunOpenCapped(i) ==
    /\ rpc[i] = "run" /\ Head1(i) \notin finalized
    /\ StateFor(Head1(i))
    /\ LET t == Head1(i) IN
       /\ file' = [file EXCEPT ![i] = IF <<i, t>> \in own THEN @ ELSE {p \in @ : TagAt(i, p) # t}]
       /\ disk' = [disk EXCEPT ![i] = IF <<i, t>> \in own THEN @ ELSE {p \in @ : TagAt(i, p) # t}]
       /\ own' = own \cup {<<i, t>>} /\ live' = live \cup {<<i, t>>}
       /\ Goto(i, IF <<i, t>> \in own THEN "write" ELSE "register")
    /\ UNCHANGED <<setVars, kernVars, cons, batch, acked, bad, limited, bytes, capped,
                   errVars, reg, target, failedTags, closing, finalized, merged,
                   ackVars, ctlVars>>

\* The run is to be written: the writer is opened (truncating its file) if the
\* shard has none.
RunOpen(i) ==
    /\ rpc[i] = "run"
    /\ Head1(i) \notin finalized /\ Head1(i) \notin capped
    /\ StateFor(Head1(i))
    /\ LET t == Head1(i) IN
       \/ /\ <<i, t>> \in own
          /\ Goto(i, "write")
          /\ UNCHANGED <<batch, own, live, file, disk, errVars, failedTags>>
       \/ /\ <<i, t>> \notin own
          /\ NoFault
          /\ file' = [file EXCEPT ![i] = {p \in @ : TagAt(i, p) # t}]
          /\ disk' = [disk EXCEPT ![i] = {p \in @ : TagAt(i, p) # t}]
          /\ own' = own \cup {<<i, t>>} /\ live' = live \cup {<<i, t>>}
          /\ Goto(i, "register")
          /\ UNCHANGED <<batch, outErr, sessErr, failedTags>>
       \/ /\ <<i, t>> \notin own
          /\ Fault
          /\ Abandon(i, t)
          /\ UNCHANGED <<own, live, file, disk>>
    /\ UNCHANGED <<setVars, kernVars, cons, acked, bad, limited, bytes, capped, reg,
                   target, closing, finalized, merged, ackVars, ctlVars>>

\* register: the finalizer learns of the writer.
Register(i) ==
    /\ rpc[i] = "register" /\ ~Locked
    /\ reg' = reg \cup {<<i, Head1(i)>>}
    /\ Goto(i, "write")
    /\ UNCHANGED <<setVars, kernVars, cons, batch, acked, fileVars, errVars, known, target,
                   failedTags, closing, finalized, merged, ackVars, ctlVars>>

\* WriteBatch; a closed or failed writer refuses.
Write(i) ==
    /\ rpc[i] = "write"
    /\ LET w == <<i, Head1(i)>> IN
       \/ /\ w \in live /\ w \notin bad
          /\ file' = [file EXCEPT ![i] = @ \cup Run(i)]
          /\ Goto(i, "count")
          /\ UNCHANGED <<batch, bad, errVars, failedTags>>
       \/ /\ IF w \in live /\ w \notin bad THEN Fault ELSE NoFault
          /\ bad' = bad \cup {w}
          /\ Abandon(i, Head1(i))
          /\ UNCHANGED file
    /\ UNCHANGED <<setVars, kernVars, cons, acked, own, live, disk, limited,
                   bytes, capped, reg, known, target, closing, finalized, merged,
                   ackVars, ctlVars>>

\* addTag: the shard that reaches the cap closes its writer.
Count(i) ==
    /\ rpc[i] = "count"
    /\ LET t == Head1(i)
           total == bytes[t] + RunLen(i)
           caps == limits[t] > 0 /\ total >= limits[t] /\ t \notin capped
       IN /\ bytes' = [bytes EXCEPT ![t] = total]
          /\ \/ /\ ~caps
                /\ DropRun(i)
                /\ UNCHANGED <<own, live, disk, bad, capped, errVars, failedTags>>
             \/ /\ caps
                /\ capped' = capped \cup {t}
                /\ CloseOK(i, t)
                /\ Goto(i, "dereg")
                /\ UNCHANGED <<batch, errVars, failedTags>>
             \/ /\ caps
                /\ capped' = capped \cup {t}
                /\ CloseFails(i, t)
                /\ Abandon(i, t)
    /\ UNCHANGED <<setVars, kernVars, cons, acked, file, limited, reg, known, target,
                   closing, finalized, merged, ackVars, ctlVars>>

Deregister(i) ==
    /\ rpc[i] = "dereg" /\ ~Locked
    /\ reg' = reg \ {<<i, Head1(i)>>}
    /\ DropRun(i)
    /\ UNCHANGED <<setVars, kernVars, cons, acked, fileVars, errVars, known, target,
                   failedTags, closing, finalized, merged, ackVars, ctlVars>>

Acknowledge(i) ==
    /\ rpc[i] = "ack"
    /\ acked' = [acked EXCEPT ![i] = cons[i]]
    /\ Goto(i, "idle")
    /\ UNCHANGED <<setVars, kernVars, cons, batch, fileVars, errVars, finVars,
                   ackVars, ctlVars>>

\* The writer's periodic flush fails between batches: remembered by the writer
\* and reported to the coordinator.
FlushFails(w) ==
    /\ w \in live /\ w \notin bad
    /\ Fault
    /\ bad' = bad \cup {w}
    /\ outErr' = TRUE
    /\ UNCHANGED <<setVars, kernVars, readVars, own, live, file, disk, limited,
                   bytes, capped, sessErr, finVars, ackVars, ctlVars>>

-----------------------------------------------------------------------------
(* capLifecycle.tick and tagFinalizer *)

Failed == failedTags # {}
unchangedByCtl == <<attached, prog, ring, readVars, bytes, capped, limited, sessErr>>

\* The poll loop's select found no failure; a tick is due.
PollCheck ==
    /\ ctl = "poll" /\ ~outErr /\ ~sessErr
    /\ ctl' = "tick"
    /\ UNCHANGED <<setVars, kernVars, readVars, fileVars, errVars, finVars, ackVars,
                   cur, todo, snap, everActive, stoppedBy>>

\* A tag has failed: the tick ends the capture.
TickFailed ==
    /\ ctl = "tick" /\ Failed
    /\ ctl' = "quiesce" /\ stoppedBy' = "error"
    /\ UNCHANGED <<setVars, kernVars, readVars, fileVars, errVars, finVars, ackVars,
                   cur, todo, snap, everActive>>

\* The entries cannot be read: the cycle is skipped.
TickUnread ==
    /\ ctl = "tick" /\ ~Failed
    /\ Fault
    /\ ctl' = "poll"
    /\ UNCHANGED <<setVars, kernVars, readVars, fileVars, outErr, sessErr, finVars,
                   ackVars, cur, todo, snap, everActive, stoppedBy>>

\* The snapshot of the entries: the caps it holds come into force.
Snapshot ==
    /\ ctl = "tick" /\ ~Failed
    /\ snap' = entry
    /\ limits' = RefreshedLimits(limits, entry)
    /\ everActive' = everActive \cup Active(entry)
    /\ ctl' = "park"
    /\ UNCHANGED <<entry, setOps, kernVars, readVars, fileVars, errVars, finVars, ackVars,
                   cur, todo, stoppedBy>>

unchangedByPark == <<setOps, limits, kernVars, readVars, fileVars, outErr, sessErr, reg,
                     target, failedTags, closing, finalized, merged, ackVars, cur, snap,
                     everActive, stoppedBy>>

\* Mutant: capped tags are not parked.
ParkNothing ==
    /\ ctl = "park"
    /\ known' = known \cup Active(snap)
    /\ todo' = known'
    /\ ctl' = "step"
    /\ UNCHANGED <<entry, errors, unchangedByPark>>

\* Park the capped tags that were active in the snapshot, whatever became of their
\* entries since, and enter step().
Park ==
    /\ ctl = "park"
    /\ SetState(capped \cap Active(snap), "capped")
    /\ known' = known \cup Active(snap)
    /\ todo' = known'
    /\ ctl' = "step"
    /\ UNCHANGED unchangedByPark

unchangedByStep == <<setVars, own, live, file, disk, bad, unchangedByCtl, outErr, reg, known,
                     merged, ackVars, snap, everActive, stoppedBy>>

Pending(t) == target[t] # NoTarget
Skipped(t) ==
    \/ t \in finalized \cup failedTags
    \/ ~Pending(t) /\ t \in Active(snap)

StepSkip(t) ==
    /\ ctl = "step" /\ t \in todo /\ Skipped(t)
    /\ todo' = todo \ {t}
    /\ UNCHANGED <<errors, closed, waitFor, target, failedTags, closing, finalized, ctl,
                   cur, unchangedByStep>>

\* begin: Probe.BlockTag writes the tombstone and starts a grace period.
StepBegin(t) ==
    /\ ctl = "step" /\ t \in todo /\ ~Skipped(t) /\ ~Pending(t)
    /\ closed' = closed \cup {t}
    /\ waitFor' = {i \in Shards : prog[i] # Idle}
    /\ cur' = t /\ ctl' = "grace"
    /\ UNCHANGED <<errors, target, failedTags, closing, finalized, todo, unchangedByStep>>

\* The tombstone could not be written, or the grace period not awaited.
StepBeginFails(t) ==
    /\ ctl = "step" /\ t \in todo /\ ~Skipped(t) /\ ~Pending(t)
    /\ Fault
    /\ closed' \in {closed, closed \cup {t}}
    /\ failedTags' = failedTags \cup {t}
    /\ todo' = todo \ {t}
    /\ UNCHANGED <<waitFor, target, closing, finalized, ctl, cur, unchangedByStep>>

\* After the grace period: shardSession.Barrier snapshots the producer positions.
StepBarrier ==
    /\ ctl = "grace" /\ waitFor = {}
    /\ target' = [target EXCEPT ![cur] = [i \in Shards |-> Len(ring[i])]]
    /\ cur' = NoTag /\ ctl' = "step"
    /\ UNCHANGED <<errors, closed, waitFor, failedTags, closing, finalized, todo,
                   unchangedByStep>>

\* poll: a session error is terminal; all positions acknowledged raise the stop sign.
StepPoll(t) ==
    /\ ctl = "step" /\ t \in todo /\ ~Skipped(t) /\ Pending(t)
    /\ \/ /\ sessErr
          /\ failedTags' = failedTags \cup {t}
          /\ UNCHANGED <<target, closing, finalized>>
       \/ /\ ~sessErr /\ \A i \in Shards : acked[i] >= target[t][i]
          /\ finalized' = finalized \cup {t} /\ closing' = closing \cup {t}
          /\ target' = [target EXCEPT ![t] = NoTarget]
          /\ UNCHANGED failedTags
       \/ /\ ~sessErr /\ \E i \in Shards : acked[i] < target[t][i]
          /\ UNCHANGED <<target, failedTags, closing, finalized>>
    /\ todo' = todo \ {t}
    /\ UNCHANGED <<errors, closed, waitFor, ctl, cur, unchangedByStep>>

StepEnd ==
    /\ ctl = "step" /\ todo = {}
    /\ todo' = closing \ failedTags
    /\ ctl' = "finalize"
    /\ UNCHANGED <<errors, closed, waitFor, target, failedTags, closing, finalized, cur,
                   unchangedByStep>>

\* Close the writers in W, as finalize and closeAll do; failing ones fail their tag.
\* A flush that fails is also reported as an output error, a failed close is not.
Writers(t) == {w \in reg : w[2] = t}
CloseWriters(W) ==
    /\ reg' = reg \ W
    /\ live' = live \ W
    /\ \E broken \in {W \cap bad} \cup {(W \cap bad) \cup {w} : w \in W \cap live} :
          /\ IF broken \subseteq bad THEN NoFault ELSE Fault
          /\ outErr' \in {outErr, outErr \/ ~(broken \subseteq bad)}
          /\ bad' = bad \cup broken
          /\ failedTags' = failedTags \cup {w[2] : w \in broken}
          /\ disk' = [i \in Shards |-> disk[i] \cup
                        {p \in file[i] : <<i, TagAt(i, p)>> \in W \ broken}]

\* Mutant: finalize merges while the writers are open.
FinalizeCloseLater(t) ==
    /\ ctl = "finalize" /\ t \in todo /\ cur = NoTag
    /\ cur' = t
    /\ UNCHANGED <<errors, outErr, live, disk, bad, reg, failedTags>>
    /\ UNCHANGED <<setVars, closed, waitFor, own, file, unchangedByCtl, known, target,
                   closing, finalized, merged, ackVars, ctl, todo, snap, everActive,
                   stoppedBy>>

\* finalize, first half: take the tag's writers from the registry and close them.
FinalizeClose(t) ==
    /\ ctl = "finalize" /\ t \in todo /\ cur = NoTag
    /\ IF t \in failedTags
       THEN /\ todo' = todo \ {t}
            /\ UNCHANGED <<reg, live, bad, failedTags, disk, errors, outErr, cur>>
       ELSE /\ CloseWriters(Writers(t))
            /\ IF t \in failedTags' THEN todo' = todo \ {t} /\ UNCHANGED cur
               ELSE cur' = t /\ UNCHANGED todo
    /\ UNCHANGED <<setVars, closed, waitFor, own, file, unchangedByCtl, known, target,
                   closing, finalized, merged, ackVars, ctl, snap, everActive, stoppedBy>>

\* What a merge of the tag's shard files contains.
OnDisk(t) == UNION {{<<i, p>> : p \in {q \in disk[i] : TagAt(i, q) = t}} : i \in Shards}

\* Mutant: a failed merge is not retried.
FinalizeMergeOnce ==
    /\ ctl = "finalize" /\ cur # NoTag
    /\ todo' = todo \ {cur} /\ cur' = NoTag
    /\ \/ /\ ack' = [ack EXCEPT ![cur] = OnDisk(cur)]
          /\ ackFile' = [ackFile EXCEPT ![cur] = "there"]
          /\ merged' = IF cur \in failedTags THEN merged ELSE merged \cup {cur}
          /\ closing' = IF cur \in failedTags THEN closing ELSE closing \ {cur}
          /\ SetState({cur}, "finalized")
       \/ /\ Fault /\ closing' = closing \ {cur}
          /\ UNCHANGED <<ackVars, merged, entry>>
    /\ UNCHANGED <<setOps, limits, closed, waitFor, own, live, file, disk, bad,
                   unchangedByCtl, outErr, reg, known, target, failedTags, finalized, ctl, snap, everActive,
                   stoppedBy>>

\* Second half: merge and mark, then SetState(finalized); a failed merge is
\* retried at a later tick.
FinalizeMerge ==
    /\ ctl = "finalize" /\ cur # NoTag
    /\ todo' = todo \ {cur} /\ cur' = NoTag
    /\ \/ /\ ack' = [ack EXCEPT ![cur] = OnDisk(cur)]
          /\ ackFile' = [ackFile EXCEPT ![cur] = "there"]
          /\ merged' = IF cur \in failedTags THEN merged ELSE merged \cup {cur}
          /\ closing' = IF cur \in failedTags THEN closing ELSE closing \ {cur}
          /\ SetState({cur}, "finalized")
       \/ Fault /\ UNCHANGED <<ackVars, merged, closing, entry>>
    /\ UNCHANGED <<setOps, limits, closed, waitFor, own, live, file, disk, bad,
                   unchangedByCtl, outErr, reg, known, target, failedTags, finalized, ctl, snap, everActive,
                   stoppedBy>>

ExitReady ==
    LET participating == {t \in Present(snap) : Limit[t] > 0} IN
    /\ participating # {}
    /\ \A t \in participating :
           t \notin Active(snap) /\ (t \in everActive => t \in merged)

TickEnd ==
    /\ ctl = "finalize" /\ todo = {}
    /\ LET why == IF Failed THEN "error"
                  ELSE IF ExitWhenCapped /\ ExitReady THEN "capped" ELSE "none"
       IN /\ stoppedBy' = why
          /\ ctl' = IF why = "none" THEN "poll" ELSE "quiesce"
    /\ UNCHANGED <<setVars, errors, closed, waitFor, own, live, file, disk, bad,
                   unchangedByCtl, outErr, finVars, ackVars, cur, todo, snap, everActive>>

-----------------------------------------------------------------------------
(* Shutdown: pumpShards' done label, closeAll, the final merge *)

Stop ==
    /\ ctl = "poll"
    /\ stoppedBy' = IF outErr \/ sessErr THEN "error" ELSE "signal"
    /\ ctl' = "quiesce"
    /\ UNCHANGED <<setVars, kernVars, readVars, fileVars, errVars, finVars, ackVars,
                   cur, todo, snap, everActive>>

Quiesce ==
    /\ ctl = "quiesce"
    /\ attached' = FALSE /\ ctl' = "drain"
    /\ UNCHANGED <<setVars, prog, closed, ring, waitFor, readVars, fileVars, errVars,
                   finVars, ackVars, cur, todo, snap, everActive, stoppedBy>>

\* The programs have ended, and the readers drained the rings and were joined.
Drained ==
    /\ ctl = "drain"
    /\ \A i \in Shards : prog[i] = Idle /\ rpc[i] = "idle" /\ cons[i] = Len(ring[i])
    /\ ctl' = "closeall"
    /\ UNCHANGED <<setVars, kernVars, readVars, fileVars, errVars, finVars, ackVars,
                   cur, todo, snap, everActive, stoppedBy>>

CloseAll ==
    /\ ctl = "closeall"
    /\ CloseWriters(reg)
    /\ ctl' = "merge"
    /\ UNCHANGED <<setVars, closed, waitFor, own, file, unchangedByCtl, known, target,
                   closing, finalized, merged, ackVars, cur, todo, snap, everActive,
                   stoppedBy>>

\* Mutants: every tag is merged at the end; every finalized tag is skipped.
FinalMergeOf(rest) ==
    /\ ctl = "merge"
    /\ IF Failed \/ outErr \/ sessErr THEN UNCHANGED ackVars
       ELSE /\ ack' = [t \in Tags |-> IF t \in rest THEN OnDisk(t) ELSE ack[t]]
            /\ ackFile' = [t \in Tags |-> IF t \in rest THEN "there" ELSE ackFile[t]]
    /\ ctl' = "done"
    /\ UNCHANGED <<setVars, kernVars, readVars, fileVars, errVars, finVars, cur, todo,
                   snap, everActive, stoppedBy>>
FinalMergeAll == FinalMergeOf({t \in Tags : OnDisk(t) # {}})
FinalMergeUnfinalized == FinalMergeOf({t \in Tags \ finalized : OnDisk(t) # {}})

\* MergeTagShards over the tags that have files, except those acknowledged; not
\* reached after a failure.
FinalMerge ==
    /\ ctl = "merge"
    /\ LET rest == {t \in Tags \ merged : OnDisk(t) # {}} IN
       \/ /\ ~Failed /\ ~outErr /\ ~sessErr
          /\ ack' = [t \in Tags |-> IF t \in rest THEN OnDisk(t) ELSE ack[t]]
          /\ ackFile' = [t \in Tags |-> IF t \in rest THEN "there" ELSE ackFile[t]]
          /\ UNCHANGED errVars
       \/ /\ ~Failed /\ ~outErr /\ ~sessErr
          /\ Fault /\ outErr' = TRUE
          /\ UNCHANGED <<ackVars, sessErr>>
       \/ /\ Failed \/ outErr \/ sessErr
          /\ UNCHANGED <<ackVars, errVars>>
    /\ ctl' = "done"
    /\ UNCHANGED <<setVars, kernVars, readVars, fileVars, finVars, cur, todo, snap,
                   everActive, stoppedBy>>

\* The collector takes a merged file away.
Collect(t) ==
    /\ ackFile[t] = "there"
    /\ ackFile' = [ackFile EXCEPT ![t] = "taken"]
    /\ UNCHANGED <<setVars, kernVars, readVars, fileVars, errVars, finVars, ack, ctlVars>>

Program(i) == Gate(i) \/ ReserveRecord(i) \/ Submit(i)
Reader(i) ==
    \/ Take(i) \/ Sink(i) \/ RunDropped(i) \/ RunOpen(i)
    \/ Register(i) \/ Write(i) \/ Count(i) \/ Deregister(i) \/ Acknowledge(i)
Step(t) == StepSkip(t) \/ StepBegin(t) \/ StepBeginFails(t) \/ StepPoll(t)
Control ==
    \/ PollCheck \/ TickFailed \/ TickUnread \/ Snapshot \/ Park
    \/ (\E t \in Tags : Step(t)) \/ StepBarrier \/ StepEnd
    \/ (\E t \in Tags : FinalizeClose(t)) \/ FinalizeMerge \/ TickEnd
    \/ Quiesce \/ Drained \/ CloseAll \/ FinalMerge
Environment ==
    \/ \E k \in Keys : SetAdd(k) \/ SetAddStale(k) \/ SetDel(k)
    \/ \E t \in Tags : Collect(t)
    \/ \E i \in Shards, t \in Tags : Match(i, t) \/ FlushFails(<<i, t>>)

Steps ==
    \/ Environment
    \/ \E i \in Shards : Program(i) \/ Reader(i)
    \/ Control
    \/ Stop

Next == Steps /\ UNCHANGED setup

Spec == Init /\ [][Next]_vars

\* Programs run to completion; shard goroutines and the poll loop keep being
\* scheduled, and a shard that waits for finalizer.mu gets it: the loop holds it
\* once a second, and sync.Mutex hands itself to a waiter (hence SF).  Nobody has
\* to add entries, send traffic or stop the capture.
Fairness ==
    /\ \A i \in UNION {s.shards : s \in Setups} :
          /\ WF_vars(i \in Shards /\ Program(i) /\ UNCHANGED setup)
          /\ SF_vars(i \in Shards /\ Reader(i) /\ UNCHANGED setup)
    /\ WF_vars(Control /\ UNCHANGED setup)
    /\ WF_vars(Stop /\ (outErr \/ sessErr) /\ UNCHANGED setup)

FairSpec == Spec /\ Fairness

-----------------------------------------------------------------------------
(* Properties *)

\* The state of the capture keeps its types.
TypeOK ==
    /\ entry \in [Keys -> {"absent", "active", "capped", "finalized"}]
    /\ closed \subseteq Tags /\ known \subseteq Tags
    /\ waitFor \subseteq Shards
    /\ \A i \in Shards :
           /\ prog[i].at \in {"idle", "matched", "passed", "reserved"}
           /\ acked[i] \in 0 .. cons[i] /\ cons[i] \in 0 .. Len(ring[i])
           /\ disk[i] \subseteq file[i] /\ file[i] \subseteq 1 .. cons[i]
    /\ live \subseteq Shards \X Tags /\ own \cup reg \cup bad \subseteq Shards \X Tags
    /\ merged \subseteq finalized /\ closing \subseteq finalized

Errors == Failed \/ outErr \/ sessErr
Submitted(i) == {p \in 1 .. Len(ring[i]) : ~ring[i][p].busy}

\* The ack is the whole truth: a merged tag's file holds every record of the tag
\* that any CPU exported or will ever export, save those its byte cap dropped.
AckComplete ==
    \A t \in merged : \A i \in Shards : \A p \in 1 .. Len(ring[i]) :
        TagAt(i, p) = t =>
            <<i, p>> \in ack[t] \/ (p \in limited[i] /\ t \in capped)

\* Once the stop sign is up nothing of the tag is under way: no program is past
\* the gate with it and every record of it is acknowledged, so that closing the
\* writers races no shard (BlockTag before the watermark, tag_barrier.go:21-23).
FinalizedIsQuiet ==
    \A t \in finalized : \A i \in Shards :
        /\ prog[i].tag = t => prog[i].at = "matched"
        /\ \A p \in 1 .. Len(ring[i]) : TagAt(i, p) = t => p <= acked[i]

\* A shard never reopens, and so never truncates, a tag's file (main.go:1357-1359).
NeverTruncated == [][\A i \in Shards : file[i] \subseteq file'[i]]_vars

\* A published file is final: not rewritten, and not made again after the collector
\* took it, by the retry, a re-added entry or the shutdown merge (finalize.go:216-218).
AckFinal ==
    [][\A t \in Tags : ackFile[t] # "none" =>
          /\ ack'[t] = ack[t]
          /\ ackFile[t] = "taken" => ackFile'[t] = "taken"]_vars

\* A tag whose output failed is never acknowledged (tagFinalizer.failed).
FailedNeverAcked ==
    \A t \in failedTags : ackFile[t] = "none" /\ t \notin merged

\* What an acknowledgement vouches for, with what makes it safe to give: the tag is quiet
\* before its writers are closed, nothing of it is missing, and none of it failed
\* (tagFinalizer.finalize, lifecycle.step, BlockTag).
AckSound == FinalizedIsQuiet /\ AckComplete /\ FailedNeverAcked

\* A capture that ends without an error leaves every exported record in its tag's
\* merged file, save those a byte cap dropped.
ShutdownComplete ==
    ctl = "done" /\ ~Errors =>
        \A i \in Shards : \A p \in Submitted(i) :
            <<i, p>> \in ack[TagAt(i, p)] \/ (p \in limited[i] /\ TagAt(i, p) \in capped)

\* A tag that lost its active entries is acknowledged in the end, unless one
\* comes back before its tombstone is written or the capture ends.
RemovalAcked ==
    \A t \in Tags :
        /\ (t \in known \ Active(entry))
               ~> (t \in closed \cup Active(entry) \/ ctl = "done")
        /\ (t \in closed) ~> (ackFile[t] # "none" \/ ctl = "done")

\* --exit-when-capped ends the capture once every tag reached its cap, whatever
\* re-adds happened, unless a tag lost all its entries.
CappedExits ==
    (Tags \subseteq capped) ~> (ctl = "done" \/ ~(Tags \subseteq Present(entry)))

=============================================================================
