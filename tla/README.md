# TLA+ models of bpf-ninja

bpf-ninja captures packets at BPF hooks and observes BPF programs while they run. A probe
(fentry, fexit or XDP program) filters packets and exports them through one ring buffer
per CPU; a reader goroutine per ring feeds a writer; pinned *set maps* select packets by key
and give each a *tag*, and a tag-split capture writes one file per tag. The filter is written
in a small language, Kunai, and compiled to BPF. `inject-run` starts a program under ptrace,
intercepts its program loads, and loads instead a rewritten program that calls hooks around
its map helpers.

This directory models those parts in TLA+, checks the models with TLC on small instances,
and proves the central facts about five of them with TLAPS for every instance.
`PROJECT.json` lists the parts with what is left out of each, the source lines every
definition stands for, the hazards of the code with the properties that cover them, the
findings, and one mutation per property that makes TLC report it.

## Parts and modules

| Part | Source | Module | Run |
| --- | --- | --- | --- |
| Gated capture, attach and quiesce | `internal/program/gated.go`, `program.go`, `export_stats.go` | `GatedHold` | `kernel_programs`, `gated_detach` |
| Shard readers, stop, barrier, report | `internal/capture`, `cmd/bpf-ninja/accounting.go` | `CaptureSession` | `capture_session` |
| Tag finalizer, lifecycle tick, tag-split writing | `cmd/bpf-ninja/{finalize,lifecycle,main,bytecap}.go`, `tag_barrier.go` | `TagFinalize` | `tag_finalize`, `tag_live` |
| Set commands and the capture's tick | `internal/setmap/ops.go` | `SetMap`, `SetStore` | `set_map` |
| `--count`, `--max-bytes`, single-file and raw loops | `cmd/bpf-ninja/main.go`, `accounting.go` | `OutputLimits` | `capture_limits` |
| Ring wakeups and sizing | `internal/program`, `fastrb/reader.go` | `RingWake` | `capture_limits` |
| ptrace wait loop | `pkg/syscallhook/run_linux_amd64.go` | `TraceRun` | `trace_run` |
| Intercepted BTF and program loads | `pkg/syscallhook/run_linux_amd64.go` | `InjectLoad` | `kernel_programs` |
| Which map calls are hooked | `pkg/inject/lookup.go`, `validation.go` | `LookupPlan` | `kernel_programs` |
| Splicing hooks around map calls | `pkg/inject/lookup.go` | `LookupSplice` | `kernel_programs` |
| Splicing a hook after one load | `pkg/inject/inject.go`, `injectcheck/effects.go` | `SiteSplice` | `kernel_programs` |
| Checker of rewritten programs | `pkg/injectcheck` | `InjectCheck` | `filter_code` |
| Stack limits and frame depths | `pkg/inject/stackdepth.go`, `stackframe.go`, `tailcall_guard.go` | `StackLimits`, `StackFrame` | `inject_analyses` |
| Context flow | `internal/ctxflow` | `CtxFlow`, `CtxProve`, `ArgReads` | `inject_analyses` |
| Arguments of a map call | `pkg/inject/readonly.go`, `lookup.go` | `SiteArgs` | `inject_analyses` |
| Kunai parser | `pkg/kunai/parser` | `WhereParser`, `FilterParser` | `filter_language` |
| Kunai resolver, layer chains | `pkg/kunai/resolve`, `ir`, `codegen` | `KunaiChain` | `filter_language` |
| Set schemas and keys | `internal/setmap`, `internal/program/setslots.go` | `SetLayout`, `SetSchema`, `SetKeys` | `filter_language` |
| Kunai code for where clauses | `pkg/kunai/codegen/where*.go`, `predicate.go`, `codegen.go` | `WhereCode`, `LiteralCode`, `WhereArith`, `FieldWindow` | `filter_code` |

How they meet. A probe writes to the rings `CaptureSession` reads. `TagFinalize` composes set
entries, programs, readers, writers and the finalizer; of the readers it keeps what
`CaptureSession` shows of them (take, sink, acknowledge), and of the set the states an entry
goes through; the map operations behind them are in `SetMap`. `InjectCheck` extends
`LookupSplice` and checks what that emits. `StackFrame` and `StackLimits` justify the
slots `LookupPlan` grants, `CtxFlow` and `CtxProve` the contexts the spliced code reads.
`InjectLoad` is what `TraceRun` does at the stop of a BPF call.

### Capture

**GatedHold.** The fentry numbers every invocation of the target on its CPU, takes the next
*depth*, and on a filter match parks the packet in the hold slot of that depth. The fexit
gives the depth back, consumes the hold, and emits records if the hold carries its own
number and frame. A trampoline rewrite (any attachment to the target) makes invocations in
the old image skip their fexit, which leaves holds and depths behind; a depth older than a
jiffy is restarted. `stack` and `top` are the invocations live on the CPU; `depth`,
`nextInv`, `age`, `enterI`, `hold` are the header and slots of `gated.go`; the four
`hold...` counters those of `export_stats.go`; `decided`, `faulted`, `emitted` are history.
`EnterMiss`, `EnterOverflow`, `EnterHold` are the ways through the fentry, `ExitEmpty`,
`ExitFault`, `ExitUnpaired`, `ExitPaired` those through the fexit; `AttachFentry`,
`QuiesceStop` to `QuiesceDone` the life of the probe. Each half runs with bottom halves off
and is one action. CPUs share only the stop flag and the links, so one is modelled.

**CaptureSession.** A ring is the sequence of records reserved in it; each is busy until it
is committed as good, malformed or discarded, in any order. A setup chooses the mmap reader
(`Top`, `Wait`, `Load`, `Walk`, `Publish`) or the library reader (`Take`, `TakeEnd`), and the
batching or the raw sink; both readers end a pass with `Flush` and `Acknowledge`.
`StopSnapshot`, `StopClose`, `StopReturn` are `shardSession.stop`. The report calls a capture
complete when nothing failed and the counters agree (`ReportedComplete`, `CountersAgree`).

**TagFinalize.** With `--finalize-on-del`, removing a tag's last active entry makes the running
capture write a tombstone, wait for programs past the gate, wait until every reader
acknowledged what was produced by then, close the tag's writers and merge its files. The
merged file is the acknowledgement a collector waits for. The tick takes a snapshot of the
entries and refreshes the caps (`Snapshot`), then parks capped tags (`Park`), and decides
from the snapshot; entries change in between. Every file, flush, merge and map operation
may fail. Positions are record indices and bytes are records; an entry keeps its tag and
its cap; tag 0 is never finalized and is left out.

**SetMap, SetStore.** `set add`, `del` and `resize` are processes that open the pinned map
and perform one map operation per step; a resize fills a map under a temporary pin and
renames it; any command may be killed. The tick of a capture reads each entry of the map it
opened and puts it back parked. `SetStore` is the promise: a map on which each of these is
one step.

**OutputLimits, RingWake.** Shards claim the `--count` budget by compare-and-swap, test and
feed the `--max-bytes` total around a write, and a coordinator polls limits, readers and
the first failure. A program queries its ring's backlog, computes the submit flag, reserves
and submits, with another program of the CPU and the reader in between.

### inject-run

**TraceRun** is the wait loop against the kernel's tasks, which clone, exec, exit and are
killed while an earlier stop is handled: `threads`, `procs` and `pending` are the
supervisor's tables, `task` is the kernel's side. **InjectLoad** is one intercepted load:
remember a BTF object, choose a rule, trial load for the stack floors, transform, check,
load, repeat for diagnosis, fall back or refuse. Each remote call may fail with an errno or
lose the stop; closing the trial program may fail and leave it open, and the load then goes
on without floors.

**LookupPlan** runs the stages of a request (select, fit, tail calls, names, guard, limits)
on a program and, in lockstep, on the program without the newer kinds of site.
**LookupSplice** and **SiteSplice** run the rewritten program beside the original: alone
through inserted code, together on an original instruction, with the same helper results
and branch outcomes. **InjectCheck** does the same for whatever the checker accepts, the
rewriter's output and that output with one instruction changed, dropped, doubled or
swapped. The analyses (**StackLimits**, **StackFrame**, **CtxFlow**, **CtxProve**,
**ArgReads**, **SiteArgs**) are computed as the code computes them, by worklist or walk; the
program is then executed one instruction a step, on every path, and each claim compared
with what is there. The kernel's side (its stack walk, helper effects) is modelled from
what those files say of it and marked external.

### Kunai

The parsers are compared with the grammar over every token sequence up to a length.
**KunaiChain** compiles a chain of layers and runs the program on every packet of up to six
words; the reference is the language's executable semantics
(`spec/lean/Kunai/Eval/Layer.lean`). **WhereCode**, **LiteralCode**, **WhereArith** and
**FieldWindow** each compile one kind of expression to instructions and execute them; the
reference is the value of the expression. Widths are scaled (two-bit bytes in
`LiteralCode`, four-bit words in `WhereArith`) so that every boundary is met; `FieldWindow`
keeps packet bits symbolic instead.

**SetLayout** lays out keys and values, **SetSchema** writes the layout to the map's BTF and
reads it back, **SetKeys** builds the key a program looks up from packet fields or arguments
and compares it with the key `set add` writes.

## Runs

`tlc -config X.cfg M`. A run whose module composes several components lets one of them run
(`part`) while the others rest; they share no state there.

| Run | Module, cfg | Properties |
| --- | --- | --- |
| `kernel_programs` | `MCKernelPrograms` | `PairsOnlyOwn`: a fexit whose own fentry ran pairs its own hold only. `ReportComplete`: after `Quiesce` decisions and reported losses are all the holds written. `UndisturbedLosesNothing`. `PacketIdJoins`: an id joins the images of one invocation. `RunsTheOriginal`, `HooksSeeTheirCalls`: a rewritten program executes the original, and hooks get exactly the observed calls. `PlanSound`: every site is accounted for, what is hooked fits and is named apart. `LoadSound`: the fail-open or fail-closed policy is kept, the rewrite is of the BTF the load names, nothing of the supervisor's is left but a trial program whose close failed |
| `capture_session` | `MCCaptureSession` | `InOrderOnce`, `AckVouches` (below an acknowledged position every good record reached the sink), `StopDrains`, `ReportHonest` (a complete report means the output is complete); `StopReturns`, `BarrierCompletes` |
| `tag_finalize` | `MCTagFinalize` | `AckSound`: a tag is quiet before its writers close, its file misses nothing, a failed tag is never acknowledged. `ShutdownComplete`. `AckFinal`: a published file is not rewritten, nor made again after it was taken. `NeverTruncated` |
| `tag_live` | `MCTagFinalize`, `MCTagLive.cfg` | `RemovalAcked`, `CappedExits` |
| `set_map` | `MCSetMap` | `OverlapSafe`: overlapping commands lose no untouched entry in a resize, move no foreign map, revive no deleted entry. `ParkHeals`: a capped tag's entries end up parked. `SerialIsStore`: commands that do not overlap implement `SetStore` |
| `trace_run` | `TraceRun` | `NoForgottenStop`, `LeavesNothingRunning`, `RunEnds` |
| `capture_limits` | `MCCaptureLimits` | `LimitsHonest`, `LimitEnds`; `QuarterIsSignalled`, `EveryRecordRead` |
| `filter_language` | `MCFilterLanguage` | `ParsesTheGrammar`, `ChainSound`, `SchemaSound`, `KeysSound` |
| `filter_code` | `MCFilterCode` | `CodeDecides`, `CodeLoads`, `CheckSound` |
| `inject_analyses` | `MCInjectAnalyses` | `StackSound`, `ContextSound`, `SitesDescribed` |
| `gated_detach` | `GatedHold`, `MCGatedDetach.cfg` | expected violation of `NeverPairsAnother`, see *Findings* |
| `claims` | `MCClaims` | expected violation of `SomeStatementStands`, see *Findings* |

`OverlapSafe` speaks of the entries nobody wrote during a resize (`dirty` holds the others).
An entry added between the copy and the rename is lost, and a re-tag that falls between
`SetState`'s read and put is overwritten: that is what the commands do without a lock, and
no property promises otherwise.

### Bounds

- *GatedHold*: one hold slot, nests of two, three invocations, two frames (symmetric), one
  foreign rewrite, both images emitted. Depth two is past the slots; the invocation after a
  skipped fexit meets what it left, with either frame. Slots, nesting, invocations and
  rewrites are unbounded in the proofs.
- *CaptureSession*: rings of two places with three records, so that a ring wraps and a
  committed record lies behind a busy one, with each reader and sink; and two busy-polling
  rings of one record each. Batches of two.
- *TagFinalize*: two shards, one tag that the second record caps, one set operation; and one
  shard, two tags, two operations. Two records per ring and one error, at any operation.
  For liveness one shard, one capped tag with two entries, two operations.
- *SetMap*: two clients that start two commands between them, two keys, two tags,
  capacities one and two, one running capture; on the second map one client, three
  commands one after another, three tags and two byte caps.
- *TraceRun*: the target and two more tasks, threads or processes.
- *OutputLimits*: two shards of three records, batches of two, every mode, counts 0, 1, 3,
  totals 0, 2. *RingWake*: a ring of 16 units, records of 2 and 3, six records.
- *InjectLoad*: two fds, two BTF objects of which the cache holds one, every configuration.
- *Kunai*: where expressions of four tokens over the whole alphabet and of five to seven over parts
  of it, filters of seven or eight tokens; some 300 chains over nine protocols, packets of six words,
  chain caps of 2, 3 and 3
  where the code has 4, 8 and 32; schemas of up to three fields, three
  predicates. Literals are compared with windows equal to them and windows that differ in one byte.
- *Programs*: functions of three or four instructions over an alphabet chosen per
  analysis, or a fixed frame with a few instructions varied; call graphs of three
  functions. The cases `MCLookupSplice` builds put one or two observed helpers in
  the entry, a called function, a callback and below a chain of passing functions.

Deadlock is checked in `trace_run` and `capture_limits`. Elsewhere a bounded behaviour ends
when its inputs are used up.

### Fairness

Only what the code does unasked is fair: nothing forces traffic, set commands, signals, or
a user to stop a capture.

- *CaptureSession*: each reader goroutine's next step, the commit of a reserved record (a
  program runs to its end), and the steps of `stop` once begun. Weak fairness each.
- *TagFinalize*: programs, the control loop, and the stop that follows an error are weakly
  fair. Readers are strongly fair: one may find the finalizer's mutex held again and again,
  and `sync.Mutex` does not starve a waiter.
- *SetMap*: the tick, and each command once started. *TraceRun*: the supervisor and the
  goroutine that cancels; a task that was sent SIGKILL dies. *OutputLimits*: the poll, each shard,
  and strongly the shard's lock. *RingWake*: a program that has begun, the reader, and the
  end of its poll timeout.

## Findings

Where a comment, a document or a test says something the code does not do, the model
follows the code, and one of two runs exhibits the difference. Each entry of `findings`
quotes the statement.

`gated_detach`: `gated.go` says a fexit never pairs a hold left by another invocation.
`Quiesce` closes the fentry link first; an invocation in between has a fexit and no number of its own,
and can find a hold that an earlier rewrite left at its depth under a recycled frame.
`NeverPairsAnother` fails there, with one slot, two frames and one rewrite.
`PairsOnlyOwn`, which holds and is proved, says it of invocations whose fentry ran.

`claims`: `MCClaims` tries 17 statements one after the other, each on one input of the
component it is about, and goes on to the next when one is refuted. The counterexample is
a behaviour that refutes all of them; it contains the refutation of each.

1. `PrefixComparesTheField`: `==` with a `/0` prefix does not test that the field is there.
2. The same: a prefix is compared with a flag-gated header without testing the gate.
3. The same: `!=` with a `/32` on a dynamic entry is inverted twice.
4. `WalkCallbackLoads`: a `/0` in the callback of a walk leaves a label unreachable.
5. `NothingIsUnreachable`: so does `not all(...)` over a body that folds to true.
6. The same: so does a `/0` comparison under `not`.
7. `ClauseCompiles`: a `/0` comparison on the right of `or` is refused.
8. The same: an iterator under a Bool `==` Bool inside `any()` is never given an index.
9. `WrapsAtOperandWidth`: `tcp.dport + 1` does not wrap at 16 bits.
10. `ZeroDivisorGivesZero`: `%` by zero leaves the dividend.
11. `WindowStaysInside`: the window of a byte-aligned slice can pass the end of its entry.
12. `PreviousInstanceDecides`: `(ipv6|srv6)/udp` reads the next header through the first
    member whichever matched.
13. `ResolverRejects`: a quantified group in a group, followed by a layer, crashes the
    resolver instead of being rejected.
14. `EveryKeyByteWritten`: an `ipv6` key bound to an argument has 8 bytes nothing writes.
15. `PartialKeysRejected`: a DSL filter may bind part of a composite key.
16. `FirstHookExists`: a plan whose tail-call hooks the guard dropped can be empty.
17. `FollowsEveryChild`: a child whose parent is killed in its fork is not followed.

The inputs these concern are in the passing runs too, compiled and executed like all
others; a passing property leaves out exactly the conjunct the input breaks
(`ComparesAbsent`, `ComparesTwice`, `WalkAll`, `Overlooked` and `OddRefs` in
`MCFilterCode`, `ReadThroughFirst` and `QuantifiedMember` in `KunaiChain`,
`TailsAllDropped` in `LookupPlan`). `WrapsAtOperandWidth`, `ZeroDivisorGivesZero`,
`PartialKeysRejected`, `ArgKeyWritten` and `FollowsEveryChild` are no conjunct of a passing property: there the
reference is 64-bit arithmetic as the code's own section of the document has it, the
entries with zero in the unbound fields, the bytes a store reaches, and the tasks the
supervisor was told of.

## Proofs

Checked with `tlapm`. Each component's proofs are in a module of their own and hold for
every value of the constants its assumption admits: `GatedAssumption` (at least one slot, positive nesting bound),
`SessionAssumption` (positive ring and batch, finite sets of shards), `TraceAssumption`
(task 1 exists), `LoadAssumption` (BTF objects fit the scratch memory), `SetMapAssumption`
(finite keys and clients, a capped tag that is not 0). The bounds on invocations, records or commands
are arbitrary naturals.

| Module | Theorems | What is proved |
| --- | --- | --- |
| `GatedHoldProofs` | `TypeCorrect`, `PairingCorrect`, `AccountingCorrect`, `ReportCorrect`, `JoiningCorrect`, `UndisturbedCorrect` | `PairsOnlyOwn`, `ReportComplete`, `PacketIdJoins`, `UndisturbedLosesNothing` |
| `CaptureSessionProofs` | `TypeCorrect`, `InOrderCorrect`, `AckCorrect`, `StopCorrect`, `MonotoneCorrect` | `InOrderOnce`, `AckVouches`, `StopDrains`, and that positions only grow |
| `TraceRunProofs` | `TypeCorrect`, `StopsHandled`, `LeavesCorrect` | `NoForgottenStop`, `LeavesNothingRunning` |
| `InjectLoadProofs` | `TypeCorrect`, `LoadCorrect` | `LoadSound` |
| `SetMapProofs` | `TypeCorrect`, `OverlapCorrect`, `CapacityCorrect`, `SerialImplements` | `OverlapSafe`, that a map never exceeds its capacity, and that `Serial` commands implement `SetStore` |

**Pairing.** `PairsOnlyOwn` is not inductive: whether a hold is an invocation's own is
decided by the number recorded at its depth and by the frame, and a skipped fexit shifts
the depths. `PairingInv` adds that the numbers in use were handed out and that a fexit runs
for a numbered invocation only while the fentry is attached (`NumbersInUse`), that inner
invocations have larger numbers and the number recorded at the depth an invocation will
give back is its own or a nested one's (`DepthCovers`), and that a hold written inside a
live invocation has another frame than it (`HoldsApart`): a fexit that meets a nested
invocation's number fails the frame test. Accounting is a second invariant: every hold
written was decided, counted as lost, consumed by a faulting exit, or is still in its slot
(`HoldsAccounted`); `Quiesce` reports what is left in the slots, which closes the sum.
`IdsSpent` says a hold that can still be emitted shares its id with no other. Without a
foreign rewrite, a restarted depth or a failed stop flag (`Undisturbed`) the invocations
hold one depth each, in order, from the attach to the end of the barrier, and nothing is
lost (`NothingLost`).

**Reading.** `SessionInv` is per shard and stated around the reader's cursor: acknowledged,
published, cursor and produced positions are in that order and no record below the cursor
is busy (`Positions`); the sink and the batch in hand hold the good records below the
cursor, each once and in order, and all of them unless something failed (`Output`); what a
reader that leaves has drained (`Leaving`). Each reader step moves one boundary;
`AckVouches` and `StopDrains` follow from the conjuncts, `InOrderOnce` with two lemmas on
increasing sequences (`AppendHigher`, `ConcatHigher`).

**Tracing.** `TraceInv`: a traced task's group leader is there as long as the task
(`Leaders`), pidfds are held of leaders until they are reaped (`Held`), what may have
happened to the task whose stop is handled (`Handling`), every tracee is followed or has
not left its first stop (`Followed`), which is then still due if the supervisor knows of the task
(`Announced`), a stop that was reported is being handled (`Told`), and after the
cleanup's kill every tracee is dead and its leader in the thread map (`Reaping`).

**Loading.** `LoadInv` keeps what the supervisor holds in the stopped thread at each step
(`Holding`), what it has decided (`Decided`), what the result rests on (`Policy`), and that
a cached blob is that of its object (`Remembered`).

**Set commands.** `MapInv`: the map a resize fills is nobody else's (`Owns`) and holds what
it copied of every key nobody wrote meanwhile (`Copied`); `SetState` puts back a parked
entry (`Parking`); and which steps belong to which process (`Ticking`, `Command`). `SerialImplements`
maps `SetStore`'s map to the entries of the map at the pinned path, so the copy of a resize
is invisible until its rename; a process alone at work finds what it read, and its steps are
`SetStore` steps or stutters.

### Only model-checked

- Liveness: `StopReturns`, `BarrierCompletes`, `RemovalAcked`, `CappedExits`, `ParkHeals`,
  `RunEnds`, `LimitEnds`, `EveryRecordRead`.
- `ReportHonest`: it adds counters up over the shards, an induction over data.
- `TagFinalize` and `OutputLimits`: no proof was attempted.
- The modules that use `Bitwise` (`RingWake`, `LookupSplice`, `InjectCheck`, `WhereArith`)
  or recursive operators (the parsers, `KunaiChain`, `WhereCode` and other analyses), which
  the prover does not take.

## Not modelled

- *I/O and formats*: pcap and raw dump writers, record layouts, ELF and BTF parsing.
- *Attachment*: how targets and hooks are found, and the rollback of a failed attach.
- *Kunai*: the vocabulary of protocols, the lexer's characters, the compile driver, the
  stack planner. Overflow of a number token or of a quantifier is one abstract token.
- *Command line*, and the hand-over of the seccomp filter from the target.
- *Inside the modelled parts*: `CtxFlow` does not execute stores a function makes through
  an alias of its own frame address (`ctxflow.go:130-132`), so `ContextSound` says nothing of them.
  `SiteArgs` leaves out a devmap call whose arguments are set in another function.
  The report's further conditions (a limit reached, kernel losses) can only withhold
  "complete", so `ReportHonest` is checked without them.
  `ParkHeals` and `OverlapSafe` do not speak of a concurrent re-tag that `SetState`
  overwrites.

The components' notes in `PROJECT.json` say the same part by part.
