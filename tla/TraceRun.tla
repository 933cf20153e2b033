----------------------------- MODULE TraceRun -----------------------------
(* syscallhook.run: the ptrace wait loop of inject-run, against the kernel's    *)
(* tasks: threads and processes that clone, exec, exit and are killed while the *)
(* supervisor handles an earlier stop. With the seccomp filter (filtered) child *)
(* processes are followed until they exit; without it a traced child is         *)
(* detached. Task 1 is the target. Tids are not reused.                         *)
EXTENDS Integers, FiniteSets

CONSTANT Tids         \* tasks there can be; 1 is the target

ASSUME TraceAssumption == Tids \subseteq Nat \ {0} /\ 1 \in Tids

VARIABLES
    filtered,         \* the target took the seccomp filter
    task,             \* kernel: [st, grp, ev, msg, seen] of every tid
    threads,          \* the supervisor's thread map: tid -> [newborn, foreign]
    procs,            \* group leaders it holds a pidfd of
    pending,          \* children announced by a clone event whose first stop is due
    tracePc, want, cur,    \* where the supervisor is, the tid it waits for (0: any), the stop it handles
    cancel            \* the context: "no", "ctx" when done, "killed" after its worker killed all

sup == <<threads, procs, pending, tracePc, want, cur>>
traceVars == <<filtered, task, threads, procs, pending, tracePc, want, cur, cancel>>

pid == 1
Live == {"run", "stop"}
Tracee(t) == task[t].st \in {"run", "stop", "dead"}
NoTask == [st |-> "none", grp |-> 0, ev |-> "", msg |-> 0, seen |-> FALSE]
Stopped(t, ev, msg) == [task[t] EXCEPT !.st = "stop", !.ev = ev, !.msg = msg, !.seen = FALSE]

TraceInit ==
    /\ filtered \in BOOLEAN
    /\ task = [t \in Tids |-> IF t = pid THEN [NoTask EXCEPT !.st = "run", !.grp = pid] ELSE NoTask]
    /\ threads = [t \in {pid} |-> [newborn |-> FALSE, foreign |-> FALSE]]
    /\ procs = {pid} /\ pending = {} /\ tracePc = "wait" /\ want = 0 /\ cur = [tid |-> pid, ev |-> ""]
    /\ cancel = "no"

-----------------------------------------------------------------------------
(* The kernel *)

\* SIGKILL of the groups in G ends every task of theirs, also a stopped one.
Killed(T, G) ==
    [t \in Tids |-> IF T[t].grp \in G /\ T[t].st \in Live THEN [T[t] EXCEPT !.st = "dead"] ELSE T[t]]
Resumed(T, t) == [T EXCEPT ![t].st = IF @ = "stop" THEN "run" ELSE @]

\* A traced clone, fork or vfork: the creator stops with the child's tid, and the child
\* starts in a stop of its own.
Clone(t, c, g) ==
    /\ task[t].st = "run" /\ task[c].st = "none" /\ g \in {task[t].grp, c}
    /\ task' = [task EXCEPT ![t] = Stopped(t, "clone", c),
                            ![c] = [NoTask EXCEPT !.st = "stop", !.grp = g, !.ev = "start"]]
    /\ UNCHANGED <<sup, cancel>>

\* Another thread of the group calling exec takes the leader's tid; the others die.
Exec(t) ==
    LET g == task[t].grp IN
    /\ task[t].st = "run"
    /\ task' = [u \in Tids |->
                  IF u = g THEN [Stopped(g, "exec", t) EXCEPT !.grp = g]
                  ELSE IF u = t THEN [task[t] EXCEPT !.st = "gone"]
                  ELSE Killed(task, {g})[u]]
    /\ UNCHANGED <<sup, cancel>>

\* A signal, a group stop or a filtered bpf(2).
Stop(t) ==
    /\ task[t].st = "run"
    /\ task' = [task EXCEPT ![t] = Stopped(t, "other", 0)]
    /\ UNCHANGED <<sup, cancel>>

Exit(t) ==
    /\ task[t].st = "run"
    /\ task' = [task EXCEPT ![t].st = "dead"]
    /\ UNCHANGED <<sup, cancel>>

\* exit_group of one thread, or a SIGKILL from outside.
ExitGroup(g) ==
    /\ \E t \in Tids : task[t].grp = g /\ task[t].st \in Live
    /\ task' = Killed(task, {g})
    /\ UNCHANGED <<sup, cancel>>

\* A stop is reported once; a leader's exit only after the rest of its group is reaped.
Reportable(t) ==
    \/ task[t].st = "stop" /\ ~task[t].seen
    \/ /\ task[t].st = "dead"
       /\ task[t].grp = t => \A u \in Tids \ {t} : task[u].grp = t => ~Tracee(u)

-----------------------------------------------------------------------------
(* The wait loop *)

Known(t) == [u \in DOMAIN threads \cup {t} |->
                IF u \in DOMAIN threads THEN threads[u] ELSE [newborn |-> TRUE, foreign |-> FALSE]]
Without(f, S) == [u \in DOMAIN f \ S |-> f[u]]

\* The head of the loop: without processes left it waits for announced children only.
LoopTop ==
    /\ tracePc = "wait"
    /\ IF procs # {} THEN tracePc' = "wait4" /\ want' = 0
       ELSE IF pending # {} THEN tracePc' = "wait4" /\ want' \in pending
       ELSE tracePc' = "returned" /\ UNCHANGED want
    /\ cur' = [tid |-> pid, ev |-> ""]
    /\ UNCHANGED <<task, threads, procs, pending, cancel>>

NoChild ==
    /\ tracePc = "wait4" /\ \A t \in Tids : (want = 0 \/ t = want) => ~Tracee(t)
    /\ IF want # 0 THEN tracePc' = "wait" /\ pending' = pending \ {want}
       ELSE tracePc' = "returned" /\ UNCHANGED pending
    /\ UNCHANGED <<task, threads, procs, want, cur, cancel>>

\* An exit is reaped; a stop is kept for its handler.
Wait(t) ==
    /\ tracePc = "wait4" /\ want \in {0, t} /\ Reportable(t)
    /\ pending' = pending \ {t}
    /\ IF task[t].st = "dead"
       THEN /\ task' = [task EXCEPT ![t].st = "gone"]
            /\ threads' = Without(threads, {t})
            /\ procs' = procs \ {t}
            /\ tracePc' = "wait" /\ UNCHANGED cur
       ELSE /\ task' = [task EXCEPT ![t].seen = TRUE]
            /\ threads' = Known(t)
            /\ tracePc' = "handle" /\ cur' = [tid |-> t, ev |-> task[t].ev] /\ UNCHANGED procs
    /\ UNCHANGED <<want, cancel>>

\* The task died in the stop: ESRCH.
Lost == task[cur.tid].st # "stop"

\* Mutant: the child is only remembered.
HandleCloneForget ==
    /\ tracePc = "handle" /\ cur.ev = "clone"
    /\ IF ~Lost THEN threads' = Known(task[cur.tid].msg) ELSE UNCHANGED threads
    /\ task' = Resumed(task, cur.tid)
    /\ tracePc' = "wait" /\ UNCHANGED <<procs, pending, want, cur, cancel>>

\* Mutant: the creator of a known child is not resumed.
HandleCloneSkip ==
    LET child == task[cur.tid].msg IN
    /\ tracePc = "handle" /\ cur.ev = "clone"
    /\ IF ~Lost /\ child \notin DOMAIN threads
       THEN threads' = Known(child) /\ pending' = pending \cup {child} /\ task' = Resumed(task, cur.tid)
       ELSE UNCHANGED <<threads, pending, task>>
    /\ tracePc' = "wait" /\ UNCHANGED <<procs, want, cur, cancel>>

\* The child of a clone is remembered and waited for, unless its own stop came first.
HandleClone ==
    LET child == task[cur.tid].msg IN
    /\ tracePc = "handle" /\ cur.ev = "clone"
    /\ IF ~Lost /\ child \notin DOMAIN threads
       THEN threads' = Known(child) /\ pending' = pending \cup {child}
       ELSE UNCHANGED <<threads, pending>>
    /\ task' = Resumed(task, cur.tid)
    /\ tracePc' = "wait" /\ UNCHANGED <<procs, want, cur, cancel>>

\* A nonleader's exec: the thread map follows the tid change.
HandleExec ==
    /\ tracePc = "handle" /\ cur.ev = "exec"
    /\ threads' = IF threads[cur.tid].foreign
                  THEN IF Lost \/ task[cur.tid].msg = cur.tid THEN threads ELSE Without(threads, {task[cur.tid].msg})
                  ELSE [u \in {pid} \cup {v \in DOMAIN threads : threads[v].foreign} |->
                          IF u = pid THEN [newborn |-> FALSE, foreign |-> FALSE] ELSE threads[u]]
    /\ task' = Resumed(task, cur.tid)
    /\ tracePc' = "wait" /\ UNCHANGED <<procs, pending, want, cur, cancel>>

\* A first stop: a thread of the target runs on; a child process is followed, or detached
\* without the filter; failing to open its pidfd, or to detach it, is a supervisor error.
HandleNewborn ==
    LET g == task[cur.tid].grp IN
    /\ tracePc = "handle" /\ cur.ev = "start" /\ threads[cur.tid].newborn
    /\ \/ /\ g = pid
          /\ threads' = [threads EXCEPT ![cur.tid].newborn = FALSE]
          /\ task' = Resumed(task, cur.tid) /\ tracePc' = "wait" /\ UNCHANGED procs
       \/ /\ g # pid /\ filtered
          /\ threads' = [threads EXCEPT ![cur.tid] = [newborn |-> FALSE, foreign |-> TRUE]]
          /\ procs' = procs \cup {g}
          /\ task' = Resumed(IF cancel # "no" THEN Killed(task, procs') ELSE task, cur.tid)
          /\ tracePc' = "wait"
       \/ /\ g # pid /\ filtered /\ g \notin procs
          /\ task' = Killed(task, {g}) /\ tracePc' = "cleanup" /\ UNCHANGED <<threads, procs>>
       \/ /\ g # pid /\ ~filtered /\ UNCHANGED procs
          /\ IF Lost THEN tracePc' = "cleanup" /\ UNCHANGED <<task, threads>>
             ELSE tracePc' = "wait" /\ task' = [task EXCEPT ![cur.tid].st = "gone"] /\ threads' = Without(threads, {cur.tid})
    /\ UNCHANGED <<pending, want, cur, cancel>>

\* Any other stop of a known task, resumed with its signal; or a supervisor error.
HandleOther ==
    /\ tracePc = "handle"
    /\ cur.ev = "other" \/ (cur.ev = "start" /\ ~threads[cur.tid].newborn)
    /\ \/ task' = Resumed(task, cur.tid) /\ tracePc' = "wait"
       \/ cur.ev = "other" /\ tracePc' = "cleanup" /\ UNCHANGED task
    /\ UNCHANGED <<threads, procs, pending, want, cur, cancel>>

CancelContext == cancel = "no" /\ cancel' = "ctx" /\ UNCHANGED <<task, sup>>

\* The worker of the context; it ends with the run.
CancelWorker ==
    /\ cancel = "ctx" /\ tracePc \notin {"returned", "failed"}
    /\ cancel' = "killed" /\ task' = Killed(task, procs) /\ UNCHANGED sup

-----------------------------------------------------------------------------
(* The deferred cleanup of a supervisor error *)

\* Processes whose status names the supervisor as tracer; /proc lists leaders.
tracedProcesses == {t \in Tids : Tracee(t) /\ task[t].grp = t}

\* Mutant: only the target is killed.
CleanupKillTarget ==
    /\ tracePc = "cleanup" /\ tracePc' = "reap"
    /\ task' = Killed(task, {pid})
    /\ threads' = [u \in DOMAIN threads \cup tracedProcesses |-> [newborn |-> FALSE, foreign |-> FALSE]]
    /\ UNCHANGED <<procs, pending, want, cur, cancel>>

\* Every tracee is killed and remembered, also one without a pidfd.
CleanupKill ==
    /\ tracePc = "cleanup" /\ tracePc' = "reap"
    /\ task' = Killed(task, procs \cup tracedProcesses)
    /\ threads' = [u \in DOMAIN threads \cup tracedProcesses |->
                     IF u \in tracedProcesses THEN [newborn |-> FALSE, foreign |-> FALSE] ELSE threads[u]]
    /\ UNCHANGED <<procs, pending, want, cur, cancel>>

\* One wait for any tracee: an exit is reaped, a stopped task killed and resumed.
CleanupReap(t) ==
    /\ tracePc = "reap" /\ DOMAIN threads # {} /\ Reportable(t)
    /\ IF task[t].st = "dead"
       THEN /\ task' = [task EXCEPT ![t].st = "gone"]
            /\ threads' = Without(threads, {t}) /\ procs' = procs \ {t}
       ELSE /\ task' = Killed(task, {task[t].grp})
            /\ threads' = [u \in DOMAIN threads \cup {t} \cup (IF task[t].ev = "clone" THEN {task[t].msg} ELSE {})
                             |-> [newborn |-> FALSE, foreign |-> FALSE]]
            /\ UNCHANGED procs
    /\ UNCHANGED <<pending, tracePc, want, cur, cancel>>

CleanupEnd ==
    /\ tracePc = "reap"
    /\ DOMAIN threads = {} \/ \A t \in Tids : ~Tracee(t)
    /\ tracePc' = "failed"
    /\ UNCHANGED <<task, threads, procs, pending, want, cur, cancel>>

-----------------------------------------------------------------------------
Ended == tracePc \in {"returned", "failed"} /\ UNCHANGED traceVars

Kernel ==
    /\ tracePc \notin {"returned", "failed"}
    /\ \E t \in Tids :
          \/ \E c \in Tids, g \in Tids : Clone(t, c, g)
          \/ Exec(t) \/ Stop(t) \/ Exit(t) \/ ExitGroup(t)

Supervisor ==
    \/ LoopTop \/ NoChild \/ HandleClone \/ HandleExec \/ HandleNewborn \/ HandleOther
    \/ CleanupKill \/ CleanupEnd
    \/ \E t \in Tids : Wait(t) \/ CleanupReap(t)

TraceNext ==
    /\ Kernel \/ Supervisor \/ CancelContext \/ CancelWorker \/ Ended
    /\ UNCHANGED filtered

TraceSpec == TraceInit /\ [][TraceNext]_traceVars

\* The supervisor and the worker keep running; nothing makes the target do anything.
TraceFairness ==
    /\ WF_traceVars(Supervisor /\ UNCHANGED filtered)
    /\ WF_traceVars(CancelWorker /\ UNCHANGED filtered)

TraceFairSpec == TraceSpec /\ TraceFairness

-----------------------------------------------------------------------------
Events == {"", "start", "clone", "exec", "other"}
Task == [st : {"none", "run", "stop", "dead", "gone"}, grp : Tids \cup {0}, ev : Events,
         msg : Tids \cup {0}, seen : BOOLEAN]
Thread == [newborn : BOOLEAN, foreign : BOOLEAN]

\* Tasks, the supervisor's tables and its place in the loop keep their types.
TraceTypeOK ==
    /\ filtered \in BOOLEAN /\ cancel \in {"no", "ctx", "killed"}
    /\ task \in [Tids -> Task]
    /\ DOMAIN threads \subseteq Tids /\ threads \in [DOMAIN threads -> Thread]
    /\ procs \subseteq Tids /\ pending \subseteq Tids /\ want \in Tids \cup {0}
    /\ tracePc \in {"wait", "wait4", "handle", "cleanup", "reap", "returned", "failed"}
    /\ cur \in [tid : Tids, ev : Events]

\* run resumes every stop it was told of before it waits again: a reported stop is never
\* left behind, whatever dies, execs or is cancelled while its handler runs (the ESRCH
\* paths of the switch only skip tasks that are no longer stopped).
NoForgottenStop ==
    tracePc \in {"wait", "wait4"} => \A t \in Tids : ~(task[t].st = "stop" /\ task[t].seen)

\* When the loop ends normally no task it knows is left, and a tracee it does not know
\* has not run a single instruction: it is in its unreported first stop, or was killed
\* there (the child of a clone event that ended in ESRCH).  Behind a supervisor error the
\* deferred cleanup leaves no tracee at all, live or zombie.
LeavesNothingRunning ==
    /\ tracePc = "returned" =>
           \A t \in Tids : Tracee(t) =>
               t \notin DOMAIN threads /\ task[t].ev = "start" /\ ~task[t].seen
    /\ tracePc = "failed" => \A t \in Tids : ~Tracee(t)

\* "Run then returns when the target and every followed process have exited": with the
\* filter, no tracee is left when the loop ends.  MCClaims shows the one that can be.
FollowsEveryChild == (filtered /\ tracePc = "returned") => \A t \in Tids : ~Tracee(t)

\* A run that is told to end ends: a cancelled one, also when it is cancelled while a child
\* is being created, and one in the deferred cleanup, also when the target's leader died
\* before its threads.
RunEnds == cancel = "killed" \/ tracePc = "cleanup" ~> tracePc \in {"returned", "failed"}
=============================================================================
