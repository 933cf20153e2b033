--------------------------- MODULE TraceRunProofs ---------------------------
(* What holds of the syscall supervisor's wait loop for any number of tasks,  *)
(* however they clone, exec, exit and are killed while an earlier stop is     *)
(* handled: no reported stop is left behind, and the loop leaves no task      *)
(* running untraced.  That a cancelled run ends is liveness and stays with    *)
(* TLC.                                                                       *)
EXTENDS TraceRun, TLAPS

-----------------------------------------------------------------------------
(* The inductive invariant.  A task is followed by the pidfd of its group's   *)
(* leader, which is reaped last; until its first stop is reported it has run  *)
(* nothing, and if the supervisor knows of it, that stop is still due.        *)

InLoop == tracePc \in {"wait", "wait4", "handle"}

\* A task that has not left the stop it started in, as far as the supervisor knows.
Unborn(t) == task[t].ev = "start" /\ ~task[t].seen

\* The leader of a traced task's group is there as long as the task.
Leaders ==
    \A t \in Tids : Tracee(t) =>
        /\ task[t].grp \in Tids /\ Tracee(task[t].grp)
        /\ task[task[t].grp].grp = task[t].grp

\* A pidfd is held of group leaders only, each until it is reaped.
Held ==
    /\ \A p \in procs : Tracee(p) /\ task[p].grp = p
    /\ ~filtered => procs \subseteq {pid}

\* The task whose stop is handled can only have died, or be in the stop of an exec of
\* its group meanwhile.
Handling ==
    tracePc = "handle" =>
        /\ task[cur.tid].st \in {"stop", "dead"} /\ ~Unborn(cur.tid)
        /\ task[cur.tid].st = "stop" => task[cur.tid].ev \in {cur.ev, "exec"}
        /\ cur.tid \in DOMAIN threads
        /\ cur.ev = "start" =>
              /\ cur.tid # pid
              /\ task[cur.tid].grp \in procs \/ threads[cur.tid].newborn

Followed ==
    InLoop => \A t \in Tids : Tracee(t) =>
        /\ \/ Unborn(t) \/ task[t].grp \in procs
           \/ tracePc = "handle" /\ t = cur.tid /\ cur.ev = "start"
        /\ task[t].grp # t => task[t].grp \in procs
        /\ task[t].st = "run" => ~Unborn(t)

Announced ==
    InLoop =>
        /\ \A t \in Tids :
              /\ task[t].st = "none" => t \notin DOMAIN threads
              /\ Tracee(t) /\ Unborn(t) /\ t \in DOMAIN threads =>
                    t \in pending /\ threads[t].newborn
              /\ task[t].st = "stop" /\ task[t].ev \in {"clone", "exec"} =>
                    task[t].msg \in Tids /\ task[task[t].msg].st # "none"
        /\ task[pid].st # "none" /\ task[pid].ev # "start"

\* A stop that was reported is being handled.
Told ==
    InLoop => \A t \in Tids :
        task[t].st = "stop" /\ task[t].seen => tracePc = "handle" /\ t = cur.tid

\* Past the kill of the cleanup every tracee is dead, its leader in the thread map.
Reaping ==
    tracePc = "reap" => \A t \in Tids : Tracee(t) =>
        task[t].st = "dead" /\ task[t].grp \in DOMAIN threads

TraceInv ==
    /\ Leaders /\ Held /\ Handling /\ Followed /\ Announced /\ Told /\ Reaping
    /\ LeavesNothingRunning

-----------------------------------------------------------------------------
(* Types *)

\* A task that is killed, resumed or stopped anew is still a task.
LEMMA TaskFields ==
    ASSUME NEW k \in Task
    PROVE  /\ \A s \in {"none", "run", "stop", "dead", "gone"} : [k EXCEPT !.st = s] \in Task
           /\ [k EXCEPT !.seen = TRUE] \in Task
           /\ \A e \in Events, m \in Tids \cup {0} :
                 [k EXCEPT !.st = "stop", !.ev = e, !.msg = m, !.seen = FALSE] \in Task
           /\ \A g \in Tids : [k EXCEPT !.grp = g] \in Task
<1>1. ASSUME NEW s \in {"none", "run", "stop", "dead", "gone"} PROVE [k EXCEPT !.st = s] \in Task
  BY DEF Task
<1>2. [k EXCEPT !.seen = TRUE] \in Task
  BY DEF Task
<1>3. ASSUME NEW e \in Events, NEW m \in Tids \cup {0}
      PROVE  [k EXCEPT !.st = "stop", !.ev = e, !.msg = m, !.seen = FALSE] \in Task
  BY DEF Task
<1>4. ASSUME NEW g \in Tids PROVE [k EXCEPT !.grp = g] \in Task
  BY DEF Task
<1>5. QED
  BY <1>1, <1>2, <1>3, <1>4

LEMMA KilledType ==
    ASSUME NEW T \in [Tids -> Task], NEW G PROVE Killed(T, G) \in [Tids -> Task]
<1>1. \A t \in Tids : [T[t] EXCEPT !.st = "dead"] \in Task
  BY TaskFields
<1>2. QED
  BY <1>1 DEF Killed

LEMMA ResumedType ==
    ASSUME NEW T \in [Tids -> Task], NEW t \in Tids PROVE Resumed(T, t) \in [Tids -> Task]
<1>1. T[t].st \in {"none", "run", "stop", "dead", "gone"}
  BY DEF Task
<1>2. [T[t] EXCEPT !.st = IF @ = "stop" THEN "run" ELSE @] \in Task
  BY <1>1, TaskFields
<1>3. QED
  BY <1>2 DEF Resumed

LEMMA NoTaskType == NoTask \in Task /\ [NoTask EXCEPT !.st = "run", !.grp = pid] \in Task
<1>1. NoTask \in Task
  BY DEF NoTask, Task, Events
<1>2. pid \in Tids
  BY TraceAssumption DEF pid
<1>3. QED
  BY <1>1, <1>2 DEF NoTask, Task, Events

LEMMA InitType == TraceInit => TraceTypeOK
<1> SUFFICES ASSUME TraceInit PROVE TraceTypeOK
  OBVIOUS
<1>1. pid \in Tids
  BY TraceAssumption DEF pid
<1>2. task \in [Tids -> Task]
  BY NoTaskType DEF TraceInit
<1>3. DOMAIN threads \subseteq Tids /\ threads \in [DOMAIN threads -> Thread]
  <2>1. [newborn |-> FALSE, foreign |-> FALSE] \in Thread
    BY DEF Thread
  <2>2. QED
    BY <1>1, <2>1 DEF TraceInit
<1>4. cur \in [tid : Tids, ev : Events]
  BY <1>1 DEF TraceInit, Events
<1>5. QED
  BY <1>1, <1>2, <1>3, <1>4 DEF TraceInit, TraceTypeOK

\* The thread map after a task was added to it, or some were dropped.
LEMMA ThreadsType ==
    ASSUME TraceTypeOK
    PROVE  /\ \A t \in Tids : /\ DOMAIN Known(t) \subseteq Tids
                              /\ Known(t) \in [DOMAIN Known(t) -> Thread]
           /\ \A S : /\ DOMAIN Without(threads, S) \subseteq Tids
                     /\ Without(threads, S) \in [DOMAIN Without(threads, S) -> Thread]
<1>1. \A u \in DOMAIN threads : threads[u] \in Thread
  BY DEF TraceTypeOK
<1>2. [newborn |-> TRUE, foreign |-> FALSE] \in Thread
  BY DEF Thread
<1>3. QED
  BY <1>1, <1>2 DEF TraceTypeOK, Known, Without

LEMMA NextType == TraceTypeOK /\ TraceInv /\ [TraceNext]_traceVars => TraceTypeOK'
<1> SUFFICES ASSUME TraceTypeOK, TraceInv, [TraceNext]_traceVars PROVE TraceTypeOK'
  OBVIOUS
<1>0. /\ pid \in Tids /\ "" \in Events /\ filtered' = filtered
      /\ task \in [Tids -> Task] /\ cur.tid \in Tids /\ cur.ev \in Events
      /\ \A t \in Tids : task[t] \in Task
  BY TraceAssumption DEF pid, Events, TraceNext, traceVars, TraceTypeOK
<1>1. ASSUME NEW t \in Tids
      PROVE  /\ task[t].grp \in Tids \cup {0} /\ task[t].ev \in Events
             /\ task[t].msg \in Tids \cup {0}
  BY <1>0 DEF Task
\* Kernel steps and kills change the tasks only.
<1>2. ASSUME task' \in [Tids -> Task], UNCHANGED sup, cancel' \in {"no", "ctx", "killed"}
      PROVE  TraceTypeOK'
  BY <1>0, <1>2 DEF TraceTypeOK, sup
<1>3. CASE Kernel
  <2>1. ASSUME NEW t \in Tids, NEW c \in Tids, NEW g \in Tids, Clone(t, c, g) PROVE TraceTypeOK'
    <3>1. Stopped(t, "clone", c) \in Task
      BY <1>0, TaskFields DEF Stopped, Events
    <3>2. [NoTask EXCEPT !.st = "stop", !.grp = g, !.ev = "start"] \in Task
      BY DEF NoTask, Task, Events
    <3>3. QED
      BY <1>0, <1>2, <2>1, <3>1, <3>2 DEF Clone, TraceTypeOK
  <2>2. ASSUME NEW t \in Tids, Exec(t) PROVE TraceTypeOK'
    <3>1. PICK g : g = task[t].grp
      OBVIOUS
    <3>2. Killed(task, {g}) \in [Tids -> Task] /\ [task[t] EXCEPT !.st = "gone"] \in Task
      BY <1>0, KilledType, TaskFields
    <3>3. g \in Tids => [Stopped(g, "exec", t) EXCEPT !.grp = g] \in Task
      BY <1>0, TaskFields DEF Stopped, Events
    <3>4. task' \in [Tids -> Task]
      BY <2>2, <3>1, <3>2, <3>3 DEF Exec
    <3>5. QED
      BY <1>0, <1>2, <2>2, <3>4 DEF Exec, TraceTypeOK
  <2>3. ASSUME NEW t \in Tids, Stop(t) \/ Exit(t) PROVE TraceTypeOK'
    <3>1. Stopped(t, "other", 0) \in Task /\ [task[t] EXCEPT !.st = "dead"] \in Task
      BY <1>0, TaskFields DEF Stopped, Events
    <3>2. QED
      BY <1>0, <1>2, <2>3, <3>1 DEF Stop, Exit, TraceTypeOK
  <2>4. ASSUME NEW t \in Tids, ExitGroup(t) PROVE TraceTypeOK'
    BY <1>0, <1>2, <2>4, KilledType DEF ExitGroup, TraceTypeOK
  <2>5. QED
    BY <1>3, <2>1, <2>2, <2>3, <2>4 DEF Kernel
<1>4. CASE CancelContext \/ CancelWorker
  BY ZenonT(60), <1>0, <1>2, <1>4, KilledType DEF CancelContext, CancelWorker, TraceTypeOK
\* The supervisor.
<1>5. CASE LoopTop \/ NoChild
  <2>1. cur' \in [tid : Tids, ev : Events]
    <3>1. [tid |-> pid, ev |-> ""] \in [tid : Tids, ev : Events] /\ cur \in [tid : Tids, ev : Events]
      BY <1>0 DEF TraceTypeOK
    <3>2. cur' = cur \/ cur' = [tid |-> pid, ev |-> ""]
      BY <1>5 DEF LoopTop, NoChild
    <3>3. QED
      BY <3>1, <3>2
  <2>2. want' \in Tids \cup {0} /\ pending' \subseteq Tids
    BY <1>5 DEF LoopTop, NoChild, TraceTypeOK
  <2>3. /\ tracePc' \in {"wait", "wait4", "returned"}
        /\ UNCHANGED <<task, threads, procs, cancel>>
    BY <1>5 DEF LoopTop, NoChild
  <2>4. QED
    BY <1>0, <2>1, <2>2, <2>3 DEF TraceTypeOK
<1>6. ASSUME NEW t \in Tids, Wait(t) PROVE TraceTypeOK'
  <2>1. [task[t] EXCEPT !.st = "gone"] \in Task /\ [task[t] EXCEPT !.seen = TRUE] \in Task
    BY <1>0, TaskFields
  <2>2. task' \in [Tids -> Task]
    BY <1>0, <1>6, <2>1 DEF Wait
  <2>3. DOMAIN threads' \subseteq Tids /\ threads' \in [DOMAIN threads' -> Thread]
    BY <1>6, ThreadsType DEF Wait
  <2>4. cur' \in [tid : Tids, ev : Events]
    BY <1>1, <1>6 DEF Wait, TraceTypeOK
  <2>5. QED
    BY <1>0, <1>6, <2>2, <2>3, <2>4 DEF Wait, TraceTypeOK
<1>7. Resumed(task, cur.tid) \in [Tids -> Task]
  BY <1>0, ResumedType
<1>8. CASE HandleClone
  <2>1. ~Lost => task[cur.tid].msg \in Tids
    BY <1>0, <1>8 DEF HandleClone, Lost, TraceInv, Handling, Announced, InLoop
  <2>2. QED
    BY <1>0, <1>7, <1>8, <2>1, ThreadsType DEF HandleClone, TraceTypeOK
<1>10. CASE HandleExec
  <2>1. [newborn |-> FALSE, foreign |-> FALSE] \in Thread
    BY DEF Thread
  <2>2. DOMAIN threads' \subseteq Tids /\ threads' \in [DOMAIN threads' -> Thread]
    BY <1>0, <1>10, <2>1, ThreadsType DEF HandleExec, TraceTypeOK
  <2>3. QED
    BY <1>0, <1>7, <1>10, <2>2 DEF HandleExec, TraceTypeOK
<1>11. CASE HandleNewborn
  <2>1. \A u \in DOMAIN threads : [threads[u] EXCEPT !.newborn = FALSE] \in Thread
    BY DEF TraceTypeOK, Thread
  <2>2. [newborn |-> FALSE, foreign |-> TRUE] \in Thread
    BY DEF Thread
  <2>3. DOMAIN threads' \subseteq Tids /\ threads' \in [DOMAIN threads' -> Thread]
    <3>1. \/ threads' = [threads EXCEPT ![cur.tid].newborn = FALSE]
          \/ threads' = [threads EXCEPT ![cur.tid] = [newborn |-> FALSE, foreign |-> TRUE]]
          \/ threads' = threads \/ threads' = Without(threads, {cur.tid})
      BY <1>11 DEF HandleNewborn
    <3>2. cur.tid \in DOMAIN threads
      BY <1>11 DEF HandleNewborn, TraceInv, Handling
    <3>3. [threads EXCEPT ![cur.tid].newborn = FALSE] \in [DOMAIN threads -> Thread]
      BY <2>1, <3>2 DEF TraceTypeOK
    <3>4. [threads EXCEPT ![cur.tid] = [newborn |-> FALSE, foreign |-> TRUE]] \in [DOMAIN threads -> Thread]
      BY <2>2, <3>2 DEF TraceTypeOK
    <3>5. DOMAIN threads \subseteq Tids /\ threads \in [DOMAIN threads -> Thread]
      BY DEF TraceTypeOK
    <3>6. CASE threads' \in [DOMAIN threads -> Thread]
      BY <3>5, <3>6
    <3>7. CASE threads' = Without(threads, {cur.tid})
      BY <3>7, ThreadsType
    <3>8. QED
      BY <3>1, <3>3, <3>4, <3>5, <3>6, <3>7
  <2>4. task' \in [Tids -> Task]
    <3>1. [task[cur.tid] EXCEPT !.st = "gone"] \in Task
      BY <1>0, TaskFields
    <3>2. \A G : Killed(task, G) \in [Tids -> Task] /\ Resumed(Killed(task, G), cur.tid) \in [Tids -> Task]
      BY <1>0, KilledType, ResumedType
    <3>3. QED
      BY <1>0, <1>7, <1>11, <3>1, <3>2 DEF HandleNewborn
  <2>5. procs' \subseteq Tids
    <3>1. task[cur.tid].grp \in Tids
      BY <1>0, <1>11 DEF HandleNewborn, TraceInv, Handling, Leaders, Tracee
    <3>2. QED
      BY <1>11, <3>1 DEF HandleNewborn, TraceTypeOK
  <2>6. QED
    BY <1>0, <1>11, <2>3, <2>4, <2>5 DEF HandleNewborn, TraceTypeOK
<1>12. CASE HandleOther
  BY <1>0, <1>7, <1>12 DEF HandleOther, TraceTypeOK
<1>13. tracedProcesses \subseteq Tids /\ [newborn |-> FALSE, foreign |-> FALSE] \in Thread
  BY DEF tracedProcesses, Thread
<1>14. CASE CleanupKill
  <2>1. DOMAIN threads' \subseteq Tids /\ threads' \in [DOMAIN threads' -> Thread]
    BY <1>13, <1>14 DEF CleanupKill, TraceTypeOK
  <2>2. QED
    BY <1>0, <1>14, <2>1, KilledType DEF CleanupKill, TraceTypeOK
<1>15. ASSUME NEW t \in Tids, CleanupReap(t) PROVE TraceTypeOK'
  <2>1. task[t].st = "dead"
    BY <1>15 DEF CleanupReap, Reportable, TraceInv, Reaping, Tracee
  <2>2. [task[t] EXCEPT !.st = "gone"] \in Task
    BY <1>0, TaskFields
  <2>3. DOMAIN threads' \subseteq Tids /\ threads' \in [DOMAIN threads' -> Thread]
    BY <1>15, <2>1, ThreadsType DEF CleanupReap
  <2>4. task' \in [Tids -> Task] /\ procs' \subseteq Tids
    BY ZenonT(60), <1>0, <1>15, <2>1, <2>2 DEF CleanupReap, TraceTypeOK
  <2>5. QED
    BY <1>0, <1>15, <2>3, <2>4 DEF CleanupReap, TraceTypeOK
<1>16. CASE CleanupEnd
  BY <1>16, <1>0 DEF CleanupEnd, TraceTypeOK
<1>17. CASE UNCHANGED traceVars
  BY <1>17 DEF traceVars, TraceTypeOK
<1>18. QED
  BY <1>3, <1>4, <1>5, <1>6, <1>8, <1>10, <1>11, <1>12, <1>14, <1>15, <1>16, <1>17
     DEF TraceNext, Supervisor, Ended

-----------------------------------------------------------------------------
(* The invariant is inductive *)

LEMMA InitInv == TraceInit => TraceInv
<1> SUFFICES ASSUME TraceInit PROVE TraceInv
  OBVIOUS
<1>1. /\ pid \in Tids /\ tracePc = "wait" /\ procs = {pid} /\ DOMAIN threads = {pid}
      /\ task[pid].st = "run" /\ task[pid].grp = pid /\ task[pid].ev = ""
      /\ \A t \in Tids : t # pid => task[t].st = "none"
  BY TraceAssumption DEF TraceInit, pid, NoTask
<1>2. Leaders /\ Held
  BY <1>1 DEF Leaders, Held, Tracee
<1>3. Handling /\ Followed /\ Announced /\ Told /\ Reaping /\ LeavesNothingRunning
  BY <1>1 DEF Handling, Followed, Announced, Told, Reaping, LeavesNothingRunning, Tracee, Unborn
<1>4. QED
  BY <1>2, <1>3 DEF TraceInv

\* What a kill, a resumption or an exit leaves of a task.
Kept(u) ==
    /\ task'[u].grp = task[u].grp /\ task'[u].ev = task[u].ev
    /\ task'[u].msg = task[u].msg /\ task'[u].seen = task[u].seen
Died(u) == task[u].st \in Live /\ task'[u].st = "dead"

LEMMA KilledAt ==
    ASSUME NEW T \in [Tids -> Task], NEW G, NEW u \in Tids
    PROVE  LET k == Killed(T, G)[u] IN
           /\ k.grp = T[u].grp /\ k.ev = T[u].ev /\ k.msg = T[u].msg /\ k.seen = T[u].seen
           /\ k.st = T[u].st \/ (T[u].st \in Live /\ k.st = "dead")
           /\ T[u].grp \in G /\ T[u].st \in Live => k.st = "dead"
<1>1. T[u] \in Task
  OBVIOUS
<1>2. CASE T[u].grp \in G /\ T[u].st \in Live
  BY <1>1, <1>2 DEF Killed, Task
<1>3. CASE ~(T[u].grp \in G /\ T[u].st \in Live)
  BY <1>1, <1>3 DEF Killed
<1>4. QED
  BY <1>2, <1>3

LEMMA ResumedAt ==
    ASSUME NEW T \in [Tids -> Task], NEW t \in Tids, NEW u \in Tids
    PROVE  LET k == Resumed(T, t)[u] IN
           /\ k.grp = T[u].grp /\ k.ev = T[u].ev /\ k.msg = T[u].msg /\ k.seen = T[u].seen
           /\ k.st = IF u = t /\ T[u].st = "stop" THEN "run" ELSE T[u].st
<1>1. T[u] \in Task
  OBVIOUS
<1>2. CASE u = t
  BY <1>1, <1>2 DEF Resumed, Task
<1>3. CASE u # t
  BY <1>1, <1>3 DEF Resumed
<1>4. QED
  BY <1>2, <1>3

\* Tasks may die at any moment, which disturbs nothing of what the supervisor relies on.
LEMMA DyingKeeps ==
    ASSUME TraceTypeOK, TraceInv, UNCHANGED <<filtered, sup>>,
           \A u \in Tids : Kept(u) /\ (task'[u].st = task[u].st \/ Died(u))
    PROVE  TraceInv'
<1>0. /\ UNCHANGED <<filtered, threads, procs, pending, tracePc, want, cur>> /\ pid \in Tids
      /\ procs \subseteq Tids /\ cur.tid \in Tids
  BY TraceAssumption DEF sup, TraceTypeOK, pid
<1>1. /\ \A u \in Tids : Tracee(u)' <=> Tracee(u)
      /\ \A u \in Tids : Unborn(u)' <=> Unborn(u)
      /\ \A u \in Tids : task'[u].st \in {"run", "stop", "none"} => task'[u].st = task[u].st
  BY DEF Tracee, Unborn, Kept, Died, Live
<1>2. Leaders' /\ Held'
  BY <1>0, <1>1 DEF TraceInv, Leaders, Held, Kept
<1>3. Handling'
  BY <1>0, <1>1 DEF TraceInv, Handling, Kept, Died, Live
<1>4. Followed'
  BY <1>0, <1>1 DEF TraceInv, Followed, InLoop, Kept
<1>5. Announced'
  <2>1. ASSUME InLoop, NEW u \in Tids
        PROVE  /\ task'[u].st = "none" => u \notin DOMAIN threads'
               /\ Tracee(u)' /\ Unborn(u)' /\ u \in DOMAIN threads' =>
                    u \in pending' /\ threads'[u].newborn
               /\ task'[u].st = "stop" /\ task'[u].ev \in {"clone", "exec"} =>
                    task'[u].msg \in Tids /\ task'[task'[u].msg].st # "none"
    BY <1>0, <1>1, <2>1 DEF TraceInv, Announced, Kept, Died
  <2>2. InLoop => task'[pid].st # "none" /\ task'[pid].ev # "start"
    BY <1>0, <1>1 DEF TraceInv, Announced, Kept
  <2>3. QED
    BY <1>0, <2>1, <2>2 DEF Announced, InLoop
<1>6. Told' /\ Reaping'
  BY <1>0, <1>1 DEF TraceInv, Told, Reaping, InLoop, Kept, Died
<1>7. LeavesNothingRunning'
  BY <1>0, <1>1 DEF TraceInv, LeavesNothingRunning, Kept
<1>8. QED
  BY <1>2, <1>3, <1>4, <1>5, <1>6, <1>7 DEF TraceInv

\* A handler that resumes its task and returns to the loop's head, with the task's group
\* followed and the announced children still due.
LEMMA ResumingKeeps ==
    ASSUME TraceTypeOK, TraceInv, UNCHANGED <<filtered, cur>>,
           tracePc = "handle", tracePc' = "wait",
           \A u \in Tids : /\ Kept(u)
                           /\ \/ task'[u].st = task[u].st \/ Died(u)
                              \/ u = cur.tid /\ task[u].st = "stop" /\ task'[u].st = "run",
           task'[cur.tid].st # "stop",
           procs \subseteq procs', \A p \in procs' : p \in procs \/ p = task[cur.tid].grp,
           ~filtered => procs' = procs,
           task[cur.tid].grp \in procs',
           \A u \in Tids : u \in DOMAIN threads' =>
               /\ task[u].st # "none"
               /\ Tracee(u) /\ Unborn(u) => u \in pending' /\ threads'[u].newborn
    PROVE  TraceInv'
<1>0. pid \in Tids /\ procs \subseteq Tids /\ cur.tid \in Tids /\ Tracee(cur.tid) /\ ~Unborn(cur.tid)
  BY TraceAssumption DEF TraceTypeOK, pid, TraceInv, Handling, Tracee
<1>1. /\ \A u \in Tids : Tracee(u)' <=> Tracee(u)
      /\ \A u \in Tids : Unborn(u)' <=> Unborn(u)
      /\ \A u \in Tids : task'[u].st \in {"stop", "none"} => task'[u].st = task[u].st
      /\ \A u \in Tids : task'[u].st = "run" => task[u].st = "run" \/ u = cur.tid
  BY DEF Tracee, Unborn, Kept, Died, Live
<1>2. Leaders' /\ Held'
  BY <1>0, <1>1 DEF TraceInv, Leaders, Held, Kept
<1>3. Handling' /\ Reaping' /\ LeavesNothingRunning'
  BY DEF Handling, Reaping, LeavesNothingRunning
<1>4. Followed'
  BY <1>0, <1>1 DEF TraceInv, Followed, InLoop, Kept
<1>5. Announced'
  <2>1. ASSUME NEW u \in Tids
        PROVE  /\ task'[u].st = "none" => u \notin DOMAIN threads'
               /\ Tracee(u)' /\ Unborn(u)' /\ u \in DOMAIN threads' =>
                    u \in pending' /\ threads'[u].newborn
    BY <1>0, <1>1
  <2>2. ASSUME NEW u \in Tids, task'[u].st = "stop", task'[u].ev \in {"clone", "exec"}
        PROVE  task'[u].msg \in Tids /\ task'[task'[u].msg].st # "none"
    BY SMTT(120), <1>0, <1>1, <2>2 DEF TraceInv, Announced, InLoop, Kept
  <2>3. task'[pid].st # "none" /\ task'[pid].ev # "start"
    BY <1>0, <1>1 DEF TraceInv, Announced, InLoop, Kept
  <2>4. QED
    BY <2>1, <2>2, <2>3 DEF Announced
<1>6. Told'
  BY SMTT(120), <1>0, <1>1 DEF TraceInv, Told, InLoop, Kept
<1>7. QED
  BY <1>2, <1>3, <1>4, <1>5, <1>6 DEF TraceInv

\* One reaped task, of a group that has no other task left if it was the leader.
LEMMA ReapKeepsLeaders ==
    ASSUME TraceTypeOK, Leaders, NEW t \in Tids, task[t].st = "dead", Reportable(t),
           task' = [task EXCEPT ![t].st = "gone"]
    PROVE  /\ Leaders' /\ \A u \in Tids : u # t /\ Tracee(u) => task[u].grp # t
           /\ \A u \in Tids : u # t => task'[u] = task[u]
           /\ task'[t].st = "gone" /\ task'[t].ev = task[t].ev
<1>1. /\ \A u \in Tids : u # t => task'[u] = task[u]
      /\ task'[t].st = "gone" /\ task'[t].ev = task[t].ev
  BY DEF TraceTypeOK, Task
<1>2. \A u \in Tids : u # t /\ Tracee(u) => task[u].grp # t
  BY DEF Reportable, Leaders
<1>3. Leaders'
  BY <1>1, <1>2 DEF Leaders, Tracee
<1>4. QED
  BY <1>1, <1>2, <1>3

LEMMA NextInv == TraceTypeOK /\ TraceInv /\ [TraceNext]_traceVars => TraceInv'
<1> SUFFICES ASSUME TraceTypeOK, TraceInv, [TraceNext]_traceVars PROVE TraceInv'
  OBVIOUS
<1>0. /\ pid \in Tids /\ filtered' = filtered /\ procs \subseteq Tids
      /\ task \in [Tids -> Task] /\ cur.tid \in Tids
      /\ \A t \in Tids : task[t] \in Task
  BY TraceAssumption DEF pid, TraceNext, traceVars, TraceTypeOK
<1>1. Leaders /\ Held /\ Handling /\ Followed /\ Announced /\ Told /\ Reaping
  BY DEF TraceInv
<1>2. \A G : \A u \in Tids : task' = Killed(task, G) =>
          Kept(u) /\ (task'[u].st = task[u].st \/ Died(u))
  BY <1>0, KilledAt DEF Kept, Died
\* A task runs only while the loop or the kill of the cleanup is still ahead.
<1>3. ASSUME Kernel, NEW t \in Tids, task[t].st = "run"
      PROVE  /\ tracePc \in {"wait", "wait4", "handle", "cleanup"}
             /\ InLoop => ~Unborn(t) /\ task[t].grp \in procs
             /\ tracePc = "handle" => t # cur.tid
             /\ task[t].grp \in Tids /\ Tracee(t) /\ Tracee(task[t].grp)
             /\ task[task[t].grp].grp = task[t].grp
  <2>1. tracePc \in {"wait", "wait4", "handle", "cleanup"}
    BY <1>1, <1>3 DEF Kernel, Reaping, Tracee, TraceTypeOK
  <2>2. tracePc = "handle" => t # cur.tid
    BY <1>1, <1>3 DEF Handling
  <2>3. QED
    BY <1>1, <1>3, <2>1, <2>2 DEF Followed, Leaders, Tracee
<1>4. CASE Kernel
  <2> USE <1>0, <1>1
  <2>1. ASSUME NEW t \in Tids, NEW c \in Tids, NEW g \in Tids, Clone(t, c, g) PROVE TraceInv'
    <3>1. /\ task[t].st = "run" /\ task[c].st = "none" /\ g \in {task[t].grp, c} /\ c # t
          /\ UNCHANGED <<threads, procs, pending, tracePc, want, cur>>
      BY <2>1 DEF Clone, sup
    <3>2. /\ task'[t].st = "stop" /\ task'[t].grp = task[t].grp /\ task'[t].ev = "clone"
          /\ task'[t].msg = c /\ task'[t].seen = FALSE
      BY <2>1, <3>1 DEF Clone, Stopped, Task
    <3>3. /\ task'[c].st = "stop" /\ task'[c].grp = g /\ task'[c].ev = "start"
          /\ task'[c].seen = FALSE
      BY <2>1, <3>1 DEF Clone, NoTask
    <3>4. \A u \in Tids : u # t /\ u # c => task'[u] = task[u]
      BY <2>1, <3>1 DEF Clone
    <3>5. /\ \A u \in Tids : Tracee(u)' <=> Tracee(u) \/ u = c
          /\ ~Tracee(c) /\ Tracee(t)
          /\ \A u \in Tids : u # c => task'[u].grp = task[u].grp
          /\ \A u \in Tids : u # c /\ Unborn(u)' => Unborn(u)
          /\ \A u \in Tids : u # c /\ ~(Unborn(u)') => u = t \/ ~Unborn(u)
      BY <3>1, <3>2, <3>3, <3>4 DEF Tracee, Unborn
    <3>6. Leaders'
      BY <1>3, <1>4, <3>1, <3>3, <3>5 DEF Leaders
    <3>7. Held'
      BY <3>1, <3>5 DEF Held
    <3>8. Handling'
      BY <1>3, <1>4, <3>1, <3>4, <3>5 DEF Handling, Unborn
    <3>9. Followed'
      BY <1>3, <1>4, <3>1, <3>2, <3>3, <3>4, <3>5 DEF Followed, InLoop, Unborn
    <3>10. Announced'
      <4>1. ASSUME InLoop, NEW u \in Tids
            PROVE  /\ task'[u].st = "none" => u \notin DOMAIN threads'
                   /\ Tracee(u)' /\ Unborn(u)' /\ u \in DOMAIN threads' =>
                        u \in pending' /\ threads'[u].newborn
        BY <3>1, <3>2, <3>3, <3>4, <3>5, <4>1 DEF Announced
      <4>2. ASSUME InLoop, NEW u \in Tids, task'[u].st = "stop", task'[u].ev \in {"clone", "exec"}
            PROVE  task'[u].msg \in Tids /\ task'[task'[u].msg].st # "none"
        BY SMTT(120), <3>1, <3>2, <3>3, <3>4, <4>2 DEF Announced
      <4>3. InLoop => task'[pid].st # "none" /\ task'[pid].ev # "start"
        BY <3>1, <3>2, <3>3, <3>4 DEF Announced
      <4>4. QED
        BY <3>1, <4>1, <4>2, <4>3 DEF Announced, InLoop
    <3>11. Told'
      BY <3>1, <3>2, <3>3, <3>4 DEF Told, InLoop
    <3>12. Reaping' /\ LeavesNothingRunning'
      BY <1>3, <1>4, <3>1 DEF Reaping, LeavesNothingRunning
    <3>13. QED
      BY <3>6, <3>7, <3>8, <3>9, <3>10, <3>11, <3>12 DEF TraceInv
  <2>2. ASSUME NEW t \in Tids, Exec(t) PROVE TraceInv'
    <3>1. PICK g \in Tids : g = task[t].grp
      BY <1>3, <1>4, <2>2 DEF Exec
    <3>2. /\ task[t].st = "run" /\ task[g].grp = g /\ Tracee(g) /\ Tracee(t)
          /\ UNCHANGED <<threads, procs, pending, tracePc, want, cur>>
      BY <1>3, <1>4, <2>2, <3>1 DEF Exec, sup
    <3>3. /\ task'[g].st = "stop" /\ task'[g].grp = g /\ task'[g].ev = "exec"
          /\ task'[g].msg = t /\ task'[g].seen = FALSE
      BY <2>2, <3>1 DEF Exec, Stopped, Task
    <3>4. t # g => task'[t].st = "gone" /\ task'[t].grp = task[t].grp /\ task'[t].ev = task[t].ev
      BY <2>2, <3>1 DEF Exec, Task
    <3>5. \A u \in Tids : u # t /\ u # g => Kept(u) /\ (task'[u].st = task[u].st \/ Died(u))
      <4>1. \A u \in Tids : u # t /\ u # g => task'[u] = Killed(task, {g})[u]
        BY <2>2, <3>1 DEF Exec
      <4>2. QED
        BY <4>1, KilledAt DEF Kept, Died
    <3>6. /\ \A u \in Tids : Tracee(u)' <=> Tracee(u) /\ (u # t \/ u = g)
          /\ \A u \in Tids : task'[u].grp = task[u].grp
          /\ \A u \in Tids : u # t /\ u # g => (Unborn(u)' <=> Unborn(u))
          /\ ~(Unborn(g)')
          /\ \A u \in Tids : task'[u].st = "run" => task[u].st = "run" /\ u # t /\ u # g
          /\ \A u \in Tids : task'[u].st = "stop" => u = g \/ (task[u].st = "stop" /\ u # t)
          /\ \A u \in Tids : task'[u].st = "none" <=> task[u].st = "none"
      BY <3>1, <3>2, <3>3, <3>4, <3>5 DEF Tracee, Unborn, Kept, Died, Live
    <3>7. \A u \in Tids : Tracee(u) /\ task[u].grp = t => t = g
      BY <3>1 DEF Leaders
    <3>8. Leaders' /\ Held'
      BY <3>1, <3>2, <3>6, <3>7 DEF Leaders, Held
    <3>9. Handling'
      BY <1>3, <1>4, <3>1, <3>2, <3>3, <3>5, <3>6 DEF Handling, Kept, Died
    <3>10. Followed'
      BY <1>3, <1>4, <3>1, <3>2, <3>6 DEF Followed, InLoop
    <3>11. Announced'
      <4>1. ASSUME InLoop, NEW u \in Tids
            PROVE  /\ task'[u].st = "none" => u \notin DOMAIN threads'
                   /\ Tracee(u)' /\ Unborn(u)' /\ u \in DOMAIN threads' =>
                        u \in pending' /\ threads'[u].newborn
        BY <3>2, <3>6, <4>1 DEF Announced
      <4>2. ASSUME InLoop, NEW u \in Tids, task'[u].st = "stop", task'[u].ev \in {"clone", "exec"}
            PROVE  task'[u].msg \in Tids /\ task'[task'[u].msg].st # "none"
        BY SMTT(120), <3>2, <3>3, <3>5, <3>6, <4>2 DEF Announced, Kept
      <4>3. InLoop => task'[pid].st # "none" /\ task'[pid].ev # "start"
        BY SMTT(120), <3>3, <3>4, <3>5, <3>6 DEF Announced, Kept
      <4>4. QED
        BY <3>2, <4>1, <4>2, <4>3 DEF Announced, InLoop
    <3>12. Told'
      BY <3>2, <3>3, <3>5, <3>6 DEF Told, InLoop, Kept
    <3>13. Reaping' /\ LeavesNothingRunning'
      BY <1>3, <1>4, <3>2 DEF Reaping, LeavesNothingRunning
    <3>14. QED
      BY <3>8, <3>9, <3>10, <3>11, <3>12, <3>13 DEF TraceInv
  <2>3. ASSUME NEW t \in Tids, Stop(t) PROVE TraceInv'
    <3>1. /\ task[t].st = "run" /\ UNCHANGED <<threads, procs, pending, tracePc, want, cur>>
      BY <2>3 DEF Stop, sup
    <3>2. /\ task'[t].st = "stop" /\ task'[t].grp = task[t].grp /\ task'[t].ev = "other"
          /\ task'[t].seen = FALSE /\ \A u \in Tids : u # t => task'[u] = task[u]
      BY <2>3 DEF Stop, Stopped, Task
    <3>3. /\ \A u \in Tids : Tracee(u)' <=> Tracee(u)
          /\ \A u \in Tids : task'[u].grp = task[u].grp
          /\ \A u \in Tids : Unborn(u)' <=> Unborn(u) /\ u # t
      BY <3>1, <3>2 DEF Tracee, Unborn
    <3>4. Leaders' /\ Held'
      BY <3>1, <3>3 DEF Leaders, Held
    <3>5. Handling'
      BY <1>3, <1>4, <3>1, <3>2, <3>3 DEF Handling
    <3>6. Followed'
      BY <1>3, <1>4, <3>1, <3>2, <3>3 DEF Followed, InLoop
    <3>7. Announced'
      BY <3>1, <3>2, <3>3 DEF Announced, InLoop
    <3>8. Told'
      BY <3>1, <3>2 DEF Told, InLoop
    <3>9. Reaping' /\ LeavesNothingRunning'
      BY <1>3, <1>4, <3>1 DEF Reaping, LeavesNothingRunning
    <3>10. QED
      BY <3>4, <3>5, <3>6, <3>7, <3>8, <3>9 DEF TraceInv
  <2>4. ASSUME NEW t \in Tids, Exit(t) PROVE TraceInv'
    <3>1. \A u \in Tids : Kept(u) /\ (task'[u].st = task[u].st \/ Died(u))
      BY <2>4 DEF Exit, Kept, Died, Live, Task
    <3>2. QED
      BY <2>4, <3>1, DyingKeeps DEF Exit
  <2>5. ASSUME NEW t \in Tids, ExitGroup(t) PROVE TraceInv'
    BY <1>2, <2>5, DyingKeeps DEF ExitGroup
  <2>6. QED
    BY <1>4, <2>1, <2>2, <2>3, <2>4, <2>5 DEF Kernel
<1>5. CASE CancelContext \/ CancelWorker \/ UNCHANGED traceVars
  <2>1. \A u \in Tids : Kept(u) /\ (task'[u].st = task[u].st \/ Died(u))
    BY <1>2, <1>5 DEF CancelContext, CancelWorker, traceVars, Kept
  <2>2. UNCHANGED <<filtered, sup>>
    BY <1>0, <1>5 DEF CancelContext, CancelWorker, traceVars, sup
  <2>3. QED
    BY <2>1, <2>2, DyingKeeps
<1>6. CASE LoopTop
  <2>1. Leaders' /\ Held' /\ Handling' /\ Reaping'
    BY <1>0, <1>1, <1>6 DEF LoopTop, Leaders, Held, Handling, Reaping, Tracee
  <2>2. Followed' /\ Announced' /\ Told'
    BY <1>0, <1>1, <1>6 DEF LoopTop, Followed, Announced, Told, InLoop, Tracee, Unborn
  <2>3. LeavesNothingRunning'
    BY <1>0, <1>1, <1>6 DEF LoopTop, LeavesNothingRunning, Followed, Announced, InLoop, Tracee, Unborn
  <2>4. QED
    BY <2>1, <2>2, <2>3 DEF TraceInv
<1>7. CASE NoChild
  <2>1. Leaders' /\ Held' /\ Handling' /\ Reaping'
    BY <1>0, <1>1, <1>7 DEF NoChild, Leaders, Held, Handling, Reaping, Tracee
  <2>2. Followed' /\ Announced' /\ Told'
    BY <1>0, <1>1, <1>7 DEF NoChild, Followed, Announced, Told, InLoop, Tracee, Unborn
  <2>3. LeavesNothingRunning'
    BY <1>0, <1>1, <1>7 DEF NoChild, LeavesNothingRunning, Tracee
  <2>4. QED
    BY <2>1, <2>2, <2>3 DEF TraceInv
<1>8. ASSUME NEW t \in Tids, Wait(t) PROVE TraceInv'
  <2> USE <1>0, <1>1
  <2>1. CASE task[t].st = "dead"
    <3>1. /\ task' = [task EXCEPT ![t].st = "gone"] /\ threads' = Without(threads, {t})
          /\ procs' = procs \ {t} /\ pending' = pending \ {t} /\ tracePc = "wait4"
          /\ tracePc' = "wait" /\ cur' = cur /\ Reportable(t)
      BY <1>8, <2>1 DEF Wait
    <3>2. /\ Leaders' /\ \A u \in Tids : u # t /\ Tracee(u) => task[u].grp # t
          /\ \A u \in Tids : u # t => task'[u] = task[u]
          /\ task'[t].st = "gone" /\ task'[t].ev = task[t].ev
      BY <2>1, <3>1, ReapKeepsLeaders
    <3>3. /\ \A u \in Tids : Tracee(u)' <=> Tracee(u) /\ u # t
          /\ \A u \in Tids : u # t => (Unborn(u)' <=> Unborn(u))
          /\ DOMAIN threads' = DOMAIN threads \ {t}
          /\ \A u \in DOMAIN threads' : threads'[u] = threads[u]
      BY <3>1, <3>2 DEF Tracee, Unborn, Without
    <3>4. Held' /\ Handling' /\ Reaping' /\ LeavesNothingRunning'
      BY <3>1, <3>2, <3>3 DEF Held, Handling, Reaping, LeavesNothingRunning
    <3>5. Followed'
      BY <3>1, <3>2, <3>3 DEF Followed, InLoop
    <3>6. Announced'
      BY <3>1, <3>2, <3>3 DEF Announced, InLoop
    <3>7. Told'
      BY <3>1, <3>2 DEF Told, InLoop
    <3>8. QED
      BY <3>2, <3>4, <3>5, <3>6, <3>7 DEF TraceInv
  <2>2. CASE task[t].st # "dead"
    <3>1. /\ task' = [task EXCEPT ![t].seen = TRUE] /\ threads' = Known(t)
          /\ procs' = procs /\ pending' = pending \ {t} /\ tracePc = "wait4"
          /\ tracePc' = "handle" /\ cur'.tid = t /\ cur'.ev = task[t].ev
          /\ task[t].st = "stop" /\ ~task[t].seen
      BY <1>8, <2>2 DEF Wait, Reportable
    <3>2. /\ task'[t].st = "stop" /\ task'[t].grp = task[t].grp /\ task'[t].ev = task[t].ev
          /\ task'[t].msg = task[t].msg /\ task'[t].seen = TRUE
          /\ \A u \in Tids : u # t => task'[u] = task[u]
      BY <3>1 DEF Task
    <3>3. /\ \A u \in Tids : Tracee(u)' <=> Tracee(u)
          /\ \A u \in Tids : Unborn(u)' <=> Unborn(u) /\ u # t
          /\ \A u \in Tids : task'[u].grp = task[u].grp /\ task'[u].st = task[u].st
          /\ DOMAIN threads' = DOMAIN threads \cup {t}
          /\ \A u \in DOMAIN threads : threads'[u] = threads[u]
          /\ t \notin DOMAIN threads => threads'[t].newborn
      BY <3>1, <3>2 DEF Tracee, Unborn, Known
    <3>4. Leaders' /\ Held' /\ Reaping' /\ LeavesNothingRunning'
      BY <3>1, <3>3 DEF Leaders, Held, Reaping, LeavesNothingRunning
    <3>5. Handling'
      <4>1. task[t].ev = "start" => t # pid /\ threads'[t].newborn
        BY <3>1, <3>3 DEF Announced, InLoop, Unborn, Tracee
      <4>2. QED
        BY <3>1, <3>2, <3>3, <4>1 DEF Handling
    <3>6. Followed'
      BY <3>1, <3>2, <3>3 DEF Followed, InLoop, Unborn, Tracee
    <3>7. Announced'
      <4>1. ASSUME NEW u \in Tids
            PROVE  /\ task'[u].st = "none" => u \notin DOMAIN threads'
                   /\ Tracee(u)' /\ Unborn(u)' /\ u \in DOMAIN threads' =>
                        u \in pending' /\ threads'[u].newborn
        BY <3>1, <3>2, <3>3 DEF Announced, InLoop
      <4>2. ASSUME NEW u \in Tids, task'[u].st = "stop", task'[u].ev \in {"clone", "exec"}
            PROVE  task'[u].msg \in Tids /\ task'[task'[u].msg].st # "none"
        BY <3>1, <3>2, <3>3, <4>2 DEF Announced, InLoop
      <4>3. task'[pid].st # "none" /\ task'[pid].ev # "start"
        BY <3>1, <3>2 DEF Announced, InLoop
      <4>4. QED
        BY <4>1, <4>2, <4>3 DEF Announced
    <3>8. Told'
      BY <3>1, <3>2 DEF Told, InLoop
    <3>9. QED
      BY <3>4, <3>5, <3>6, <3>7, <3>8 DEF TraceInv
  <2>3. QED
    BY <2>1, <2>2
\* The handlers.
<1>9. ASSUME tracePc = "handle"
      PROVE  /\ Tracee(cur.tid) /\ ~Unborn(cur.tid) /\ cur.tid \in DOMAIN threads
             /\ task[cur.tid].grp \in Tids
             /\ cur.ev # "start" => task[cur.tid].grp \in procs
             /\ task[cur.tid].grp # cur.tid => task[cur.tid].grp \in procs
             /\ \A u \in Tids : u \in DOMAIN threads =>
                    /\ task[u].st # "none"
                    /\ Tracee(u) /\ Unborn(u) => u \in pending /\ threads[u].newborn
  <2>1. Tracee(cur.tid) /\ ~Unborn(cur.tid) /\ cur.tid \in DOMAIN threads
    BY <1>1, <1>9 DEF Handling, Tracee
  <2>2. QED
    BY <1>0, <1>1, <1>9, <2>1 DEF Followed, Announced, Leaders, InLoop
<1>10. ASSUME task' = Resumed(task, cur.tid)
       PROVE  /\ \A u \in Tids : /\ Kept(u)
                                 /\ \/ task'[u].st = task[u].st
                                    \/ u = cur.tid /\ task[u].st = "stop" /\ task'[u].st = "run"
              /\ task'[cur.tid].st # "stop"
  BY <1>0, <1>10, ResumedAt DEF Kept
<1>11. CASE HandleClone
  <2>1. /\ tracePc = "handle" /\ tracePc' = "wait" /\ cur.ev = "clone"
        /\ task' = Resumed(task, cur.tid) /\ UNCHANGED <<procs, cur>>
    BY <1>11 DEF HandleClone
  <2>2. ASSUME NEW u \in Tids, u \in DOMAIN threads'
        PROVE  /\ task[u].st # "none"
               /\ Tracee(u) /\ Unborn(u) => u \in pending' /\ threads'[u].newborn
    <3>1. CASE UNCHANGED <<threads, pending>>
      BY <1>9, <2>1, <2>2, <3>1
    <3>2. CASE ~Lost /\ task[cur.tid].msg \notin DOMAIN threads
      <4>1. PICK c : c = task[cur.tid].msg
        OBVIOUS
      <4>2. task[c].st # "none" /\ c \notin DOMAIN threads
        BY <1>0, <1>1, <2>1, <3>2, <4>1 DEF Lost, Handling, Announced, InLoop
      <4>3. threads' = Known(c) /\ pending' = pending \cup {c}
        BY <1>11, <3>2, <4>1 DEF HandleClone
      <4>4. u = c => threads'[u].newborn
        BY <4>2, <4>3 DEF Known
      <4>5. u # c => u \in DOMAIN threads /\ threads'[u] = threads[u]
        BY <2>2, <4>3 DEF Known
      <4>6. QED
        BY <1>9, <2>1, <4>2, <4>3, <4>4, <4>5
    <3>3. QED
      BY <1>11, <3>1, <3>2 DEF HandleClone
  <2>3. QED
    BY <1>0, <1>9, <1>10, <2>1, <2>2, ResumingKeeps
<1>12. CASE HandleExec
  <2>1. /\ tracePc = "handle" /\ tracePc' = "wait" /\ cur.ev = "exec"
        /\ task' = Resumed(task, cur.tid) /\ UNCHANGED <<procs, pending, cur>>
    BY <1>12 DEF HandleExec
  <2>2. ASSUME NEW u \in Tids, u \in DOMAIN threads'
        PROVE  u = pid \/ (u \in DOMAIN threads /\ threads'[u] = threads[u])
    BY <1>12, <2>2 DEF HandleExec, Without
  <2>3. task[pid].st # "none" /\ ~Unborn(pid)
    BY <1>1, <2>1 DEF Announced, InLoop, Unborn
  <2>4. ASSUME NEW u \in Tids, u \in DOMAIN threads'
        PROVE  /\ task[u].st # "none"
               /\ Tracee(u) /\ Unborn(u) => u \in pending' /\ threads'[u].newborn
    BY <1>9, <2>1, <2>2, <2>3, <2>4
  <2>5. QED
    BY <1>0, <1>9, <1>10, <2>1, <2>4, ResumingKeeps
<1>13. CASE HandleNewborn
  <2>0. PICK g : g = task[cur.tid].grp
    OBVIOUS
  <2>1. /\ tracePc = "handle" /\ cur.ev = "start" /\ UNCHANGED <<pending, cur>>
        /\ cur.tid # pid /\ Tracee(cur.tid) /\ g \in Tids /\ Tracee(g) /\ task[g].grp = g
    BY <1>0, <1>1, <1>9, <1>13, <2>0 DEF HandleNewborn, Handling, Leaders
  <2>2. CASE /\ g = pid
             /\ threads' = [threads EXCEPT ![cur.tid].newborn = FALSE]
             /\ task' = Resumed(task, cur.tid) /\ tracePc' = "wait" /\ UNCHANGED procs
    <3>1. g \in procs
      BY <1>9, <2>0, <2>1, <2>2
    <3>2. ASSUME NEW u \in Tids, u \in DOMAIN threads'
          PROVE  /\ task[u].st # "none"
                 /\ Tracee(u) /\ Unborn(u) => u \in pending' /\ threads'[u].newborn
      BY <1>9, <2>1, <2>2, <3>2
    <3>3. QED
      BY <1>0, <1>10, <2>0, <2>1, <2>2, <3>1, <3>2, ResumingKeeps
  <2>3. CASE /\ g # pid /\ filtered
             /\ threads' = [threads EXCEPT ![cur.tid] = [newborn |-> FALSE, foreign |-> TRUE]]
             /\ procs' = procs \cup {g}
             /\ task' = Resumed(IF cancel # "no" THEN Killed(task, procs') ELSE task, cur.tid)
             /\ tracePc' = "wait"
    <3>1. PICK T \in [Tids -> Task] :
            /\ T = task \/ T = Killed(task, procs')
            /\ task' = Resumed(T, cur.tid)
      BY <1>0, <2>3, KilledType
    <3>2. \A u \in Tids : /\ T[u].grp = task[u].grp /\ T[u].ev = task[u].ev
                          /\ T[u].msg = task[u].msg /\ T[u].seen = task[u].seen
                          /\ T[u].st = task[u].st \/ (task[u].st \in Live /\ T[u].st = "dead")
      BY <1>0, <3>1, KilledAt
    <3>3. /\ \A u \in Tids : /\ Kept(u)
                             /\ \/ task'[u].st = task[u].st \/ Died(u)
                                \/ u = cur.tid /\ task[u].st = "stop" /\ task'[u].st = "run"
          /\ task'[cur.tid].st # "stop"
      BY <1>0, <3>1, <3>2, ResumedAt DEF Kept, Died
    <3>4. ASSUME NEW u \in Tids, u \in DOMAIN threads'
          PROVE  /\ task[u].st # "none"
                 /\ Tracee(u) /\ Unborn(u) => u \in pending' /\ threads'[u].newborn
      BY <1>9, <2>1, <2>3, <3>4
    <3>5. QED
      BY <1>0, <2>0, <2>1, <2>3, <3>3, <3>4, ResumingKeeps
  \* Into the cleanup.
  <2>4. CASE /\ tracePc' = "cleanup" /\ UNCHANGED <<threads, procs>>
             /\ task' = Killed(task, {g}) \/ task' = task
    <3>1. \A u \in Tids : Kept(u) /\ (task'[u].st = task[u].st \/ Died(u))
      BY <1>0, <1>2, <2>4 DEF Kept
    <3>2. \A u \in Tids : (Tracee(u)' <=> Tracee(u)) /\ task'[u].grp = task[u].grp
      BY <3>1 DEF Tracee, Kept, Died, Live
    <3>3. Leaders' /\ Held'
      BY <1>0, <1>1, <2>4, <3>2 DEF Leaders, Held
    <3>4. QED
      BY <2>4, <3>3 DEF TraceInv, Handling, Followed, Announced, Told, InLoop, Reaping,
                        LeavesNothingRunning
  \* Detached: nobody else is in its group, since a thread is only followed with its leader.
  <2>5. CASE /\ g # pid /\ ~filtered /\ UNCHANGED procs /\ tracePc' = "wait"
             /\ task' = [task EXCEPT ![cur.tid].st = "gone"] /\ threads' = Without(threads, {cur.tid})
    <3>1. /\ task'[cur.tid].st = "gone" /\ task'[cur.tid].ev = task[cur.tid].ev
          /\ \A u \in Tids : u # cur.tid => task'[u] = task[u]
      BY <1>0, <2>5 DEF Task
    <3>2. /\ \A u \in Tids : Tracee(u)' <=> Tracee(u) /\ u # cur.tid
          /\ \A u \in Tids : u # cur.tid => (Unborn(u)' <=> Unborn(u))
          /\ DOMAIN threads' = DOMAIN threads \ {cur.tid}
          /\ \A u \in DOMAIN threads' : threads'[u] = threads[u]
      BY <2>5, <3>1 DEF Tracee, Unborn, Without
    <3>3. procs \subseteq {pid} /\ cur.tid \notin procs
      BY <1>1, <2>1, <2>5 DEF Held
    <3>4. \A u \in Tids : u # cur.tid /\ Tracee(u) => task[u].grp # cur.tid
      BY <1>1, <2>1, <3>3 DEF Followed, InLoop
    <3>5. Leaders' /\ Held'
      BY <1>0, <1>1, <2>5, <3>1, <3>2, <3>3, <3>4 DEF Leaders, Held
    <3>6. Handling' /\ Reaping' /\ LeavesNothingRunning'
      BY <2>5 DEF Handling, Reaping, LeavesNothingRunning
    <3>7. Followed'
      BY <1>1, <2>1, <2>5, <3>1, <3>2 DEF Followed, InLoop
    <3>8. Announced'
      BY <1>0, <1>1, <2>1, <2>5, <3>1, <3>2 DEF Announced, InLoop
    <3>9. Told'
      BY <1>1, <2>1, <2>5, <3>1, <3>2 DEF Told, InLoop
    <3>10. QED
      BY <3>5, <3>6, <3>7, <3>8, <3>9 DEF TraceInv
  <2>6. QED
    BY <1>13, <2>0, <2>2, <2>3, <2>4, <2>5 DEF HandleNewborn
<1>14. CASE HandleOther
  <2>1. /\ tracePc = "handle" /\ UNCHANGED <<threads, procs, pending, cur>>
        /\ cur.ev = "other" \/ (cur.ev = "start" /\ ~threads[cur.tid].newborn)
    BY <1>14 DEF HandleOther
  <2>2. CASE task' = Resumed(task, cur.tid) /\ tracePc' = "wait"
    <3>1. task[cur.tid].grp \in procs
      BY <1>1, <1>9, <2>1 DEF Handling
    <3>2. QED
      BY <1>0, <1>9, <1>10, <2>1, <2>2, <3>1, ResumingKeeps
  <2>3. CASE tracePc' = "cleanup" /\ UNCHANGED task
    <3>1. Leaders' /\ Held'
      BY <1>0, <1>1, <2>1, <2>3 DEF Leaders, Held, Tracee
    <3>2. QED
      BY <2>3, <3>1 DEF TraceInv, Handling, Followed, Announced, Told, InLoop, Reaping,
                        LeavesNothingRunning
  <2>4. QED
    BY <1>14, <2>2, <2>3 DEF HandleOther
\* The cleanup.
<1>15. CASE CleanupKill
  <2>1. /\ tracePc' = "reap" /\ task' = Killed(task, procs \cup tracedProcesses)
        /\ DOMAIN threads' = DOMAIN threads \cup tracedProcesses /\ procs' = procs
    BY <1>15 DEF CleanupKill
  <2>2. \A u \in Tids : /\ Kept(u) /\ (task'[u].st = task[u].st \/ Died(u))
                        /\ task[u].grp \in tracedProcesses /\ task[u].st \in Live => task'[u].st = "dead"
    BY ZenonT(60), <1>0, <1>2, <2>1, KilledAt
  <2>3. \A u \in Tids : (Tracee(u)' <=> Tracee(u)) /\ task'[u].grp = task[u].grp
    BY <2>2 DEF Tracee, Kept, Died, Live
  <2>4. Leaders' /\ Held'
    <3>1. procs' = procs
      BY <2>1
    <3>2. QED
      BY <1>0, <1>1, <2>3, <3>1 DEF Leaders, Held
  <2>5. \A u \in Tids : Tracee(u) => task[u].grp \in tracedProcesses
    BY <1>1 DEF Leaders, tracedProcesses
  <2>6. Reaping'
    <3>1. ASSUME NEW u \in Tids, Tracee(u)'
          PROVE  task'[u].st = "dead" /\ task'[u].grp \in DOMAIN threads'
      <4>1. Tracee(u) /\ task[u].grp \in tracedProcesses /\ task'[u].grp = task[u].grp
        BY <2>3, <2>5, <3>1
      <4>2. task'[u].st = "dead"
        BY <2>2, <4>1 DEF Tracee, Died, Live
      <4>3. QED
        BY <2>1, <4>1, <4>2
    <3>2. QED
      BY <3>1 DEF Reaping
  <2>7. QED
    BY <2>1, <2>4, <2>6 DEF TraceInv, Handling, Followed, Announced, Told, InLoop,
                           LeavesNothingRunning
<1>16. ASSUME NEW t \in Tids, CleanupReap(t) PROVE TraceInv'
  <2>1. task[t].st = "dead"
    BY <1>1, <1>16 DEF CleanupReap, Reportable, Reaping, Tracee
  <2>2. /\ task' = [task EXCEPT ![t].st = "gone"] /\ threads' = Without(threads, {t})
        /\ procs' = procs \ {t} /\ tracePc = "reap" /\ tracePc' = "reap" /\ Reportable(t)
    BY <1>16, <2>1 DEF CleanupReap
  <2>3. /\ Leaders' /\ \A u \in Tids : u # t /\ Tracee(u) => task[u].grp # t
        /\ \A u \in Tids : u # t => task'[u] = task[u]
        /\ task'[t].st = "gone"
    BY <1>1, <2>1, <2>2, ReapKeepsLeaders
  <2>4. /\ \A u \in Tids : Tracee(u)' <=> Tracee(u) /\ u # t
        /\ DOMAIN threads' = DOMAIN threads \ {t}
    BY <2>2, <2>3 DEF Tracee, Without
  <2>5. Held' /\ Reaping'
    BY <1>0, <1>1, <2>2, <2>3, <2>4 DEF Held, Reaping
  <2>6. QED
    BY <2>2, <2>3, <2>5 DEF TraceInv, Handling, Followed, Announced, Told, InLoop,
                           LeavesNothingRunning
<1>17. CASE CleanupEnd
  <2>1. Leaders' /\ Held'
    BY <1>0, <1>1, <1>17 DEF CleanupEnd, Leaders, Held, Tracee
  <2>2. LeavesNothingRunning'
    BY <1>1, <1>17 DEF CleanupEnd, LeavesNothingRunning, Reaping, Tracee
  <2>3. QED
    BY <1>17, <2>1, <2>2 DEF CleanupEnd, TraceInv, Handling, Followed, Announced, Told, InLoop, Reaping
<1>18. QED
  BY <1>4, <1>5, <1>6, <1>7, <1>8, <1>11, <1>12, <1>13, <1>14, <1>15, <1>16, <1>17
     DEF TraceNext, Supervisor, Ended

LEMMA InvCorrect == TraceSpec => [](TraceTypeOK /\ TraceInv)
  BY InitType, InitInv, NextType, NextInv, PTL DEF TraceSpec

-----------------------------------------------------------------------------
(* What follows for the run *)

\* For any number of tasks: the tasks, the supervisor's tables and its place in the
\* loop keep their types.
THEOREM TypeCorrect == TraceSpec => []TraceTypeOK
  BY InvCorrect, PTL

\* For any number of tasks: the wait loop leaves no reported stop behind, whatever
\* dies, execs or is cancelled while a handler runs.
THEOREM StopsHandled == TraceSpec => []NoForgottenStop
<1>1. TraceInv => NoForgottenStop
  BY DEF TraceInv, Told, InLoop, NoForgottenStop
<1>2. QED
  BY <1>1, InvCorrect, PTL

\* For any number of tasks: a loop that ends normally leaves no task it knows and none
\* that ran, and the cleanup of a supervisor error leaves no tracee.
THEOREM LeavesCorrect == TraceSpec => []LeavesNothingRunning
<1>1. TraceInv => LeavesNothingRunning
  BY DEF TraceInv
<1>2. QED
  BY <1>1, InvCorrect, PTL

=============================================================================
