---------------------------- MODULE InjectLoad ----------------------------
(* syscallhook.supervisor: what happens to one traced thread's BPF_BTF_LOAD and *)
(* BPF_PROG_LOAD calls. A matched PROG_LOAD is skipped at its entry and replaced *)
(* by calls the supervisor makes in the stopped thread (remote): a trial load    *)
(* for the stack floors, the rewritten load, the original one or a refusal.      *)
(* Every remote call can fail with an errno or lose the ptrace stop (broken).    *)
EXTENDS Integers, FiniteSets

CONSTANTS
    Fds, Btfs,        \* fds of the target and BTF objects (kernel ids)
    LoadSize(_),          \* length of a BTF object's blob
    LoadNamed,            \* BTF objects whose entry function has the name a full-name rule gives
    scratchSize

ASSUME LoadAssumption ==
    LoadNamed \subseteq Btfs /\ scratchSize \in Nat /\ \A b \in Btfs : LoadSize(b) \in 1..scratchSize

VARIABLES
    conf,             \* [closed, auto, rules, discover]: options and the rules that can match
    fdt,              \* fd table of the target: a BTF object, or 0
    cache, cacheBytes,\* supervisor.btf by fd: [id, blob], and the bytes it holds
    loadCall,             \* the call being made: [fd, attr, indirect]
    remote,           \* [mask, mapped, tmp]: blocked signals, scratch mapping, fds made for this call
    progs,            \* programs of this call the kernel holds: "trial", "inj", "repeat", "orig"
    loadGot,              \* what the supervisor found and has to do: [rule, stack, spec, checked, miss, again, err]
    loadPc, res           \* next step, and the result the target sees

loadVars == <<conf, fdt, cache, cacheBytes, loadCall, remote, progs, loadGot, loadPc, res>>

\* The thread as the target has it, but for the fds in T.
Restored(T) == [mask |-> "own", mapped |-> FALSE, tmp |-> T]
NoRemote == Restored({})
NoFinding == [rule |-> "", stack |-> "", spec |-> 0, checked |-> FALSE, miss |-> FALSE, again |-> FALSE, err |-> FALSE]
Rules == {"kernel", "full"}   \* selected by the kernel program name, or by the entry function's

LoadInit ==
    /\ conf \in [closed : BOOLEAN, auto : BOOLEAN, rules : SUBSET Rules, discover : BOOLEAN]
    /\ fdt = [f \in Fds |-> 0]
    /\ cache = [f \in {} |-> 0] /\ cacheBytes = 0
    /\ loadCall = [fd |-> 0, attr |-> "ok", indirect |-> FALSE]
    /\ remote = NoRemote /\ progs = {} /\ loadGot = NoFinding
    /\ loadPc = "run" /\ res = "none"

-----------------------------------------------------------------------------
(* The target, between the calls the filter stops *)

\* What a call leaves behind is counted per call.
NewCall == remote' = NoRemote /\ progs' = {} /\ loadGot' = NoFinding /\ res' = "none"

\* close, or dup2 of another fd (or of an inherited object): the supervisor does not see it.
Redirect(f, b) ==
    /\ loadPc = "run" /\ fdt[f] # b
    /\ fdt' = [fdt EXCEPT ![f] = b]
    /\ NewCall /\ UNCHANGED <<conf, cache, cacheBytes, loadCall, loadPc>>

\* The blob is read at the entry and the call runs; exit remembers it below.
BtfLoad(f, b) ==
    /\ loadPc = "run" /\ fdt[f] = 0
    /\ fdt' = [fdt EXCEPT ![f] = b]
    /\ loadCall' = [fd |-> f, attr |-> "ok", indirect |-> FALSE]
    /\ loadPc' = "exit"
    /\ NewCall /\ UNCHANGED <<conf, cache, cacheBytes>>

\* A BTF_LOAD whose attr or blob cannot be read: skipEntry refuses it under fail-closed,
\* and otherwise it runs without being remembered.
BtfLoadUnread(f, b) ==
    /\ loadPc = "run" /\ fdt[f] = 0
    /\ IF conf.closed
       THEN /\ loadPc' \in {"run", "killed"} /\ res' = IF loadPc' = "run" THEN "eperm" ELSE "none"
            /\ UNCHANGED fdt
       ELSE loadPc' = "run" /\ res' = "none" /\ fdt' = [fdt EXCEPT ![f] = b]
    /\ remote' = NoRemote /\ progs' = {} /\ loadGot' = NoFinding
    /\ UNCHANGED <<conf, cache, cacheBytes, loadCall>>

ProgLoad(f, attr, indirect) ==
    /\ loadPc = "run"
    /\ loadCall' = [fd |-> f, attr |-> attr, indirect |-> indirect]
    /\ loadPc' = "entry"
    /\ NewCall /\ UNCHANGED <<conf, fdt, cache, cacheBytes>>

\* exec: the BTF fds were opened close-on-exec, and the cache is emptied.
Exec ==
    /\ loadPc = "run"
    /\ fdt' = [f \in Fds |-> 0] /\ cache' = [f \in {} |-> 0] /\ cacheBytes' = 0
    /\ NewCall /\ UNCHANGED <<conf, loadCall, loadPc>>

-----------------------------------------------------------------------------
(* exit: remembering a loaded BTF *)

LoadStore(f, b, held, bytes) ==
    /\ cache' = [g \in DOMAIN held \cup {f} |-> IF g = f THEN [id |-> b, blob |-> b] ELSE held[g]]
    /\ cacheBytes' = bytes - (IF f \in DOMAIN held THEN LoadSize(held[f].blob) ELSE 0) + LoadSize(b)

\* The fd's object id is queried; a failed query leaves the cache as it was, a lost stop
\* ends the run.
Remember ==
    /\ loadPc = "exit"
    /\ \/ loadPc' \in {"run", "killed"} /\ UNCHANGED <<cache, cacheBytes>>
       \/ /\ loadPc' = "run"
          /\ LET f == loadCall.fd  b == fdt[f] IN
             IF cacheBytes + LoadSize(b) > scratchSize
             THEN LoadStore(f, b, [g \in {} |-> 0], 0)
             ELSE LoadStore(f, b, cache, cacheBytes)
    /\ UNCHANGED <<conf, fdt, loadCall, remote, progs, loadGot, res>>

-----------------------------------------------------------------------------
(* entry *)

\* Rules that match a kernel name (always the one of a "kernel" rule) or entry function e.
Matching(e) == {r \in conf.rules : r = "kernel" \/ e \in LoadNamed}
selectRule(e) == IF Cardinality(Matching(e)) > 1 THEN "ambiguous"
                 ELSE IF Matching(e) = {} THEN "" ELSE CHOOSE r \in Matching(e) : TRUE

Native == loadPc' = "run" /\ UNCHANGED remote /\
          (\/ res' = "orig" /\ progs' = {"orig"}
           \/ res' = "fail" /\ UNCHANGED progs)

\* skipEntry: the call proceeds, or fails with EPERM.
skipEntry ==
    IF conf.closed
    THEN \/ loadPc' = "killed" /\ res' = "none" /\ UNCHANGED <<remote, progs>>
         \/ loadPc' = "run" /\ res' = "eperm" /\ UNCHANGED <<remote, progs>>
    ELSE Native

\* The name of the entry function comes from the remembered BTF, not yet from the live fd.
LoadEntry ==
    /\ loadPc = "entry"
    /\ LET e == IF loadCall.fd \in DOMAIN cache THEN cache[loadCall.fd].blob ELSE 0
           rule == selectRule(e)
       IN IF loadCall.attr = "unread" \/ rule = "ambiguous" THEN skipEntry /\ loadGot' = [loadGot EXCEPT !.rule = rule]
          ELSE IF rule = "" /\ ~conf.discover THEN Native /\ UNCHANGED loadGot
          ELSE IF loadCall.attr = "unsupported"
               THEN /\ loadGot' = [loadGot EXCEPT !.rule = rule]
                    /\ IF rule = "" THEN Native ELSE skipEntry
          ELSE /\ loadGot' = [loadGot EXCEPT !.rule = rule]
               /\ \/ loadPc' = "preload" /\ remote' = [remote EXCEPT !.mask = "blocked"]
                  \/ loadPc' = "killed" /\ UNCHANGED remote
               /\ UNCHANGED <<res, progs>>
    /\ UNCHANGED <<conf, fdt, cache, cacheBytes, loadCall>>

-----------------------------------------------------------------------------
(* Remote calls. Broken is decided by the caller's next check of r.broken; nothing is *)
(* done in the tracee in between, so it goes straight to the end of the run.           *)

Broken == loadPc' = "killed" /\ UNCHANGED <<remote, progs, loadGot, res>>
KeepCall == UNCHANGED <<conf, fdt, cache, cacheBytes, loadCall>>
Mapped == [remote EXCEPT !.mapped = TRUE]

\* The BTF the load's fd names: remembered while the id agrees, else the kernel's copy.
programBTF ==
    IF loadCall.fd \in DOMAIN cache /\ cache[loadCall.fd].id = fdt[loadCall.fd]
    THEN cache[loadCall.fd].blob ELSE fdt[loadCall.fd]

\* preloadDepths: an indirect jump is not tried; a trial load may be refused.
Preload ==
    /\ loadPc = "preload"
    /\ \/ Broken
       \/ /\ \E why \in {"other", IF loadCall.indirect THEN "indirect" ELSE "verifier"} :
                loadGot' = [loadGot EXCEPT !.stack = why]
          /\ remote' \in {remote, Mapped}
          /\ loadPc' = "discover" /\ UNCHANGED <<progs, res>>
       \/ /\ ~loadCall.indirect /\ fdt[loadCall.fd] # 0
          /\ remote' = [Mapped EXCEPT !.tmp = {"trial"}]
          /\ progs' = {"trial"}
          /\ loadPc' = "close trial" /\ UNCHANGED <<loadGot, res>>
    /\ KeepCall

\* withTrialProgram: closed whatever the work did; either failing is a stack error. A
\* close that fails is not tried again, and the program stays.
CloseTrial ==
    /\ loadPc = "close trial"
    /\ \/ Broken
       \/ /\ \E stack \in {"ok", "other"} : loadGot' = [loadGot EXCEPT !.stack = stack]
          /\ remote' = [remote EXCEPT !.tmp = {}] /\ progs' = {}
          /\ loadPc' = "discover" /\ UNCHANGED res
       \/ /\ loadGot' = [loadGot EXCEPT !.stack = "unclosed"]
          /\ loadPc' = "discover" /\ UNCHANGED <<remote, progs, res>>
    /\ KeepCall

\* discover only reads; without a rule the original call is made.
Discover ==
    /\ loadPc = "discover"
    /\ \/ conf.discover /\ Broken
       \/ /\ loadPc' = IF loadGot.rule = "" THEN "original" ELSE IF loadGot.stack = "ok" THEN "transform" ELSE "decide"
          /\ loadGot' = [loadGot EXCEPT !.err = loadGot.rule # "" /\ loadGot.stack # "ok"]
          /\ UNCHANGED <<remote, progs, res>>
    /\ KeepCall

\* transformLoad up to its BTF load: the live BTF must still select the same rule, and the
\* checker must apply under fail-closed; every failure leaves an injection error.
LoadTransform ==
    /\ loadPc = "transform"
    /\ \/ Broken
       \/ /\ loadGot' = [loadGot EXCEPT !.err = TRUE]
          /\ loadPc' = "decide" /\ UNCHANGED <<remote, progs, res>>
       \/ \E applies \in BOOLEAN :
          /\ fdt[loadCall.fd] # 0 /\ selectRule(programBTF) = loadGot.rule
          /\ applies \/ ~conf.closed
          /\ loadGot' = [loadGot EXCEPT !.spec = programBTF, !.checked = applies]
          /\ remote' = [Mapped EXCEPT !.tmp = {"btf"}]
          /\ loadPc' = "load" /\ UNCHANGED <<progs, res>>
    /\ KeepCall

\* The buffers are allocated, the stream is read back and checked, and the rewritten
\* program loaded; the kernel's output is copied to the caller's attr, or the stop is lost.
LoadRewritten ==
    /\ loadPc = "load"
    /\ \/ Broken
       \/ /\ loadGot' = [loadGot EXCEPT !.err = TRUE]
          /\ loadPc' \in {"close btf"} \cup (IF loadGot.miss THEN {} ELSE {"repeat"})
          /\ UNCHANGED <<remote, progs, res>>
       \/ /\ progs' = {"inj"} /\ remote' = [remote EXCEPT !.tmp = @ \cup {"inj"}]
          /\ loadPc' = "close btf" /\ UNCHANGED <<loadGot, res>>
    /\ KeepCall

\* Mutant: a repeated load that is accepted is left open.
hitJumpLimitOpen ==
    /\ loadPc = "repeat"
    /\ \/ Broken
       \/ /\ loadGot' \in {loadGot, [loadGot EXCEPT !.miss = TRUE, !.again = TRUE]}
          /\ loadPc' = "close btf" /\ UNCHANGED <<remote, progs, res>>
       \/ /\ progs' = {"repeat"} /\ remote' = [remote EXCEPT !.tmp = @ \cup {"repeat"}]
          /\ loadPc' = "close btf" /\ UNCHANGED <<loadGot, res>>
    /\ KeepCall

\* hitJumpLimit: the refused load is repeated with a log of its own; the limit asks for a
\* miss-first rewrite, and a load that is accepted this time is closed again.
hitJumpLimit ==
    /\ loadPc = "repeat"
    /\ \/ Broken
       \/ /\ loadGot' \in {loadGot, [loadGot EXCEPT !.miss = TRUE, !.again = TRUE]}
          /\ loadPc' = "close btf" /\ UNCHANGED <<remote, progs, res>>
       \/ /\ progs' = {"repeat"} /\ remote' = [remote EXCEPT !.tmp = @ \cup {"repeat"}]
          /\ loadPc' = "close repeat" /\ UNCHANGED <<loadGot, res>>
    /\ KeepCall

\* A close that fails here, or of the injected BTF, loses the run.
CloseRepeat ==
    /\ loadPc = "close repeat"
    /\ \/ Broken
       \/ /\ progs' = {} /\ remote' = [remote EXCEPT !.tmp = @ \ {"repeat"}]
          /\ loadPc' = "close btf" /\ UNCHANGED <<loadGot, res>>
    /\ KeepCall

\* The jump limit retries the transform once, in the other layout.
CloseBtf ==
    /\ loadPc = "close btf"
    /\ \/ Broken
       \/ /\ remote' = [remote EXCEPT !.tmp = @ \ {"btf"}]
          /\ loadPc' = IF loadGot.err /\ loadGot.again THEN "transform" ELSE "decide"
          /\ loadGot' = [loadGot EXCEPT !.err = loadGot.err /\ ~loadGot.again, !.again = FALSE]
          /\ UNCHANGED <<progs, res>>
    /\ KeepCall

\* An explicit rule also refuses when the floors are missing for no fault of the program.
NoFloors == loadGot.stack \in {"other", "unclosed"}
refuse == conf.closed \/ (NoFloors /\ ~conf.auto)

\* retryOriginalOrRefuse, or the program ID query of an injected load.
Decide ==
    /\ loadPc = "decide"
    /\ IF loadGot.err
       THEN IF refuse
            THEN res' = "eperm" /\ loadPc' = "finish" /\ UNCHANGED <<remote, progs, loadGot>>
            ELSE loadPc' = "original" /\ UNCHANGED <<remote, progs, loadGot, res>>
       ELSE \/ Broken
            \/ res' = "inj" /\ loadPc' = "finish" /\ UNCHANGED <<remote, progs, loadGot>>
    /\ KeepCall

\* The call with its original registers.
LoadOriginal ==
    /\ loadPc = "original"
    /\ \/ Broken
       \/ /\ res' = "orig" /\ progs' = progs \cup {"orig"}
          /\ loadPc' = "finish" /\ UNCHANGED <<remote, loadGot>>
       \/ res' = "fail" /\ loadPc' = "finish" /\ UNCHANGED <<remote, progs, loadGot>>
    /\ KeepCall

\* finish: unmap, restore the registers with the result, then the signal mask.
finish ==
    /\ loadPc = "finish"
    /\ \/ Broken
       \/ /\ remote' = Restored(remote.tmp \ {"inj"})
          /\ loadPc' = "run" /\ UNCHANGED <<progs, loadGot, res>>
    /\ KeepCall

Killed == loadPc = "killed" /\ UNCHANGED loadVars

-----------------------------------------------------------------------------
LoadTarget ==
    \/ \E f \in Fds, b \in Btfs \cup {0} : Redirect(f, b)
    \/ \E f \in Fds, b \in Btfs : BtfLoad(f, b) \/ BtfLoadUnread(f, b)
    \/ \E f \in Fds, a \in {"ok", "unread", "unsupported"}, i \in BOOLEAN : ProgLoad(f, a, i)
    \/ Exec

Supervisor ==
    \/ Remember \/ LoadEntry \/ Preload \/ CloseTrial \/ Discover \/ LoadTransform \/ LoadRewritten
    \/ hitJumpLimit \/ CloseRepeat \/ CloseBtf \/ Decide \/ LoadOriginal \/ finish

LoadNext == LoadTarget \/ Supervisor \/ Killed

LoadSpec == LoadInit /\ [][LoadNext]_loadVars

-----------------------------------------------------------------------------
Conf == [closed : BOOLEAN, auto : BOOLEAN, rules : SUBSET Rules, discover : BOOLEAN]
FuncCall == [fd : Fds \cup {0}, attr : {"ok", "unread", "unsupported"}, indirect : BOOLEAN]
Remote == [mask : {"own", "blocked"}, mapped : BOOLEAN, tmp : SUBSET {"trial", "btf", "inj", "repeat"}]
Finding == [rule : Rules \cup {"", "ambiguous"}, stack : {"", "ok", "other", "unclosed", "indirect", "verifier"},
            spec : Btfs \cup {0}, checked : BOOLEAN, miss : BOOLEAN, again : BOOLEAN, err : BOOLEAN]

\* The fd table, the calls and the supervisor's findings keep their types, and the
\* remembered BTF objects stay within the scratch size.
LoadTypeOK ==
    /\ conf \in Conf /\ fdt \in [Fds -> Btfs \cup {0}]
    /\ DOMAIN cache \subseteq Fds /\ cache \in [DOMAIN cache -> [id : Btfs, blob : Btfs]]
    /\ cacheBytes \in Int /\ cacheBytes <= scratchSize
    /\ loadCall \in FuncCall /\ remote \in Remote /\ loadGot \in Finding
    /\ progs \subseteq {"trial", "inj", "repeat", "orig"}
    /\ loadPc \in {"run", "killed", "exit", "entry", "preload", "close trial", "discover", "transform",
                   "load", "repeat", "close repeat", "close btf", "decide", "original", "finish"}
    /\ res \in {"none", "orig", "inj", "eperm", "fail"}

\* When the target runs again nothing of the supervisor's work is left in it: no fd, no
\* mapping, its own signal mask; and the kernel holds one program exactly when the target
\* got a fd for it. A trial program that could not be closed, which is an error of the
\* load, is the one thing that may stay.
Unclosed == IF loadGot.stack = "unclosed" THEN {"trial"} ELSE {}
CleanReturn ==
    loadPc = "run" /\ res # "none" =>
        /\ remote = Restored(Unclosed)
        /\ progs = Unclosed \cup (IF res \in {"orig", "inj"} THEN {res} ELSE {})

\* --fail-closed: a program matched by its kernel name is never loaded without its hooks,
\* and never unchecked.
FailClosedHolds ==
    loadPc = "run" /\ res # "none" /\ conf.closed /\ "kernel" \in conf.rules =>
        res \in {"inj", "eperm"} /\ (res = "inj" => loadGot.checked)

\* Without --fail-closed only an explicit rule whose stack floors are unavailable is
\* refused; every other failure loads the original program.
FailOpenHolds ==
    loadPc = "run" /\ res = "eperm" /\ ~conf.closed => NoFloors /\ ~conf.auto

\* The rewrite uses the BTF its fd names at the load, and an injected program's rule
\* matches that BTF, whatever the target did to the fd since it was remembered.
RewritesLiveBTF ==
    /\ loadPc = "load" => loadGot.spec = fdt[loadCall.fd]
    /\ res = "inj" => selectRule(loadGot.spec) = loadGot.rule

\* One load as the target and the operator see it, whatever fails on the way: the policy
\* is kept, the rewrite is of the BTF the load names, and nothing is left behind.
LoadSound == CleanReturn /\ FailClosedHolds /\ FailOpenHolds /\ RewritesLiveBTF
=============================================================================
