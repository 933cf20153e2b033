-------------------------- MODULE InjectLoadProofs --------------------------
(* What holds of the supervised BPF_PROG_LOAD for any number of fds and BTF   *)
(* objects, whatever the target does to its fds between calls and whichever   *)
(* remote call fails: the load policy is kept, the rewrite is of the BTF the  *)
(* load names, and nothing of the supervisor's work is left in the target.    *)
EXTENDS InjectLoad, TLAPS

-----------------------------------------------------------------------------
(* The inductive invariant: what the supervisor holds in the stopped thread   *)
(* at each of its steps, and what it has decided so far.                      *)

Result == IF res \in {"orig", "inj"} THEN {res} ELSE {}
Holds(tmp, ps) == remote.tmp = tmp /\ progs = ps

Holding ==
    /\ loadPc \in {"exit", "entry"} => remote = NoRemote /\ progs = {} /\ loadGot = NoFinding
    /\ loadPc = "run" => remote = Restored(Unclosed) /\ progs = Unclosed \cup Result
    /\ loadPc \in {"preload", "transform"} => Holds({}, {})
    /\ loadPc \in {"discover", "original"} => Holds(Unclosed, Unclosed)
    /\ loadPc = "close trial" => Holds({"trial"}, {"trial"})
    /\ loadPc \in {"load", "repeat"} => Holds({"btf"}, {})
    /\ loadPc = "close repeat" => Holds({"btf", "repeat"}, {"repeat"})
    /\ loadPc = "close btf" =>
          IF loadGot.err THEN Holds({"btf"}, {}) ELSE Holds({"btf", "inj"}, {"inj"})
    /\ loadPc = "decide" =>
          IF loadGot.err THEN Holds(Unclosed, Unclosed) ELSE Holds({"inj"}, {"inj"})
    /\ loadPc = "finish" =>
          Holds(Unclosed \cup (IF res = "inj" THEN {"inj"} ELSE {}), Unclosed \cup Result)

\* The rewritten program was checked as the policy asks, and its rule matches its BTF.
Rewritten ==
    /\ conf.closed => loadGot.checked
    /\ selectRule(loadGot.spec) = loadGot.rule

Decided ==
    /\ loadPc \notin {"run", "killed"} => loadCall.fd \in Fds
    /\ loadPc \notin {"run", "killed", "finish"} => res = "none"
    /\ loadPc = "exit" => fdt[loadCall.fd] \in Btfs
    /\ loadPc \notin {"run", "killed", "exit", "entry"} /\ "kernel" \in conf.rules =>
          loadGot.rule # ""
    /\ loadPc = "original" /\ conf.closed => loadGot.rule = ""
    /\ loadPc \in {"repeat", "close repeat"} => loadGot.err
    /\ loadPc \in {"transform", "load"} => ~loadGot.err
    /\ loadPc = "load" => loadGot.spec = fdt[loadCall.fd]
    /\ loadPc \in {"load", "close btf", "decide"} /\ ~loadGot.err => Rewritten
    /\ loadPc = "preload" => loadGot.stack = ""
    /\ loadPc \in {"transform", "load", "repeat", "close repeat", "close btf"} => loadGot.stack = "ok"
    /\ loadPc = "decide" /\ ~loadGot.err => loadGot.stack = "ok"

\* What the result the target sees rests on.
Policy ==
    /\ res \in {"orig", "fail"} => ~(conf.closed /\ "kernel" \in conf.rules)
    /\ res = "inj" => Rewritten /\ loadGot.stack = "ok"
    /\ res = "eperm" => conf.closed \/ (NoFloors /\ ~conf.auto)

Remembered == \A f \in DOMAIN cache : cache[f].blob = cache[f].id

LoadInv == Holding /\ Decided /\ Policy /\ Remembered

-----------------------------------------------------------------------------
(* Types *)

\* What a rule selection can return.
LEMMA Selected ==
    ASSUME conf \in Conf, NEW e
    PROVE  /\ selectRule(e) \in Rules \cup {"", "ambiguous"}
           /\ "kernel" \in conf.rules => selectRule(e) # ""
<1>1. Matching(e) \subseteq Rules /\ ("kernel" \in conf.rules => Matching(e) # {})
  BY DEF Matching, Conf
<1>2. Matching(e) # {} => (CHOOSE r \in Matching(e) : TRUE) \in Matching(e)
  OBVIOUS
<1>3. QED
  BY <1>1, <1>2 DEF selectRule, Rules

\* What is found out about a load is recorded field by field.
LEMMA FindingFields ==
    ASSUME NEW g \in Finding
    PROVE  /\ \A r \in Rules \cup {"", "ambiguous"} : [g EXCEPT !.rule = r] \in Finding
           /\ \A s \in {"", "ok", "other", "unclosed", "indirect", "verifier"} : [g EXCEPT !.stack = s] \in Finding
           /\ \A b \in BOOLEAN : [g EXCEPT !.err = b] \in Finding
           /\ [g EXCEPT !.miss = TRUE, !.again = TRUE] \in Finding
           /\ \A b \in BOOLEAN : [g EXCEPT !.err = b, !.again = FALSE] \in Finding
           /\ \A s \in Btfs \cup {0}, b \in BOOLEAN : [g EXCEPT !.spec = s, !.checked = b] \in Finding
<1>1. ASSUME NEW r \in Rules \cup {"", "ambiguous"} PROVE [g EXCEPT !.rule = r] \in Finding
  BY DEF Finding
<1>2. ASSUME NEW s \in {"", "ok", "other", "unclosed", "indirect", "verifier"}
      PROVE  [g EXCEPT !.stack = s] \in Finding
  BY DEF Finding
<1>3. ASSUME NEW b \in BOOLEAN PROVE [g EXCEPT !.err = b] \in Finding
  BY DEF Finding
<1>4. [g EXCEPT !.miss = TRUE, !.again = TRUE] \in Finding
  BY DEF Finding
<1>5. ASSUME NEW b \in BOOLEAN PROVE [g EXCEPT !.err = b, !.again = FALSE] \in Finding
  BY DEF Finding
<1>6. ASSUME NEW s \in Btfs \cup {0}, NEW b \in BOOLEAN
      PROVE  [g EXCEPT !.spec = s, !.checked = b] \in Finding
  BY DEF Finding
<1>7. QED
  BY <1>1, <1>2, <1>3, <1>4, <1>5, <1>6

LEMMA NoFindingType == NoFinding \in Finding /\ NoRemote \in Remote
  BY DEF NoFinding, Finding, NoRemote, Restored, Remote

\* The scratch mapping, the signal mask and the fds of the supervisor change one at a time.
LEMMA RemoteFields ==
    ASSUME NEW r \in Remote
    PROVE  /\ [r EXCEPT !.mapped = TRUE] \in Remote /\ [r EXCEPT !.mask = "blocked"] \in Remote
           /\ \A T \in SUBSET {"trial", "btf", "inj", "repeat"} :
                 /\ [r EXCEPT !.tmp = T] \in Remote
                 /\ Restored(T) \in Remote
           /\ r.tmp \subseteq {"trial", "btf", "inj", "repeat"}
<1>1. [r EXCEPT !.mapped = TRUE] \in Remote
  BY DEF Remote
<1>2. [r EXCEPT !.mask = "blocked"] \in Remote
  BY DEF Remote
<1>3. ASSUME NEW T \in SUBSET {"trial", "btf", "inj", "repeat"}
      PROVE  [r EXCEPT !.tmp = T] \in Remote
  BY DEF Remote
<1>4. ASSUME NEW T \in SUBSET {"trial", "btf", "inj", "repeat"}
      PROVE  Restored(T) \in Remote
  BY DEF Restored, Remote
<1>5. r.tmp \subseteq {"trial", "btf", "inj", "repeat"}
  BY DEF Remote
<1>6. QED
  BY <1>1, <1>2, <1>3, <1>4, <1>5

LEMMA InitType == LoadInit => LoadTypeOK
<1> SUFFICES ASSUME LoadInit PROVE LoadTypeOK
  OBVIOUS
<1>1. conf \in Conf
  BY DEF LoadInit, Conf
<1>2. loadCall \in FuncCall
  BY DEF LoadInit, FuncCall
<1>3. cacheBytes \in Int /\ cacheBytes <= scratchSize
  BY LoadAssumption DEF LoadInit
<1>4. QED
  BY <1>1, <1>2, <1>3, NoFindingType DEF LoadInit, LoadTypeOK

LEMMA NextType == LoadTypeOK /\ LoadInv /\ [LoadNext]_loadVars => LoadTypeOK'
<1> SUFFICES ASSUME LoadTypeOK, LoadInv, [LoadNext]_loadVars PROVE LoadTypeOK'
  OBVIOUS
<1>0. /\ conf \in Conf /\ fdt \in [Fds -> Btfs \cup {0}]
      /\ DOMAIN cache \subseteq Fds /\ cache \in [DOMAIN cache -> [id : Btfs, blob : Btfs]]
      /\ cacheBytes \in Int /\ cacheBytes <= scratchSize
      /\ loadCall \in FuncCall
  BY DEF LoadTypeOK
<1>r. remote \in Remote
  BY DEF LoadTypeOK
<1>g. loadGot \in Finding
  BY DEF LoadTypeOK
\* Steps of the target and of the supervisor, by the tables they write.
<1>1. ASSUME NEW f \in Fds, NEW b \in Btfs \cup {0}, Redirect(f, b) PROVE LoadTypeOK'
  BY <1>1, NoFindingType DEF Redirect, NewCall, LoadTypeOK
<1>2. ASSUME NEW f \in Fds, NEW b \in Btfs, BtfLoad(f, b) PROVE LoadTypeOK'
  <2>1. [fd |-> f, attr |-> "ok", indirect |-> FALSE] \in FuncCall
    BY DEF FuncCall
  <2>2. QED
    BY <1>2, <2>1, NoFindingType DEF BtfLoad, NewCall, LoadTypeOK
<1>3. ASSUME NEW f \in Fds, NEW b \in Btfs, BtfLoadUnread(f, b) PROVE LoadTypeOK'
  <2>1. fdt' \in [Fds -> Btfs \cup {0}] /\ loadPc' \in {"run", "killed"} /\ res' \in {"none", "eperm"}
    BY <1>0, <1>3 DEF BtfLoadUnread
  <2>2. QED
    BY <1>3, <2>1, NoFindingType DEF BtfLoadUnread, LoadTypeOK
<1>4. ASSUME NEW f \in Fds, NEW a \in {"ok", "unread", "unsupported"}, NEW i \in BOOLEAN,
             ProgLoad(f, a, i)
      PROVE  LoadTypeOK'
  <2>1. [fd |-> f, attr |-> a, indirect |-> i] \in FuncCall
    BY DEF FuncCall
  <2>2. QED
    BY <1>4, <2>1, NoFindingType DEF ProgLoad, NewCall, LoadTypeOK
<1>5. CASE Exec
  <2>1. cacheBytes' \in Int /\ cacheBytes' <= scratchSize
    BY <1>5, LoadAssumption DEF Exec
  <2>2. QED
    BY <1>5, <2>1, NoFindingType DEF Exec, NewCall, LoadTypeOK
<1>6. CASE Remember
  <2>1. PICK f \in Fds : f = loadCall.fd
    BY <1>6 DEF Remember, LoadInv, Decided
  <2>2. PICK b \in Btfs : b = fdt[f]
    BY <1>6, <2>1 DEF Remember, LoadInv, Decided
  <2>3. LoadSize(b) \in Nat /\ LoadSize(b) <= scratchSize /\ scratchSize \in Nat
    BY LoadAssumption
  <2>4. ASSUME NEW held, DOMAIN held \subseteq Fds, held \in [DOMAIN held -> [id : Btfs, blob : Btfs]],
               NEW bytes \in Int, bytes <= scratchSize - LoadSize(b), LoadStore(f, b, held, bytes)
        PROVE  /\ DOMAIN cache' \subseteq Fds /\ cache' \in [DOMAIN cache' -> [id : Btfs, blob : Btfs]]
               /\ cacheBytes' \in Int /\ cacheBytes' <= scratchSize
    <3>1. DOMAIN cache' \subseteq Fds /\ cache' \in [DOMAIN cache' -> [id : Btfs, blob : Btfs]]
      BY <2>4 DEF LoadStore
    <3>2. f \in DOMAIN held => LoadSize(held[f].blob) \in Nat
      BY <2>4, LoadAssumption
    <3>3. QED
      BY <2>3, <2>4, <3>1, <3>2 DEF LoadStore
  <2>5. /\ DOMAIN cache' \subseteq Fds /\ cache' \in [DOMAIN cache' -> [id : Btfs, blob : Btfs]]
        /\ cacheBytes' \in Int /\ cacheBytes' <= scratchSize
    <3>1. CASE UNCHANGED <<cache, cacheBytes>>
      BY <1>0, <3>1
    <3>2. CASE cacheBytes + LoadSize(b) > scratchSize /\ LoadStore(f, b, [g \in {} |-> 0], 0)
      <4>1. PICK none : none = [g \in {} |-> 0]
        OBVIOUS
      <4>2. DOMAIN none = {} /\ none \in [DOMAIN none -> [id : Btfs, blob : Btfs]]
        BY <4>1
      <4>3. LoadStore(f, b, none, 0)
        BY <3>2, <4>1
      <4>4. 0 \in Int /\ 0 <= scratchSize - LoadSize(b)
        BY <2>3
      <4>5. QED
        BY <2>4, <4>2, <4>3, <4>4
    <3>3. CASE ~(cacheBytes + LoadSize(b) > scratchSize) /\ LoadStore(f, b, cache, cacheBytes)
      BY <1>0, <2>3, <2>4, <3>3
    <3>4. QED
      BY <1>6, <2>1, <2>2, <3>1, <3>2, <3>3 DEF Remember
  <2>6. loadPc' \in {"run", "killed"} /\ UNCHANGED <<conf, fdt, loadCall, remote, progs, loadGot, res>>
    BY <1>6 DEF Remember
  <2>7. QED
    BY <2>5, <2>6 DEF LoadTypeOK
<1>7. CASE LoadEntry
  <2>1. \/ loadGot' = loadGot
        \/ \E e : loadGot' = [loadGot EXCEPT !.rule = selectRule(e)]
    BY <1>7 DEF LoadEntry
  <2>2. loadGot' \in Finding
    <3>1. ASSUME NEW r \in Rules \cup {"", "ambiguous"} PROVE [loadGot EXCEPT !.rule = r] \in Finding
      BY <1>g, FindingFields
    <3>2. \A e : selectRule(e) \in Rules \cup {"", "ambiguous"}
      BY <1>0, Selected
    <3>3. QED
      BY <1>g, <2>1, <3>1, <3>2
  <2>3. remote' \in {remote, [remote EXCEPT !.mask = "blocked"]}
    BY <1>7 DEF LoadEntry, Native, skipEntry
  <2>4. remote' \in Remote
    BY <1>r, <2>3, RemoteFields
  <2>5. /\ loadPc' \in {"run", "killed", "preload"} /\ progs' \in {progs, {"orig"}}
        /\ res' \in {res, "none", "eperm", "orig", "fail"}
    BY <1>7 DEF LoadEntry, Native, skipEntry
  <2>6. UNCHANGED <<conf, fdt, cache, cacheBytes, loadCall>>
    BY <1>7 DEF LoadEntry
  <2>7. QED
    BY <2>2, <2>4, <2>5, <2>6 DEF LoadTypeOK
\* The remote calls.
<1>8. ASSUME KeepCall, remote' \in Remote, loadGot' \in Finding,
             progs' \subseteq {"trial", "inj", "repeat", "orig"}, res' \in {res, "orig", "inj", "eperm", "fail"},
             loadPc' \in {"run", "killed", "discover", "close trial", "transform", "load", "repeat",
                          "close repeat", "close btf", "decide", "original", "finish"}
      PROVE  LoadTypeOK'
  BY <1>8 DEF KeepCall, LoadTypeOK
<1>9. /\ Mapped \in Remote
      /\ \A T \in SUBSET {"trial", "btf", "inj", "repeat"} : [Mapped EXCEPT !.tmp = T] \in Remote
  BY <1>r, RemoteFields DEF Mapped
<1>10. CASE Preload
  <2>1. remote' \in {remote, Mapped, [Mapped EXCEPT !.tmp = {"trial"}]}
    BY <1>10 DEF Preload, Broken
  <2>2. \/ loadGot' = loadGot
        \/ \E s \in {"other", "indirect", "verifier"} : loadGot' = [loadGot EXCEPT !.stack = s]
    BY <1>10 DEF Preload, Broken
  <2>3. remote' \in Remote
    BY <1>r, <1>9, <2>1, RemoteFields
  <2>4. loadGot' \in Finding
    BY <1>g, <2>2, FindingFields
  <2>5. QED
    BY <1>8, <1>10, <2>3, <2>4 DEF Preload, Broken, LoadTypeOK
<1>11. CASE CloseTrial
  <2>1. remote' \in {remote, [remote EXCEPT !.tmp = {}]}
    BY <1>11 DEF CloseTrial, Broken
  <2>2. \/ loadGot' = loadGot
        \/ \E s \in {"ok", "other", "unclosed"} : loadGot' = [loadGot EXCEPT !.stack = s]
    BY <1>11 DEF CloseTrial, Broken
  <2>3. remote' \in Remote
    BY ZenonT(60), <1>r, <2>1, RemoteFields
  <2>4. loadGot' \in Finding
    BY <1>g, <2>2, FindingFields
  <2>5. QED
    BY <1>8, <1>11, <2>3, <2>4 DEF CloseTrial, Broken, LoadTypeOK
<1>12. CASE Discover
  <2>1. remote' = remote
    BY <1>12 DEF Discover, Broken
  <2>2. \/ loadGot' = loadGot
        \/ \E e \in BOOLEAN : loadGot' = [loadGot EXCEPT !.err = e]
    BY <1>12 DEF Discover, Broken
  <2>3. remote' \in Remote
    BY <1>r, <2>1
  <2>4. loadGot' \in Finding
    BY <1>g, <2>2, FindingFields
  <2>5. QED
    BY <1>8, <1>12, <2>3, <2>4 DEF Discover, Broken, LoadTypeOK
<1>13. CASE LoadTransform
  <2>0. programBTF \in Btfs \cup {0}
    BY <1>0, <1>13 DEF LoadTransform, programBTF, LoadInv, Decided
  <2>1. remote' \in {remote, [Mapped EXCEPT !.tmp = {"btf"}]}
    BY <1>13 DEF LoadTransform, Broken
  <2>2. \/ loadGot' = loadGot
        \/ loadGot' = [loadGot EXCEPT !.err = TRUE]
        \/ \E c \in BOOLEAN : loadGot' = [loadGot EXCEPT !.spec = programBTF, !.checked = c]
    BY <1>13 DEF LoadTransform, Broken
  <2>3. remote' \in Remote
    BY <1>r, <1>9, <2>1, RemoteFields
  <2>4. loadGot' \in Finding
    <3>1. [loadGot EXCEPT !.err = TRUE] \in Finding
      BY <1>g, FindingFields
    <3>2. ASSUME NEW c \in BOOLEAN PROVE [loadGot EXCEPT !.spec = programBTF, !.checked = c] \in Finding
      BY <1>g, <2>0, FindingFields
    <3>3. QED
      BY <1>g, <2>2, <3>1, <3>2
  <2>5. QED
    BY <1>8, <1>13, <2>3, <2>4 DEF LoadTransform, Broken, LoadTypeOK
<1>14. CASE LoadRewritten
  <2>1. remote' \in {remote, [remote EXCEPT !.tmp = remote.tmp \cup {"inj"}]}
    BY <1>14 DEF LoadRewritten, Broken
  <2>2. \/ loadGot' = loadGot
        \/ loadGot' = [loadGot EXCEPT !.err = TRUE]
    BY <1>14 DEF LoadRewritten, Broken
  <2>3. remote' \in Remote
    BY ZenonT(60), <1>r, <2>1, RemoteFields
  <2>4. loadGot' \in Finding
    BY <1>g, <2>2, FindingFields
  <2>5. QED
    BY <1>8, <1>14, <2>3, <2>4 DEF LoadRewritten, Broken, LoadTypeOK
<1>15. CASE hitJumpLimit
  <2>1. remote' \in {remote, [remote EXCEPT !.tmp = remote.tmp \cup {"repeat"}]}
    BY <1>15 DEF hitJumpLimit, Broken
  <2>2. \/ loadGot' = loadGot
        \/ loadGot' = [loadGot EXCEPT !.miss = TRUE, !.again = TRUE]
    BY <1>15 DEF hitJumpLimit, Broken
  <2>3. remote' \in Remote
    BY ZenonT(60), <1>r, <2>1, RemoteFields
  <2>4. loadGot' \in Finding
    BY <1>g, <2>2, FindingFields
  <2>5. QED
    BY <1>8, <1>15, <2>3, <2>4 DEF hitJumpLimit, Broken, LoadTypeOK
<1>16. CASE CloseRepeat
  <2>1. remote' \in {remote, [remote EXCEPT !.tmp = remote.tmp \ {"repeat"}]}
    BY <1>16 DEF CloseRepeat, Broken
  <2>2. loadGot' = loadGot
    BY <1>16 DEF CloseRepeat, Broken
  <2>3. remote' \in Remote
    BY ZenonT(60), <1>r, <2>1, RemoteFields
  <2>4. loadGot' \in Finding
    BY <1>g, <2>2
  <2>5. QED
    BY <1>8, <1>16, <2>3, <2>4 DEF CloseRepeat, Broken, LoadTypeOK
<1>17. CASE CloseBtf
  <2>1. remote' \in {remote, [remote EXCEPT !.tmp = remote.tmp \ {"btf"}]}
    BY <1>17 DEF CloseBtf, Broken
  <2>2. \/ loadGot' = loadGot
        \/ \E e \in BOOLEAN : loadGot' = [loadGot EXCEPT !.err = e, !.again = FALSE]
    BY <1>17 DEF CloseBtf, Broken
  <2>3. remote' \in Remote
    BY ZenonT(60), <1>r, <2>1, RemoteFields
  <2>4. loadGot' \in Finding
    BY <1>g, <2>2, FindingFields
  <2>5. QED
    BY <1>8, <1>17, <2>3, <2>4 DEF CloseBtf, Broken, LoadTypeOK
<1>18. CASE Decide
  <2>1. remote' = remote
    BY <1>18 DEF Decide, Broken
  <2>2. loadGot' = loadGot
    BY <1>18 DEF Decide, Broken
  <2>3. remote' \in Remote
    BY <1>r, <2>1
  <2>4. loadGot' \in Finding
    BY <1>g, <2>2
  <2>5. QED
    BY <1>8, <1>18, <2>3, <2>4 DEF Decide, Broken, LoadTypeOK
<1>19. CASE LoadOriginal
  <2>1. remote' = remote
    BY <1>19 DEF LoadOriginal, Broken
  <2>2. loadGot' = loadGot
    BY <1>19 DEF LoadOriginal, Broken
  <2>3. remote' \in Remote
    BY <1>r, <2>1
  <2>4. loadGot' \in Finding
    BY <1>g, <2>2
  <2>5. QED
    BY <1>8, <1>19, <2>3, <2>4 DEF LoadOriginal, Broken, LoadTypeOK
<1>20. CASE finish
  <2>1. remote' \in {remote, Restored(remote.tmp \ {"inj"})}
    BY <1>20 DEF finish, Broken
  <2>2. loadGot' = loadGot
    BY <1>20 DEF finish, Broken
  <2>3. remote' \in Remote
    BY <1>r, <2>1, RemoteFields
  <2>4. loadGot' \in Finding
    BY <1>g, <2>2
  <2>5. QED
    BY <1>8, <1>20, <2>3, <2>4 DEF finish, Broken, LoadTypeOK
<1>21. CASE UNCHANGED loadVars
  BY <1>21 DEF loadVars, LoadTypeOK
<1>22. QED
  BY <1>1, <1>2, <1>3, <1>4, <1>5, <1>6, <1>7, <1>10, <1>11, <1>12, <1>13, <1>14, <1>15, <1>16,
     <1>17, <1>18, <1>19, <1>20, <1>21 DEF LoadNext, LoadTarget, Supervisor, Killed

-----------------------------------------------------------------------------
(* The invariant is inductive *)

LEMMA InitInv == LoadInit => LoadInv
<1> SUFFICES ASSUME LoadInit PROVE LoadInv
  OBVIOUS
<1>1. /\ loadPc = "run" /\ res = "none" /\ remote = NoRemote /\ progs = {} /\ DOMAIN cache = {}
      /\ Unclosed = {}
  BY DEF LoadInit, NoFinding, Unclosed
<1>2. QED
  BY <1>1 DEF NoRemote, LoadInv, Holding, Result, Decided, Policy, Remembered

\* The options do not change, and so neither does the rule a name selects.
LEMMA SameRules ==
    ASSUME conf' = conf, loadGot'.spec = loadGot.spec, loadGot'.rule = loadGot.rule,
           loadGot'.checked = loadGot.checked, Rewritten
    PROVE  Rewritten'
  BY DEF Rewritten, selectRule, Matching

LEMMA NextInv == LoadTypeOK /\ LoadInv /\ [LoadNext]_loadVars => LoadInv'
<1> SUFFICES ASSUME LoadTypeOK, LoadInv, [LoadNext]_loadVars PROVE LoadInv'
  OBVIOUS
<1>0. Holding /\ Decided /\ Policy /\ Remembered
  BY DEF LoadInv
<1>r. remote \in Remote
  BY DEF LoadTypeOK
<1>g. loadGot \in Finding
  BY DEF LoadTypeOK
<1>c. conf \in Conf
  BY DEF LoadTypeOK
<1>n. NoRemote = Restored({}) /\ NoFinding.stack = ""
  BY DEF NoRemote, NoFinding
\* A new call of the target: nothing is held, nothing decided.
<1>1. ASSUME NewCall, loadPc = "run", loadPc' \in {"run", "exit", "entry"},
             loadPc' # "run" => loadCall'.fd \in Fds,
             loadPc' = "exit" => fdt'[loadCall'.fd] \in Btfs, Remembered'
      PROVE  LoadInv'
  <2>1. /\ remote' = NoRemote /\ progs' = {} /\ loadGot' = NoFinding /\ res' = "none"
    BY <1>1 DEF NewCall
  <2>2. Unclosed' = {}
    BY <1>n, <2>1 DEF Unclosed
  <2>3. Holding' /\ Decided' /\ Policy'
    BY <1>1, <1>n, <2>1, <2>2 DEF Holding, Decided, Policy, Result
  <2>4. QED
    BY <1>1, <2>3 DEF LoadInv
<1>2. ASSUME UNCHANGED cache PROVE Remembered'
  BY <1>0, <1>2 DEF Remembered
<1>3. ASSUME NEW f \in Fds, NEW b \in Btfs \cup {0}, Redirect(f, b) PROVE LoadInv'
  BY <1>1, <1>2, <1>3 DEF Redirect
<1>4. ASSUME NEW f \in Fds, NEW b \in Btfs, BtfLoad(f, b) PROVE LoadInv'
  <2>1. loadCall'.fd = f /\ fdt'[f] = b
    BY <1>4 DEF BtfLoad, LoadTypeOK
  <2>2. QED
    BY <1>1, <1>2, <1>4, <2>1 DEF BtfLoad
<1>5. ASSUME NEW f \in Fds, NEW b \in Btfs, BtfLoadUnread(f, b) PROVE LoadInv'
  <2>1. /\ remote' = NoRemote /\ progs' = {} /\ conf' = conf /\ cache' = cache
        /\ loadPc' \in {"run", "killed"} /\ res' \in {"none", "eperm"}
        /\ res' = "eperm" => conf.closed
        /\ Unclosed' = {}
    BY <1>5, <1>n DEF BtfLoadUnread, Unclosed
  <2>2. Holding' /\ Decided' /\ Policy'
    BY <1>n, <2>1 DEF Holding, Decided, Policy, Result
  <2>3. QED
    BY <1>2, <2>1, <2>2 DEF LoadInv
<1>6. ASSUME NEW f \in Fds, NEW a \in {"ok", "unread", "unsupported"}, NEW i \in BOOLEAN,
             ProgLoad(f, a, i)
      PROVE  LoadInv'
  BY <1>1, <1>2, <1>6 DEF ProgLoad
<1>7. CASE Exec
  <2>1. Remembered'
    BY <1>7 DEF Exec, Remembered
  <2>2. QED
    BY <1>1, <1>7, <2>1 DEF Exec
<1>8. CASE Remember
  <2>1. Remembered'
    BY <1>0, <1>8 DEF Remember, LoadStore, Remembered
  <2>2. /\ remote' = NoRemote /\ progs' = {} /\ res' = "none" /\ loadPc' \in {"run", "killed"}
        /\ Unclosed' = {}
    BY <1>0, <1>8, <1>n DEF Remember, Holding, Decided, Unclosed
  <2>3. Holding' /\ Decided' /\ Policy'
    BY <1>n, <2>2 DEF Holding, Decided, Policy, Result
  <2>4. QED
    BY <2>1, <2>3 DEF LoadInv
<1>9. CASE LoadEntry
  <2>1. /\ loadPc = "entry" /\ UNCHANGED <<conf, fdt, cache, cacheBytes, loadCall>>
        /\ remote = NoRemote /\ progs = {} /\ res = "none" /\ loadCall.fd \in Fds
        /\ loadGot.stack = ""
    BY <1>0, <1>9, <1>n DEF LoadEntry, Holding, Decided
  <2>0. loadGot'.stack = "" /\ Unclosed' = {}
    <3>1. loadGot' = loadGot \/ \E rule : loadGot' = [loadGot EXCEPT !.rule = rule]
      BY <1>9 DEF LoadEntry
    <3>2. loadGot'.stack = ""
      BY <1>g, <2>1, <3>1 DEF Finding
    <3>3. QED
      BY <3>2 DEF Unclosed
  <2>2. ASSUME Native, ~(conf.closed /\ "kernel" \in conf.rules) PROVE LoadInv'
    <3>1. /\ loadPc' = "run" /\ remote' = NoRemote
          /\ (res' = "orig" /\ progs' = {"orig"}) \/ (res' = "fail" /\ progs' = {})
      BY <2>1, <2>2 DEF Native
    <3>2. Holding' /\ Decided' /\ Policy'
      BY <1>n, <2>0, <2>1, <2>2, <3>1 DEF Holding, Decided, Policy, Result
    <3>3. QED
      BY <1>2, <2>1, <3>2 DEF LoadInv
  <2>3. ASSUME skipEntry PROVE LoadInv'
    <3>1. CASE conf.closed
      <4>1. /\ loadPc' \in {"run", "killed"} /\ remote' = NoRemote /\ progs' = {}
            /\ res' \in {"none", "eperm"}
        BY <2>1, <2>3, <3>1 DEF skipEntry
      <4>2. Holding' /\ Decided' /\ Policy'
        BY <1>n, <2>0, <2>1, <3>1, <4>1 DEF Holding, Decided, Policy, Result
      <4>3. QED
        BY <1>2, <2>1, <4>2 DEF LoadInv
    <3>2. CASE ~conf.closed
      BY <2>2, <2>3, <3>2 DEF skipEntry
    <3>3. QED
      BY <3>1, <3>2
  <2>4. ASSUME NEW rule, "kernel" \in conf.rules => rule # "", loadGot' = [loadGot EXCEPT !.rule = rule],
               \/ loadPc' = "preload" /\ remote' = [remote EXCEPT !.mask = "blocked"]
               \/ loadPc' = "killed" /\ UNCHANGED remote,
               UNCHANGED <<res, progs>>
        PROVE  LoadInv'
    <3>1. loadGot'.rule = rule
      BY <1>g, <2>4 DEF Finding
    <3>2. remote'.tmp = {}
      <4>1. remote.tmp = {}
        BY <2>1 DEF NoRemote, Restored
      <4>2. [remote EXCEPT !.mask = "blocked"].tmp = remote.tmp
        BY <1>r DEF Remote
      <4>3. QED
        BY <2>4, <4>1, <4>2
    <3>3. res' = "none" /\ progs' = {} /\ loadPc' \in {"preload", "killed"}
      BY <2>1, <2>4
    <3>4. Holding' /\ Decided' /\ Policy'
      BY <2>0, <2>1, <2>4, <3>1, <3>2, <3>3 DEF Holding, Holds, Decided, Policy
    <3>5. QED
      BY <1>2, <2>1, <3>4 DEF LoadInv
  <2>5. PICK e : e = IF loadCall.fd \in DOMAIN cache THEN cache[loadCall.fd].blob ELSE 0
    OBVIOUS
  <2>6. "kernel" \in conf.rules => selectRule(e) # ""
    BY <1>c, Selected
  <2>7. \/ skipEntry
        \/ selectRule(e) = "" /\ Native
        \/ /\ loadGot' = [loadGot EXCEPT !.rule = selectRule(e)]
           /\ \/ loadPc' = "preload" /\ remote' = [remote EXCEPT !.mask = "blocked"]
              \/ loadPc' = "killed" /\ UNCHANGED remote
           /\ UNCHANGED <<res, progs>>
    BY <1>9, <2>5 DEF LoadEntry
  <2>8. QED
    BY <2>2, <2>3, <2>4, <2>6, <2>7
\* The remote calls: a lost stop, or the next one.
<1>10. ASSUME Broken, KeepCall PROVE LoadInv'
  <2>1. UNCHANGED <<conf, cache, remote, progs, loadGot, res>> /\ loadPc' = "killed"
    BY <1>10 DEF Broken, KeepCall
  <2>2. Policy'
    BY <1>0, <2>1, SameRules DEF Policy, NoFloors
  <2>3. Holding' /\ Decided'
    BY <2>1 DEF Holding, Decided
  <2>4. QED
    BY <1>2, <2>1, <2>2, <2>3 DEF LoadInv
<1>11. ASSUME KeepCall, UNCHANGED res, loadGot'.rule = loadGot.rule,
              loadPc \notin {"run", "killed", "finish", "exit", "entry"},
              loadPc' \notin {"run", "killed", "finish", "exit", "entry"}, Holding',
              loadPc' = "original" /\ conf.closed => loadGot.rule = "",
              loadPc' \in {"repeat", "close repeat"} => loadGot'.err,
              loadPc' \in {"transform", "load"} => ~loadGot'.err,
              loadPc' = "load" => loadGot'.spec = fdt[loadCall.fd],
              loadPc' \in {"load", "close btf", "decide"} /\ ~loadGot'.err => Rewritten',
              loadPc' \in {"transform", "load", "repeat", "close repeat", "close btf"}
                  \/ (loadPc' = "decide" /\ ~loadGot'.err) => loadGot'.stack = "ok",
              loadPc' # "preload"
       PROVE  LoadInv'
  <2>1. UNCHANGED <<conf, fdt, cache, loadCall>> /\ res' = "none" /\ loadCall.fd \in Fds
    BY <1>0, <1>11 DEF KeepCall, Decided
  <2>2. Decided'
    BY <1>0, <1>11, <2>1 DEF Decided
  <2>3. Policy'
    BY <2>1 DEF Policy
  <2>4. QED
    BY <1>2, <1>11, <2>1, <2>2, <2>3 DEF LoadInv
<1>12. /\ Mapped.tmp = remote.tmp
       /\ \A T : [Mapped EXCEPT !.tmp = T].tmp = T
       /\ \A T : [remote EXCEPT !.tmp = T].tmp = T
  BY <1>r DEF Mapped, Remote
<1>13. CASE Preload
  <2>1. loadPc = "preload" /\ KeepCall /\ Holds({}, {})
    BY <1>0, <1>13 DEF Preload, Holding
  <2>2. ASSUME NEW why \in {"other", "indirect", "verifier"}, loadGot' = [loadGot EXCEPT !.stack = why], remote' \in {remote, Mapped},
               loadPc' = "discover", UNCHANGED <<progs, res>>
        PROVE  LoadInv'
    <3>1. loadGot'.rule = loadGot.rule /\ loadGot'.stack = why /\ Unclosed' = {}
      BY <1>g, <2>2 DEF Finding, Unclosed
    <3>2. Holding'
      BY <1>12, <2>1, <2>2, <3>1 DEF Holding, Holds
    <3>3. QED
      BY <1>11, <2>1, <2>2, <3>1, <3>2
  <2>3. ASSUME remote' = [Mapped EXCEPT !.tmp = {"trial"}], progs' = {"trial"},
               loadPc' = "close trial", UNCHANGED <<loadGot, res>>
        PROVE  LoadInv'
    <3>1. Holding'
      BY <1>12, <2>3 DEF Holding, Holds
    <3>2. QED
      BY <1>11, <2>1, <2>3, <3>1
  <2>4. QED
    BY <1>10, <1>13, <2>1, <2>2, <2>3 DEF Preload
<1>14. CASE CloseTrial
  <2>1. loadPc = "close trial" /\ KeepCall /\ Holds({"trial"}, {"trial"})
    BY <1>0, <1>14 DEF CloseTrial, Holding
  <2>2. ASSUME NEW s \in {"ok", "other", "unclosed"}, loadGot' = [loadGot EXCEPT !.stack = s],
               IF s = "unclosed" THEN UNCHANGED <<remote, progs>>
               ELSE remote' = [remote EXCEPT !.tmp = {}] /\ progs' = {},
               loadPc' = "discover", UNCHANGED res
        PROVE  LoadInv'
    <3>1. /\ loadGot'.rule = loadGot.rule /\ loadGot'.stack = s
          /\ Unclosed' = IF s = "unclosed" THEN {"trial"} ELSE {}
      BY <1>g, <2>2 DEF Finding, Unclosed
    <3>2. Holds(Unclosed, Unclosed)'
      BY <1>12, <2>1, <2>2, <3>1 DEF Holds
    <3>3. Holding'
      BY <2>2, <3>2 DEF Holding
    <3>4. QED
      BY <1>11, <2>1, <2>2, <3>1, <3>3
  <2>3. QED
    BY <1>10, <1>14, <2>1, <2>2 DEF CloseTrial
<1>15. CASE Discover
  <2>1. loadPc = "discover" /\ KeepCall /\ Holds(Unclosed, Unclosed)
    BY <1>0, <1>15 DEF Discover, Holding
  <2>2. ASSUME loadPc' = IF loadGot.rule = "" THEN "original" ELSE IF loadGot.stack = "ok" THEN "transform" ELSE "decide",
               loadGot' = [loadGot EXCEPT !.err = loadGot.rule # "" /\ loadGot.stack # "ok"],
               UNCHANGED <<remote, progs, res>>
        PROVE  LoadInv'
    <3>1. /\ loadGot'.rule = loadGot.rule /\ (loadGot'.err <=> loadGot.rule # "" /\ loadGot.stack # "ok")
          /\ loadGot'.stack = loadGot.stack
      BY <1>g, <2>2 DEF Finding
    <3>0. Unclosed' = Unclosed /\ (loadGot.stack = "ok" => Unclosed = {})
      BY <3>1 DEF Unclosed
    <3>2. Holding'
      BY <2>1, <2>2, <3>0, <3>1 DEF Holding, Holds
    <3>3. QED
      BY <1>11, <2>1, <2>2, <3>1, <3>2
  <2>3. QED
    BY <1>10, <1>15, <2>1, <2>2 DEF Discover
<1>16. CASE LoadTransform
  <2>1. loadPc = "transform" /\ KeepCall /\ Holds({}, {}) /\ ~loadGot.err /\ loadGot.stack = "ok"
    BY <1>0, <1>16 DEF LoadTransform, Holding, Decided
  <2>2. ASSUME loadGot' = [loadGot EXCEPT !.err = TRUE], loadPc' = "decide", UNCHANGED <<remote, progs, res>>
        PROVE  LoadInv'
    <3>1. loadGot'.rule = loadGot.rule /\ loadGot'.err /\ loadGot'.stack = "ok"
      BY <1>g, <2>1, <2>2 DEF Finding
    <3>2. Holding'
      BY <2>1, <2>2, <3>1 DEF Holding, Holds, Unclosed
    <3>3. QED
      BY <1>11, <2>1, <2>2, <3>1, <3>2
  <2>3. ASSUME NEW applies \in BOOLEAN, selectRule(programBTF) = loadGot.rule, applies \/ ~conf.closed,
               loadGot' = [loadGot EXCEPT !.spec = programBTF, !.checked = applies],
               remote' = [Mapped EXCEPT !.tmp = {"btf"}], loadPc' = "load", UNCHANGED <<progs, res>>
        PROVE  LoadInv'
    <3>1. /\ loadGot'.rule = loadGot.rule /\ loadGot'.err = loadGot.err
          /\ loadGot'.spec = programBTF /\ loadGot'.checked = applies /\ loadGot'.stack = "ok"
      BY <1>g, <2>1, <2>3 DEF Finding
    <3>2. programBTF = fdt[loadCall.fd]
      BY <1>0 DEF Remembered, programBTF
    <3>3. Rewritten'
      <4>1. conf' = conf
        BY <2>1 DEF KeepCall
      <4>2. QED
        BY <2>3, <3>1, <4>1 DEF Rewritten, selectRule, Matching
    <3>4. Holding'
      BY <1>12, <2>1, <2>3 DEF Holding, Holds
    <3>5. QED
      BY <1>11, <2>1, <2>3, <3>1, <3>2, <3>3, <3>4
  <2>4. QED
    BY <1>10, <1>16, <2>1, <2>2, <2>3 DEF LoadTransform
<1>17. CASE LoadRewritten
  <2>1. /\ loadPc = "load" /\ KeepCall /\ Holds({"btf"}, {}) /\ ~loadGot.err /\ Rewritten
        /\ loadGot.stack = "ok"
    BY <1>0, <1>17 DEF LoadRewritten, Holding, Decided
  <2>2. ASSUME loadGot' = [loadGot EXCEPT !.err = TRUE], loadPc' \in {"close btf", "repeat"},
               UNCHANGED <<remote, progs, res>>
        PROVE  LoadInv'
    <3>1. loadGot'.rule = loadGot.rule /\ loadGot'.err /\ loadGot'.stack = "ok"
      BY <1>g, <2>1, <2>2 DEF Finding
    <3>2. Holding'
      BY <2>1, <2>2, <3>1 DEF Holding, Holds, Unclosed
    <3>3. QED
      BY <1>11, <2>1, <2>2, <3>1, <3>2
  <2>3. ASSUME progs' = {"inj"}, remote' = [remote EXCEPT !.tmp = @ \cup {"inj"}],
               loadPc' = "close btf", UNCHANGED <<loadGot, res>>
        PROVE  LoadInv'
    <3>1. remote'.tmp = {"btf", "inj"}
      BY <1>r, <2>1, <2>3 DEF Remote, Holds
    <3>2. Holding'
      BY <2>1, <2>3, <3>1 DEF Holding, Holds
    <3>3. Rewritten'
      BY <2>1, <2>3, SameRules DEF KeepCall
    <3>4. QED
      BY <1>11, <2>1, <2>3, <3>2, <3>3
  <2>4. QED
    BY <1>10, <1>17, <2>1, <2>2, <2>3 DEF LoadRewritten
<1>18. CASE hitJumpLimit
  <2>1. loadPc = "repeat" /\ KeepCall /\ Holds({"btf"}, {}) /\ loadGot.err /\ loadGot.stack = "ok"
    BY <1>0, <1>18 DEF hitJumpLimit, Holding, Decided
  <2>2. ASSUME loadGot' \in {loadGot, [loadGot EXCEPT !.miss = TRUE, !.again = TRUE]},
               loadPc' = "close btf", UNCHANGED <<remote, progs, res>>
        PROVE  LoadInv'
    <3>1. loadGot'.rule = loadGot.rule /\ loadGot'.err /\ loadGot'.stack = "ok"
      BY <1>g, <2>1, <2>2 DEF Finding
    <3>2. Holding'
      BY <2>1, <2>2, <3>1 DEF Holding, Holds
    <3>3. QED
      BY <1>11, <2>1, <2>2, <3>1, <3>2
  <2>3. ASSUME progs' = {"repeat"}, remote' = [remote EXCEPT !.tmp = @ \cup {"repeat"}],
               loadPc' = "close repeat", UNCHANGED <<loadGot, res>>
        PROVE  LoadInv'
    <3>1. remote'.tmp = {"btf", "repeat"}
      BY <1>r, <2>1, <2>3 DEF Remote, Holds
    <3>2. Holding'
      BY <2>3, <3>1 DEF Holding, Holds
    <3>3. QED
      BY <1>11, <2>1, <2>3, <3>2
  <2>4. QED
    BY <1>10, <1>18, <2>1, <2>2, <2>3 DEF hitJumpLimit
<1>19. CASE CloseRepeat
  <2>1. /\ loadPc = "close repeat" /\ KeepCall /\ Holds({"btf", "repeat"}, {"repeat"}) /\ loadGot.err
        /\ loadGot.stack = "ok"
    BY <1>0, <1>19 DEF CloseRepeat, Holding, Decided
  <2>2. ASSUME progs' = {}, remote' = [remote EXCEPT !.tmp = @ \ {"repeat"}],
               loadPc' = "close btf", UNCHANGED <<loadGot, res>>
        PROVE  LoadInv'
    <3>1. remote'.tmp = {"btf"}
      BY <1>r, <2>1, <2>2 DEF Remote, Holds
    <3>2. Holding'
      BY <2>1, <2>2, <3>1 DEF Holding, Holds
    <3>3. QED
      BY <1>11, <2>1, <2>2, <3>2
  <2>3. QED
    BY <1>10, <1>19, <2>1, <2>2 DEF CloseRepeat
<1>20. CASE CloseBtf
  <2>1. /\ loadPc = "close btf" /\ KeepCall /\ (~loadGot.err => Rewritten) /\ loadGot.stack = "ok"
        /\ IF loadGot.err THEN Holds({"btf"}, {}) ELSE Holds({"btf", "inj"}, {"inj"})
    BY <1>0, <1>20 DEF CloseBtf, Holding, Decided
  <2>2. ASSUME remote' = [remote EXCEPT !.tmp = @ \ {"btf"}],
               loadPc' = IF loadGot.err /\ loadGot.again THEN "transform" ELSE "decide",
               loadGot' = [loadGot EXCEPT !.err = loadGot.err /\ ~loadGot.again, !.again = FALSE],
               UNCHANGED <<progs, res>>
        PROVE  LoadInv'
    <3>1. /\ loadGot'.rule = loadGot.rule /\ loadGot'.spec = loadGot.spec
          /\ loadGot'.checked = loadGot.checked
          /\ loadGot'.err <=> loadGot.err /\ ~loadGot.again
          /\ loadGot'.stack = "ok"
      BY <1>g, <2>1, <2>2 DEF Finding
    <3>2. remote'.tmp = remote.tmp \ {"btf"}
      BY <1>r, <2>2 DEF Remote
    <3>3. remote'.tmp = IF loadGot.err THEN {} ELSE {"inj"}
      BY <2>1, <3>2 DEF Holds
    <3>4. Holding'
      BY <2>1, <2>2, <3>1, <3>3 DEF Holding, Holds, Unclosed
    <3>5. loadPc' = "decide" /\ ~loadGot'.err => Rewritten'
      BY <2>1, <2>2, <3>1, SameRules DEF KeepCall
    <3>6. QED
      BY <1>11, <2>1, <2>2, <3>1, <3>4, <3>5
  <2>3. QED
    BY <1>10, <1>20, <2>1, <2>2 DEF CloseBtf
\* A result: what the target will see.
<1>21. ASSUME KeepCall, UNCHANGED <<remote, loadGot>>, loadPc' = "finish", loadCall.fd \in Fds,
              "kernel" \in conf.rules => loadGot.rule # "",
              remote.tmp = Unclosed \cup (IF res' = "inj" THEN {"inj"} ELSE {}),
              progs' = Unclosed \cup Result', Policy'
       PROVE  LoadInv'
  <2>1. UNCHANGED <<conf, cache, loadCall>>
    BY <1>21 DEF KeepCall
  <2>2. Holding'
    BY <1>21 DEF Holding, Holds, Unclosed
  <2>3. Decided'
    BY <1>21, <2>1 DEF Decided
  <2>4. QED
    BY <1>2, <1>21, <2>1, <2>2, <2>3 DEF LoadInv
<1>22. CASE Decide
  <2>1. /\ loadPc = "decide" /\ KeepCall /\ loadCall.fd \in Fds /\ conf' = conf
        /\ "kernel" \in conf.rules => loadGot.rule # ""
        /\ ~loadGot.err => Rewritten /\ loadGot.stack = "ok"
        /\ IF loadGot.err THEN Holds(Unclosed, Unclosed) ELSE Holds({"inj"}, {"inj"})
    BY <1>0, <1>22 DEF Decide, Holding, Decided, KeepCall
  <2>2. CASE /\ loadGot.err /\ refuse /\ res' = "eperm" /\ loadPc' = "finish"
             /\ UNCHANGED <<remote, progs, loadGot>>
    <3>1. Policy' /\ progs' = Unclosed \cup Result' /\ remote.tmp = Unclosed
      BY <2>1, <2>2 DEF Policy, refuse, NoFloors, Result, Holds
    <3>2. QED
      BY <1>21, <2>1, <2>2, <3>1
  <2>3. CASE /\ loadGot.err /\ ~refuse /\ loadPc' = "original" /\ UNCHANGED <<remote, progs, loadGot, res>>
    <3>1. Holding' /\ ~conf.closed
      BY <2>1, <2>3 DEF Holding, Holds, Unclosed, refuse
    <3>2. QED
      BY <1>11, <2>1, <2>3, <3>1
  <2>4. CASE /\ ~loadGot.err /\ res' = "inj" /\ loadPc' = "finish" /\ UNCHANGED <<remote, progs, loadGot>>
    <3>1. Rewritten'
      BY <2>1, <2>4, SameRules
    <3>2. Policy' /\ progs' = Unclosed \cup Result' /\ remote.tmp = Unclosed \cup {"inj"}
      BY <2>1, <2>4, <3>1 DEF Policy, Result, Holds, Unclosed
    <3>3. QED
      BY <1>21, <2>1, <2>4, <3>2
  <2>5. QED
    BY <1>10, <1>22, <2>1, <2>2, <2>3, <2>4 DEF Decide
<1>23. CASE LoadOriginal
  <2>1. /\ loadPc = "original" /\ KeepCall /\ loadCall.fd \in Fds /\ conf' = conf
        /\ "kernel" \in conf.rules => loadGot.rule # ""
        /\ Holds(Unclosed, Unclosed) /\ (conf.closed => loadGot.rule = "")
    BY <1>0, <1>23 DEF LoadOriginal, Holding, Decided, KeepCall
  <2>2. ASSUME \/ res' = "orig" /\ progs' = progs \cup {"orig"}
               \/ res' = "fail" /\ progs' = progs,
               loadPc' = "finish", UNCHANGED <<remote, loadGot>>
        PROVE  LoadInv'
    <3>1. Policy' /\ progs' = Unclosed \cup Result' /\ remote.tmp = Unclosed /\ res' # "inj"
      BY <2>1, <2>2 DEF Policy, Result, Holds
    <3>2. QED
      BY <1>21, <2>1, <2>2, <3>1
  <2>3. QED
    BY <1>10, <1>23, <2>1, <2>2 DEF LoadOriginal
<1>24. CASE finish
  <2>1. /\ loadPc = "finish" /\ KeepCall /\ conf' = conf /\ cache' = cache
        /\ Holds(Unclosed \cup (IF res = "inj" THEN {"inj"} ELSE {}), Unclosed \cup Result)
    BY <1>0, <1>24 DEF finish, Holding, KeepCall
  <2>2. ASSUME remote' = Restored(remote.tmp \ {"inj"}),
               loadPc' = "run", UNCHANGED <<progs, loadGot, res>>
        PROVE  LoadInv'
    <3>0. remote.tmp \ {"inj"} = Unclosed
      BY <2>1 DEF Holds, Unclosed
    <3>1. remote' = Restored(Unclosed)
      BY <2>2, <3>0
    <3>2. Holding' /\ Decided'
      BY <2>1, <2>2, <3>1 DEF Holding, Holds, Decided, Result, Unclosed
    <3>3. Policy'
      BY <1>0, <2>1, <2>2, SameRules DEF Policy, NoFloors
    <3>4. QED
      BY <1>2, <2>1, <3>2, <3>3 DEF LoadInv
  <2>3. QED
    BY <1>10, <1>24, <2>1, <2>2 DEF finish
<1>25. CASE UNCHANGED loadVars
  <2>1. Holding' /\ Remembered'
    BY <1>0, <1>25 DEF loadVars, Holding, Holds, Unclosed, Result, Remembered
  <2>2. Rewritten => Rewritten'
    BY <1>25, SameRules DEF loadVars
  <2>3. Decided' /\ Policy'
    BY ZenonT(60), <1>0, <1>25, <2>2 DEF loadVars, Decided, Policy, NoFloors
  <2>4. QED
    BY <2>1, <2>3 DEF LoadInv
<1>26. QED
  BY <1>3, <1>4, <1>5, <1>6, <1>7, <1>8, <1>9, <1>13, <1>14, <1>15, <1>16, <1>17, <1>18, <1>19,
     <1>20, <1>22, <1>23, <1>24, <1>25 DEF LoadNext, LoadTarget, Supervisor, Killed

LEMMA InvCorrect == LoadSpec => [](LoadTypeOK /\ LoadInv)
  BY InitType, InitInv, NextType, NextInv, PTL DEF LoadSpec

-----------------------------------------------------------------------------
(* What follows for a load *)

\* For any fds, BTF objects and scratch size: the load keeps its types, and the
\* remembered BTF objects stay within the scratch size.
THEOREM TypeCorrect == LoadSpec => []LoadTypeOK
  BY InvCorrect, PTL

\* For any fds, BTF objects and scratch size: when the target runs again the policy
\* was kept, the rewrite was of the BTF the load names, and nothing is left behind,
\* whichever remote call failed on the way.
THEOREM LoadCorrect == LoadSpec => []LoadSound
<1>1. LoadTypeOK /\ LoadInv => LoadSound
  <2> SUFFICES ASSUME LoadTypeOK, LoadInv PROVE LoadSound
    OBVIOUS
  <2>1. CleanReturn
    BY DEF LoadInv, Holding, Result, CleanReturn
  <2>2. FailClosedHolds
    BY DEF LoadTypeOK, LoadInv, Policy, Rewritten, FailClosedHolds
  <2>3. FailOpenHolds
    BY DEF LoadInv, Policy, FailOpenHolds
  <2>4. RewritesLiveBTF
    BY DEF LoadInv, Decided, Policy, Rewritten, RewritesLiveBTF
  <2>5. QED
    BY <2>1, <2>2, <2>3, <2>4 DEF LoadSound
<1>2. QED
  BY <1>1, InvCorrect, PTL

=============================================================================
