------------------------- MODULE CaptureSessionProofs -------------------------
(* What holds of the capture transport for any number of shards, any ring and *)
(* any batch size: the order and the completeness of the output, what an      *)
(* acknowledgement vouches for, and what stop() has drained when it returns.  *)
(* stop() returning at all, and a barrier completing, are liveness and stay   *)
(* with TLC; so does ReportHonest, which adds counters up over the shards.    *)
EXTENDS CaptureSession, TLAPS

-----------------------------------------------------------------------------
(* Sequences of ring positions *)

Elems(s) == {s[k] : k \in DOMAIN s}
Increasing(s) == \A k, l \in DOMAIN s : k < l => s[k] < s[l]
Before(s, t) == \A p \in Elems(s), q \in Elems(t) : p < q

\* batchBuilder's append of a position above all it holds.
LEMMA AppendHigher ==
    ASSUME NEW s \in Seq(Nat), NEW p \in Nat, Increasing(s), \A q \in Elems(s) : q < p
    PROVE  /\ Append(s, p) \in Seq(Nat)
           /\ Increasing(Append(s, p))
           /\ Elems(Append(s, p)) = Elems(s) \cup {p}
<1> DEFINE t == Append(s, p)
<1>1. /\ t \in Seq(Nat) /\ Len(t) = Len(s) + 1 /\ Len(s) \in Nat
      /\ DOMAIN t = 1 .. Len(s) + 1 /\ DOMAIN s = 1 .. Len(s)
      /\ \A k \in 1 .. Len(s) : t[k] = s[k] /\ s[k] \in Nat
      /\ t[Len(s) + 1] = p
  OBVIOUS
<1> HIDE DEF t
<1>2. Increasing(t)
  <2> SUFFICES ASSUME NEW k \in DOMAIN t, NEW l \in DOMAIN t, k < l
               PROVE  t[k] < t[l]
    BY DEF Increasing
  <2>1. k \in DOMAIN s /\ t[k] = s[k]
    BY <1>1
  <2>2. CASE l \in DOMAIN s
    BY <1>1, <2>1, <2>2 DEF Increasing
  <2>3. CASE l = Len(s) + 1
    BY <1>1, <2>1, <2>3 DEF Elems
  <2>4. QED
    BY <1>1, <2>2, <2>3
<1>3. Elems(t) = Elems(s) \cup {p}
  <2>1. \A k \in DOMAIN t : k \in DOMAIN s \/ k = Len(s) + 1
    BY <1>1
  <2>2. Len(s) + 1 \in DOMAIN t /\ \A k \in DOMAIN s : k \in DOMAIN t
    BY <1>1
  <2>3. QED
    BY <1>1, <2>1, <2>2 DEF Elems
<1>4. QED
  BY <1>1, <1>2, <1>3 DEF t

\* The sink's output after a batch whose positions are all above it.
LEMMA ConcatHigher ==
    ASSUME NEW s \in Seq(Nat), NEW t \in Seq(Nat), Increasing(s), Increasing(t),
           Before(s, t)
    PROVE  /\ s \o t \in Seq(Nat)
           /\ Increasing(s \o t)
           /\ Elems(s \o t) = Elems(s) \cup Elems(t)
<1> DEFINE u == s \o t
<1>1. /\ u \in Seq(Nat) /\ Len(s) \in Nat /\ Len(t) \in Nat
      /\ DOMAIN u = 1 .. Len(s) + Len(t)
      /\ DOMAIN s = 1 .. Len(s) /\ DOMAIN t = 1 .. Len(t)
      /\ \A k \in DOMAIN s : u[k] = s[k] /\ s[k] \in Nat
      /\ \A k \in DOMAIN t : t[k] \in Nat
  OBVIOUS
<1>2. \A k \in DOMAIN t : u[Len(s) + k] = t[k]
  OBVIOUS
<1> HIDE DEF u
<1>3. \A k \in DOMAIN u : k \in DOMAIN s
          \/ (k - Len(s) \in DOMAIN t /\ u[k] = t[k - Len(s)] /\ k > Len(s))
  <2> SUFFICES ASSUME NEW k \in DOMAIN u, k \notin DOMAIN s
               PROVE  k - Len(s) \in DOMAIN t /\ u[k] = t[k - Len(s)] /\ k > Len(s)
    OBVIOUS
  <2>1. k - Len(s) \in DOMAIN t /\ k > Len(s) /\ Len(s) + (k - Len(s)) = k
    BY <1>1
  <2>2. QED
    BY <1>2, <2>1
<1>4. Increasing(u)
  <2> SUFFICES ASSUME NEW k \in DOMAIN u, NEW l \in DOMAIN u, k < l
               PROVE  u[k] < u[l]
    BY DEF Increasing
  <2>1. CASE l \in DOMAIN s
    <3>1. k \in DOMAIN s
      BY <1>1, <2>1
    <3>2. QED
      BY <1>1, <2>1, <3>1 DEF Increasing
  <2>2. CASE k \in DOMAIN s /\ l \notin DOMAIN s
    BY <1>1, <1>3, <2>2 DEF Before, Elems
  <2>3. CASE k \notin DOMAIN s /\ l \notin DOMAIN s
    BY <1>1, <1>3, <2>3 DEF Increasing
  <2>4. QED
    BY <1>1, <2>1, <2>2, <2>3
<1>5. Elems(u) = Elems(s) \cup Elems(t)
  <2>1. Elems(u) \subseteq Elems(s) \cup Elems(t)
    BY <1>1, <1>3 DEF Elems
  <2>2. Elems(s) \subseteq Elems(u)
    BY <1>1 DEF Elems
  <2>3. \A k \in DOMAIN t : Len(s) + k \in DOMAIN u
    BY SMTT(120), <1>1
  <2>4. Elems(t) \subseteq Elems(u)
    BY <1>2, <2>3 DEF Elems
  <2>5. QED
    BY <2>1, <2>2, <2>4
<1>6. QED
  BY <1>1, <1>4, <1>5 DEF u

-----------------------------------------------------------------------------
(* Types *)

LEMMA InitType == Init => TypeOK
<1> SUFFICES ASSUME Init PROVE TypeOK
  OBVIOUS
<1>1. producing \in BOOLEAN /\ failed \in BOOLEAN /\ draining \in [Shards -> BOOLEAN]
  BY Zenon DEF Init
<1>2. \A i \in Shards : ring[i] \in Seq(Status)
  <2>1. <<>> \in Seq(Status) /\ <<"discard">> \in Seq(Status)
    BY DEF Status
  <2>2. QED
    BY <2>1 DEF Init
<1>3. QED
  BY <1>1, <1>2 DEF Init, TypeOK, NoPos

\* What the sink and the builder hold after a record keeps its type.
LEMMA DeliverType ==
    ASSUME TypeOK, NEW i \in Shards, NEW p \in Nat, Deliver(i, p)
    PROVE  /\ batch' \in [Shards -> Seq(Nat)] /\ written' \in [Shards -> Seq(Nat)]
           /\ consumed' \in [Shards -> Nat] /\ malformed' \in [Shards -> Nat]
           /\ failed' \in BOOLEAN
<1>0. /\ batch \in [Shards -> Seq(Nat)] /\ written \in [Shards -> Seq(Nat)]
      /\ consumed \in [Shards -> Nat] /\ malformed \in [Shards -> Nat]
  BY DEF TypeOK
<1>1. Append(batch[i], p) \in Seq(Nat) /\ Append(written[i], p) \in Seq(Nat)
  BY <1>0
<1>2. CASE ring[i][p] = "discard"
  BY <1>0, <1>2 DEF Deliver, TypeOK
<1>3. CASE ring[i][p] = "bad"
  <2>1. failed' \in BOOLEAN
    BY <1>3, Zenon DEF Deliver, TypeOK
  <2>2. /\ consumed' = [consumed EXCEPT ![i] = @ + 1]
        /\ malformed' = [malformed EXCEPT ![i] = @ + 1]
        /\ batch' = batch /\ written' = written
    BY <1>3 DEF Deliver
  <2>3. QED
    BY <1>0, <2>1, <2>2
<1>4. CASE ring[i][p] \notin {"discard", "bad"}
  <2>1. /\ consumed' = [consumed EXCEPT ![i] = @ + 1] /\ malformed' = malformed
        /\ \/ batch' = [batch EXCEPT ![i] = Append(@, p)] /\ UNCHANGED <<written, failed>>
           \/ written' = [written EXCEPT ![i] = Append(@, p)] /\ UNCHANGED <<batch, failed>>
           \/ failed' = TRUE /\ UNCHANGED <<batch, written>>
    BY <1>4 DEF Deliver
  <2>2. failed' \in BOOLEAN
    BY <2>1, Zenon DEF TypeOK
  <2>3. /\ batch' \in {batch, [batch EXCEPT ![i] = Append(@, p)]}
        /\ written' \in {written, [written EXCEPT ![i] = Append(@, p)]}
        /\ consumed' = [consumed EXCEPT ![i] = @ + 1] /\ malformed' = malformed
    BY <2>1
  <2>4. batch' \in [Shards -> Seq(Nat)]
    BY <1>0, <1>1, <2>3
  <2>5. written' \in [Shards -> Seq(Nat)]
    BY <1>0, <1>1, <2>3
  <2>6. consumed' \in [Shards -> Nat] /\ malformed' \in [Shards -> Nat]
    BY <1>0, <2>3
  <2>7. QED
    BY <2>2, <2>4, <2>5, <2>6, Zenon
<1>5. QED
  BY <1>2, <1>3, <1>4

LEMMA NextType == TypeOK /\ [Next]_vars => TypeOK'
<1> SUFFICES ASSUME TypeOK, [Next]_vars PROVE TypeOK'
  OBVIOUS
<1>0. Shards' = Shards
  BY DEF Next, vars, Shards
<1> USE <1>0 DEF TypeOK
<1>1. ASSUME NEW i \in Shards, Reserve(i) PROVE TypeOK'
  <2>1. Append(ring[i], "busy") \in Seq(Status)
    BY DEF Status
  <2>2. QED
    BY <1>1, <2>1 DEF Reserve, readVars
<1>2. ASSUME NEW i \in Shards, Commit(i) PROVE TypeOK'
  <2>1. PICK p \in 1 .. Produced(i), status \in Status \ {"busy"} :
            ring' = [ring EXCEPT ![i][p] = status]
    BY <1>2 DEF Commit
  <2>2. [ring[i] EXCEPT ![p] = status] \in Seq(Status)
    BY <2>1 DEF Produced
  <2>3. QED
    BY <1>2, <2>1, <2>2 DEF Commit, readVars
<1>3. ASSUME NEW i \in Shards, Start(i) PROVE TypeOK'
  BY <1>3 DEF Start, Goto, ringVars
<1>4. ASSUME NEW i \in Shards, Top(i) PROVE TypeOK'
  <2>1. PICK b \in BOOLEAN : b = stopping
    <3>1. stopping \in BOOLEAN
      BY DEF stopping
    <3>2. QED
      BY <3>1, Zenon
  <2>2. draining' \in [Shards -> BOOLEAN]
    BY <1>4, <2>1 DEF Top
  <2>3. QED
    BY <1>4, <2>2 DEF Top, Goto, ringVars
<1>5. ASSUME NEW i \in Shards, Wait(i) PROVE TypeOK'
  <2>1. PICK b \in BOOLEAN : b = stopping
    <3>1. stopping \in BOOLEAN
      BY DEF stopping
    <3>2. QED
      BY <3>1, Zenon
  <2>2. draining' \in [Shards -> BOOLEAN]
    BY <1>5, <2>1 DEF Wait
  <2>3. QED
    BY <1>5, <2>2 DEF Wait, Goto, ringVars
<1>6. ASSUME NEW i \in Shards, WaitError(i) PROVE TypeOK'
  <2>1. failed' \in BOOLEAN
    BY <1>6, Zenon DEF WaitError
  <2>2. QED
    BY <1>6, <2>1 DEF WaitError, Goto, ringVars
<1>7. ASSUME NEW i \in Shards, Load(i) PROVE TypeOK'
  <2>1. Produced(i) \in Nat
    BY DEF Produced
  <2>2. QED
    BY <1>7, <2>1 DEF Load, Goto, ringVars
<1>8. ASSUME NEW i \in Shards, Walk(i) PROVE TypeOK'
  <2>1. pos[i] + 1 \in Nat /\ Deliver(i, pos[i] + 1)
    BY <1>8 DEF Walk
  <2>2. QED
    BY <1>8, <2>1, DeliverType DEF Walk, ringVars
<1>9. ASSUME NEW i \in Shards, Publish(i) PROVE TypeOK'
  BY <1>9 DEF Publish, Goto, ringVars
<1>10. ASSUME NEW i \in Shards, Take(i) PROVE TypeOK'
  <2>1. cons[i] + 1 \in Nat /\ Deliver(i, cons[i] + 1)
    BY <1>10 DEF Take
  <2>2. cons' \in [Shards -> Nat] /\ taken' \in [Shards -> Nat]
    BY SMTT(120), <1>10 DEF Take
  <2>3. QED
    BY <1>10, <2>1, <2>2, DeliverType DEF Take, ringVars
<1>11. ASSUME NEW i \in Shards, TakeEnd(i) PROVE TypeOK'
  BY <1>11 DEF TakeEnd, Goto, ringVars
<1>12. ASSUME NEW i \in Shards PROVE written[i] \o batch[i] \in Seq(Nat)
  OBVIOUS
<1>13. ASSUME NEW i \in Shards, TakeError(i) PROVE TypeOK'
  <2>1. failed' \in BOOLEAN
    BY <1>13, Zenon DEF TakeError
  <2>2. /\ batch' = [batch EXCEPT ![i] = <<>>]
        /\ written' \in {written, [written EXCEPT ![i] = written[i] \o batch[i]]}
    BY <1>13 DEF TakeError
  <2>3. batch' \in [Shards -> Seq(Nat)] /\ written' \in [Shards -> Seq(Nat)]
    <3>1. <<>> \in Seq(Nat) /\ written[i] \o batch[i] \in Seq(Nat)
      BY <1>12
    <3>2. batch' \in [Shards -> Seq(Nat)]
      BY <2>2, <3>1
    <3>3. written' \in [Shards -> Seq(Nat)]
      BY <2>2, <3>1
    <3>4. QED
      BY <3>2, <3>3
  <2>4. QED
    BY <1>13, <2>1, <2>3 DEF TakeError, Goto, ringVars
<1>14. ASSUME NEW i \in Shards, Flush(i) PROVE TypeOK'
  <2>1. failed' \in BOOLEAN
    BY <1>14, Zenon DEF Flush
  <2>2. /\ batch' = [batch EXCEPT ![i] = <<>>]
        /\ written' \in {written, [written EXCEPT ![i] = written[i] \o batch[i]]}
    BY <1>14 DEF Flush
  <2>3. batch' \in [Shards -> Seq(Nat)] /\ written' \in [Shards -> Seq(Nat)]
    <3>1. <<>> \in Seq(Nat) /\ written[i] \o batch[i] \in Seq(Nat)
      BY <1>12
    <3>2. batch' \in [Shards -> Seq(Nat)]
      BY <2>2, <3>1
    <3>3. written' \in [Shards -> Seq(Nat)]
      BY <2>2, <3>1
    <3>4. QED
      BY <3>2, <3>3
  <2>4. QED
    BY <1>14, <2>1, <2>3 DEF Flush, Goto, ringVars
<1>15. ASSUME NEW i \in Shards, Acknowledge(i) PROVE TypeOK'
  <2>1. failed' \in BOOLEAN
    BY <1>15, Zenon DEF Acknowledge
  <2>2. QED
    BY <1>15, <2>1 DEF Acknowledge, Goto, ringVars
<1>16. ASSUME NEW i \in Shards, StopSnapshot(i) PROVE TypeOK'
  <2>1. Produced(i) \in Nat
    BY DEF Produced
  <2>2. QED
    BY <1>16, <2>1 DEF StopSnapshot, readVars, ringVars
<1>17. CASE Quiesce
  <2>1. producing' \in BOOLEAN
    BY <1>17, Zenon DEF Quiesce
  <2>2. QED
    BY <1>17, <2>1 DEF Quiesce, readVars
<1>18. CASE StopClose \/ StopReturn
  <2>1. failed' \in BOOLEAN
    BY <1>18, Zenon DEF StopClose, StopReturn
  <2>2. QED
    BY <1>18, <2>1 DEF StopClose, StopReturn, readVars, ringVars
<1>19. CASE UNCHANGED vars
  BY <1>19 DEF vars, readVars, ringVars
<1>20. QED
  BY <1>1, <1>2, <1>3, <1>4, <1>5, <1>6, <1>7, <1>8, <1>9, <1>10, <1>11, <1>13, <1>14,
     <1>15, <1>16, <1>17, <1>18, <1>19 DEF Next, Step, Reader

\* The state of the transport keeps its types, in every session.
THEOREM TypeCorrect == Spec => []TypeOK
  BY InitType, NextType, PTL DEF Spec

-----------------------------------------------------------------------------
(* The inductive invariant.  A record is delivered before its position is     *)
(* published and written before it is acknowledged, so the invariant speaks   *)
(* of the reader's cursor: what lies below it is committed, and each good     *)
(* record below it is in the output, or in the builder, unless the session    *)
(* failed.                                                                    *)

Cursor(i) == IF pc[i] = "walk" THEN pos[i] ELSE cons[i]

\* The output and the builder hold, in order, good records below position c.
InOrder(i, c) ==
    /\ Increasing(written[i]) /\ Increasing(batch[i]) /\ Before(written[i], batch[i])
    /\ Elems(written[i]) \cup Elems(batch[i]) \subseteq GoodUpTo(i, c)

NoneMissing(i, c) == GoodUpTo(i, c) \subseteq Elems(written[i]) \cup Elems(batch[i])

\* Positions: committed below the cursor, acknowledged only what was published.
Positions(i) ==
    /\ acked[i] <= cons[i] /\ cons[i] <= Cursor(i) /\ Cursor(i) <= Produced(i)
    /\ \A p \in 1 .. Cursor(i) : ring[i][p] # "busy"

Output(i) ==
    /\ InOrder(i, Cursor(i))
    /\ batch[i] # <<>> => setup.batched /\ pc[i] \in {"walk", "take", "flush"}
    /\ ~failed => /\ NoneMissing(i, Cursor(i))
                  /\ GoodUpTo(i, acked[i]) \subseteq Elems(written[i])

\* A reader leaves only when stop() has recorded the final positions, at or past
\* its own; a reader that died has failed the session.
Leaving(i) ==
    /\ draining[i] => stopping
    /\ pc[i] = "done" => stopping /\ cons[i] >= final[i] /\ acked[i] = cons[i]
    /\ pc[i] = "dead" => failed
    /\ stopping => final[i] # NoPos
    /\ ~producing /\ final[i] # NoPos => final[i] = Produced(i)
    /\ ctl = "returned" => pc[i] \in {"done", "dead"}

ShardInv(i) == Positions(i) /\ Output(i) /\ Leaving(i)
SessionInv == \A i \in Shards : ShardInv(i)

LEMMA InitInv == Init => SessionInv
<1> SUFFICES ASSUME Init, NEW i \in Shards PROVE ShardInv(i)
  BY DEF SessionInv
<1>1. \/ ring[i] = <<>> /\ cons[i] = 0
      \/ ring[i] = <<"discard">> /\ cons[i] = 1
  <2>1. ring[i] \in {<<>>, <<"discard">>} /\ cons[i] = Len(ring[i])
    BY DEF Init
  <2>2. QED
    BY <2>1
<1>2. pc[i] = "start" /\ acked[i] = 0 /\ Cursor(i) = cons[i] /\ final[i] = NoPos
  BY DEF Init, Cursor
<1>3. Positions(i)
  <2>1. Len(ring[i]) = cons[i] /\ cons[i] \in 0 .. 1
    BY <1>1 DEF Init
  <2>2. \A p \in 1 .. cons[i] : ring[i][p] = "discard"
    BY <1>1
  <2>3. QED
    BY <1>2, <2>1, <2>2 DEF Positions, Produced
<1>4. batch[i] = <<>> /\ written[i] = <<>> /\ Elems(<<>>) = {}
  BY DEF Init, Elems
<1>5. \A n : GoodUpTo(i, n) = {}
  BY <1>1 DEF GoodUpTo, Produced
<1>6. Output(i)
  BY <1>4, <1>5 DEF Output, InOrder, NoneMissing, Increasing, Before
<1>7. Leaving(i)
  <2>1. ctl = "running" /\ producing /\ ~draining[i]
    BY Zenon DEF Init
  <2>2. QED
    BY <1>2, <2>1 DEF Leaving, stopping
<1>8. QED
  BY <1>3, <1>6, <1>7 DEF ShardInv

\* A step that leaves a shard's ring, positions, output and reader alone keeps
\* what is known of it, whether or not it fails the session.
LEMMA OtherShard ==
    ASSUME NEW j, ShardInv(j), failed => failed',
           UNCHANGED <<ring[j], cons[j], pc[j], pos[j], draining[j], batch[j],
                       written[j], acked[j], final[j], producing, ctl, setup>>
    PROVE  ShardInv(j)'
<1>1. Positions(j)' /\ Leaving(j)'
  BY DEF ShardInv, Positions, Leaving, Cursor, Produced, stopping
<1>2. /\ Cursor(j)' = Cursor(j)
      /\ InOrder(j, Cursor(j))' <=> InOrder(j, Cursor(j))
      /\ NoneMissing(j, Cursor(j))' <=> NoneMissing(j, Cursor(j))
      /\ GoodUpTo(j, acked[j])' = GoodUpTo(j, acked[j])
  BY SMTT(120) DEF Cursor, InOrder, NoneMissing, GoodUpTo, Produced, Elems, Increasing, Before
<1>3. Output(j)'
  BY <1>2 DEF ShardInv, Output
<1>4. QED
  BY <1>1, <1>3 DEF ShardInv

\* Records below a cursor are settled: a producer that reserves or commits one
\* changes nothing there.
LEMMA RingGrows ==
    ASSUME TypeOK, NEW i \in Shards, ShardInv(i),
           \A p \in 1 .. Cursor(i) : ring'[i][p] = ring[i][p],
           Produced(i)' \in Nat, Produced(i) <= Produced(i)',
           producing \/ Produced(i)' = Produced(i),
           UNCHANGED <<readVars, producing, failed, ctl, final, setup>>
    PROVE  ShardInv(i)'
<1> USE DEF readVars
<1>1. /\ Cursor(i) \in Nat /\ acked[i] \in Nat /\ acked[i] <= Cursor(i)
      /\ Produced(i) \in Nat /\ Cursor(i) <= Produced(i)
  BY DEF TypeOK, Cursor, Produced, ShardInv, Positions
<1>2. Cursor(i)' = Cursor(i)
  BY DEF Cursor
<1>3. Positions(i)'
  BY <1>1, <1>2 DEF ShardInv, Positions
<1>4. Leaving(i)'
  BY DEF ShardInv, Leaving, stopping
<1>5. ASSUME NEW n \in Nat, n <= Cursor(i) PROVE GoodUpTo(i, n)' = GoodUpTo(i, n)
  <2>1. \A p \in Nat : p <= n /\ p > 0 =>
            /\ p \in 1 .. Produced(i) /\ p \in 1 .. Produced(i)'
            /\ ring'[i][p] = ring[i][p]
    BY <1>1, <1>5
  <2>2. GoodUpTo(i, n) = {p \in 1 .. Produced(i) : p <= n /\ ring[i][p] = "good"}
    BY DEF GoodUpTo
  <2>3. GoodUpTo(i, n)' = {p \in 1 .. Produced(i)' : p <= n /\ ring'[i][p] = "good"}
    BY DEF GoodUpTo
  <2>4. QED
    BY SMTT(120), <1>1, <2>1, <2>2, <2>3
<1>6. PICK c \in Nat, a \in Nat : c = Cursor(i) /\ a = acked[i]
  BY <1>1
<1>7. GoodUpTo(i, c)' = GoodUpTo(i, c) /\ GoodUpTo(i, a)' = GoodUpTo(i, a)
  BY <1>1, <1>5, <1>6
<1>8. InOrder(i, c) /\ (~failed => NoneMissing(i, c) /\ GoodUpTo(i, a) \subseteq Elems(written[i]))
  BY <1>6 DEF ShardInv, Output
<1>9. /\ InOrder(i, c)'
      /\ ~failed => NoneMissing(i, c)' /\ GoodUpTo(i, a)' \subseteq Elems(written[i])'
  BY SMTT(120), <1>7, <1>8 DEF InOrder, NoneMissing, Elems, Increasing, Before
<1>10. Output(i)'
  <2>1. GoodUpTo(i, acked[i])' = GoodUpTo(i, a)'
    BY <1>6
  <2>2. InOrder(i, Cursor(i))' = InOrder(i, c)' /\ NoneMissing(i, Cursor(i))' = NoneMissing(i, c)'
    BY <1>2, <1>6 DEF InOrder, NoneMissing, GoodUpTo
  <2>3. QED
    BY <1>9, <2>1, <2>2 DEF ShardInv, Output
<1>11. QED
  BY <1>3, <1>4, <1>10 DEF ShardInv

\* Delivering the record after position c extends the output, or the builder, by
\* it and nothing else; a record that is dropped fails the session.
LEMMA DeliverExtends ==
    ASSUME TypeOK, NEW i \in Shards, NEW c \in Nat, Settled(i, c + 1), InOrder(i, c),
           ~failed => NoneMissing(i, c), setup.batched \/ batch[i] = <<>>,
           Deliver(i, c + 1), ring' = ring
    PROVE  /\ InOrder(i, c + 1)' /\ (~failed' => NoneMissing(i, c + 1)')
           /\ failed => failed'
           /\ Elems(written[i]) \subseteq Elems(written[i])'
           /\ \A j \in Shards \ {i} : batch'[j] = batch[j] /\ written'[j] = written[j]
<1>1. /\ written[i] \in Seq(Nat) /\ batch[i] \in Seq(Nat) /\ c + 1 \in Nat
      /\ c + 1 \in 1 .. Produced(i) /\ Produced(i) \in Nat
  BY DEF TypeOK, Settled, Produced
<1>2. GoodUpTo(i, c + 1)' = GoodUpTo(i, c + 1)
  BY DEF GoodUpTo, Produced
<1>3. GoodUpTo(i, c + 1) = GoodUpTo(i, c) \cup (IF ring[i][c + 1] = "good" THEN {c + 1} ELSE {})
  BY <1>1 DEF GoodUpTo
<1>4. \A q \in Elems(written[i]) \cup Elems(batch[i]) : q \in Nat /\ q < c + 1
  BY <1>1 DEF InOrder, GoodUpTo
<1>5. CASE ring[i][c + 1] = "discard"
  BY <1>2, <1>3, <1>5 DEF InOrder, NoneMissing, Deliver, Elems, Increasing, Before
<1>6. CASE ring[i][c + 1] = "bad"
  BY <1>2, <1>3, <1>6 DEF InOrder, Deliver, Elems, Increasing, Before
<1>7. CASE ring[i][c + 1] \notin {"discard", "bad"}
  <2>1. ring[i][c + 1] = "good"
    BY SMTT(120), <1>1, <1>7 DEF Settled, TypeOK, Status, Produced
  <2>2. CASE setup.batched /\ batch' = [batch EXCEPT ![i] = Append(@, c + 1)]
             /\ UNCHANGED <<written, failed>>
    <3>1. /\ batch'[i] = Append(batch[i], c + 1) /\ written' = written
          /\ \A j \in Shards \ {i} : batch'[j] = batch[j]
      BY <2>2 DEF TypeOK
    <3>2. /\ Increasing(Append(batch[i], c + 1))
          /\ Elems(Append(batch[i], c + 1)) = Elems(batch[i]) \cup {c + 1}
      BY <1>1, <1>4, AppendHigher DEF InOrder
    <3>3. Before(written[i], Append(batch[i], c + 1))
      BY <1>4, <3>2 DEF InOrder, Before
    <3>4. InOrder(i, c + 1)'
      BY <1>2, <1>3, <2>1, <3>1, <3>2, <3>3 DEF InOrder
    <3>5. ~failed' => NoneMissing(i, c + 1)'
      BY <1>2, <1>3, <2>1, <2>2, <3>1, <3>2 DEF NoneMissing
    <3>6. QED
      BY <2>2, <3>1, <3>4, <3>5
  <2>3. CASE ~setup.batched /\ written' = [written EXCEPT ![i] = Append(@, c + 1)]
             /\ UNCHANGED <<batch, failed>>
    <3>1. /\ written'[i] = Append(written[i], c + 1) /\ batch' = batch
          /\ \A j \in Shards \ {i} : written'[j] = written[j]
      BY <2>3 DEF TypeOK
    <3>2. /\ Increasing(Append(written[i], c + 1))
          /\ Elems(Append(written[i], c + 1)) = Elems(written[i]) \cup {c + 1}
      BY <1>1, <1>4, AppendHigher DEF InOrder
    <3>3. Before(Append(written[i], c + 1), batch[i])
      BY SMTT(120), <2>3 DEF Before, Elems
    <3>4. InOrder(i, c + 1)'
      BY <1>2, <1>3, <2>1, <3>1, <3>2, <3>3 DEF InOrder
    <3>5. ~failed' => NoneMissing(i, c + 1)'
      BY <1>2, <1>3, <2>1, <2>3, <3>1, <3>2 DEF NoneMissing
    <3>6. QED
      BY <2>3, <3>1, <3>2, <3>4, <3>5
  <2>4. CASE failed' = TRUE /\ UNCHANGED <<batch, written>>
    BY SMTT(120), <1>2, <1>3, <2>4 DEF InOrder, Elems, Increasing, Before
  <2>5. QED
    BY <1>7, <2>2, <2>3, <2>4 DEF Deliver
<1>8. QED
  BY <1>5, <1>6, <1>7

\* A step that moves the reader on without touching ring, output or builder.
LEMMA ReaderMoves ==
    ASSUME NEW i \in Shards, ShardInv(i), failed => failed', Cursor(i)' = Cursor(i),
           UNCHANGED <<ring, written[i], batch[i], setup>>,
           batch[i] # <<>> => pc'[i] \in {"walk", "take", "flush"},
           \/ acked'[i] = acked[i]
           \/ acked'[i] = Cursor(i) /\ batch[i] = <<>>
    PROVE  Output(i)'
<1>1. PICK c, a, b : c = Cursor(i) /\ a = acked[i] /\ b = acked'[i]
  OBVIOUS
<1>2. \A n : GoodUpTo(i, n)' = GoodUpTo(i, n)
  BY DEF GoodUpTo, Produced
<1>3. InOrder(i, c) /\ (~failed => NoneMissing(i, c) /\ GoodUpTo(i, a) \subseteq Elems(written[i]))
  BY <1>1 DEF ShardInv, Output
<1>4. InOrder(i, c)' /\ (~failed => NoneMissing(i, c)')
  BY <1>2, <1>3 DEF InOrder, NoneMissing
<1>5. ~failed => GoodUpTo(i, b) \subseteq Elems(written[i])
  <2>1. CASE b = a
    BY <1>3, <2>1
  <2>2. CASE b = c /\ batch[i] = <<>>
    BY <1>3, <2>2 DEF NoneMissing, Elems
  <2>3. QED
    BY <1>1, <2>1, <2>2
<1>6. InOrder(i, Cursor(i))' = InOrder(i, c)' /\ NoneMissing(i, Cursor(i))' = NoneMissing(i, c)'
  BY <1>1 DEF InOrder, NoneMissing, GoodUpTo
<1>7. GoodUpTo(i, acked[i])' = GoodUpTo(i, b)
  BY <1>1, <1>2 DEF GoodUpTo
<1>8. QED
  BY <1>4, <1>5, <1>6, <1>7 DEF ShardInv, Output

\* Every step of the producers, of a reader and of stop() keeps the invariant.
LEMMA NextInv == TypeOK /\ SessionInv /\ [Next]_vars => SessionInv'
<1> SUFFICES ASSUME TypeOK, SessionInv, [Next]_vars PROVE SessionInv'
  OBVIOUS
<1>0. Shards' = Shards /\ setup' = setup
  BY DEF Next, vars, Shards
<1>1. ASSUME NEW i \in Shards, ShardInv(i)',
             \A j \in Shards \ {i} :
                 UNCHANGED <<ring[j], cons[j], pc[j], pos[j], draining[j], batch[j],
                             written[j], acked[j], final[j]>>,
             failed => failed', UNCHANGED <<producing, ctl>>
      PROVE  SessionInv'
  <2>1. ASSUME NEW j \in Shards, j # i PROVE ShardInv(j)'
    BY <1>0, <1>1, <2>1, OtherShard DEF SessionInv
  <2>2. QED
    BY <1>0, <1>1, <2>1 DEF SessionInv
<1>2. ASSUME NEW i \in Shards
      PROVE  /\ ShardInv(i) /\ Positions(i) /\ Output(i) /\ Leaving(i)
             /\ cons[i] \in Nat /\ pos[i] \in Nat /\ acked[i] \in Nat
             /\ Produced(i) \in Nat /\ ring[i] \in Seq(Status)
             /\ final[i] \in Nat \cup {NoPos}
  BY DEF SessionInv, ShardInv, TypeOK, Produced
<1> USE <1>0
\* Producers.
<1>3. ASSUME NEW i \in Shards, Reserve(i) PROVE SessionInv'
  <2>1. /\ ring'[i] = Append(ring[i], "busy") /\ producing
        /\ \A j \in Shards \ {i} : ring'[j] = ring[j]
        /\ UNCHANGED <<readVars, producing, failed, ctl, final, setup>>
    BY <1>3 DEF Reserve, TypeOK
  <2>2. /\ Len(ring'[i]) = Len(ring[i]) + 1 /\ Len(ring[i]) \in Nat
        /\ \A p \in 1 .. Len(ring[i]) : ring'[i][p] = ring[i][p]
    <3>1. ring[i] \in Seq(Status) /\ "busy" \in Status
      BY <1>2 DEF Status
    <3> QED BY <2>1, <3>1
  <2>3. \A p \in 1 .. Cursor(i) : ring'[i][p] = ring[i][p]
    BY <1>2, <2>2 DEF Positions, Produced, Cursor
  <2>4. Produced(i)' \in Nat /\ Produced(i) <= Produced(i)'
    BY <2>2 DEF Produced
  <2>5. ShardInv(i)'
    BY <1>2, <2>1, <2>3, <2>4, RingGrows
  <2>6. QED
    BY <1>1, <2>1, <2>5 DEF readVars
<1>4. ASSUME NEW i \in Shards, Commit(i) PROVE SessionInv'
  <2>1. PICK p \in 1 .. Produced(i), status \in Status \ {"busy"} :
            ring[i][p] = "busy" /\ ring' = [ring EXCEPT ![i][p] = status]
    BY <1>4 DEF Commit
  <2>2. /\ ring'[i] = [ring[i] EXCEPT ![p] = status]
        /\ \A j \in Shards \ {i} : ring'[j] = ring[j]
        /\ UNCHANGED <<readVars, producing, failed, ctl, final, setup>>
    BY <1>4, <2>1 DEF Commit, TypeOK
  <2>3. /\ Len(ring'[i]) = Len(ring[i]) /\ Len(ring[i]) \in Nat
        /\ \A q \in 1 .. Len(ring[i]) : q # p => ring'[i][q] = ring[i][q]
    BY <1>2, <2>2
  <2>4. \A q \in 1 .. Cursor(i) : q # p /\ q \in 1 .. Len(ring[i])
    BY <1>2, <2>1, <2>3 DEF Positions, Produced, Cursor
  <2>5. Produced(i)' = Produced(i) /\ Produced(i)' \in Nat /\ Produced(i) <= Produced(i)'
    BY <2>3 DEF Produced
  <2>6. \A q \in 1 .. Cursor(i) : ring'[i][q] = ring[i][q]
    BY <2>3, <2>4
  <2>7. ShardInv(i)'
    BY <1>2, <2>2, <2>5, <2>6, RingGrows
  <2>8. QED
    BY <1>1, <2>2, <2>7 DEF readVars
\* A reader: what a move leaves to show.
<1>5. ASSUME NEW i \in Shards, UNCHANGED <<ring, written, batch, producing, ctl, final>>,
             failed => failed', Cursor(i)' = Cursor(i),
             batch[i] # <<>> => pc'[i] \in {"walk", "take", "flush"},
             \/ acked'[i] = acked[i]
             \/ acked'[i] = Cursor(i) /\ batch[i] = <<>>,
             \A j \in Shards \ {i} :
                 UNCHANGED <<cons[j], pc[j], pos[j], draining[j], acked[j]>>,
             acked'[i] <= cons'[i], cons'[i] <= Cursor(i), Leaving(i)'
      PROVE  SessionInv'
  <2>1. Output(i)'
    BY <1>2, <1>5, ReaderMoves
  <2>2. Positions(i)'
    <3>1. Produced(i)' = Produced(i)
      BY <1>5 DEF Produced
    <3>2. QED
      BY <1>2, <1>5, <3>1 DEF Positions
  <2>3. ShardInv(i)'
    BY <1>5, <2>1, <2>2 DEF ShardInv
  <2>4. QED
    BY <1>1, <1>5, <2>3
<1>6. ASSUME NEW i \in Shards, pc[i] \in {"start", "top", "wait", "load", "ack", "done", "dead"}
      PROVE  batch[i] = <<>> /\ Cursor(i) = cons[i] /\ acked[i] <= cons[i]
  BY <1>2, <1>6 DEF Output, Cursor, Positions
<1>7. ASSUME NEW i \in Shards, pc'[i] \notin {"done", "dead"}, pc[i] \notin {"done", "dead"},
             UNCHANGED <<ring, producing, ctl, final>>, draining'[i] => stopping
      PROVE  Leaving(i)'
  BY <1>2, <1>7 DEF Leaving, stopping, Produced
<1>8. ASSUME NEW i \in Shards, Start(i) PROVE SessionInv'
  <2>1. /\ pc[i] = "start" /\ pc'[i] = "top" /\ acked'[i] \in {acked[i], cons[i]}
        /\ \A j \in Shards \ {i} : pc'[j] = pc[j] /\ acked'[j] = acked[j]
        /\ UNCHANGED <<ring, producing, cons, pos, draining, batch, written, failed, ctl, final>>
    BY <1>8 DEF Start, Goto, ringVars, TypeOK
  <2>2. Leaving(i)'
    BY <1>2, <1>7, <2>1 DEF Leaving
  <2>3. batch[i] = <<>> /\ Cursor(i) = cons[i] /\ acked[i] <= cons[i]
    BY <1>6, <2>1
  <2>4. Cursor(i)' = cons[i] /\ cons'[i] = cons[i] /\ acked'[i] \in {acked[i], cons[i]}
    BY <2>1 DEF Cursor
  <2>5. acked'[i] <= cons'[i] /\ cons'[i] <= Cursor(i)
    BY <1>2, <2>3, <2>4
  <2>6. QED
    BY <1>5, <2>1, <2>2, <2>3, <2>4, <2>5
<1>9. ASSUME NEW i \in Shards, Top(i) \/ Wait(i) PROVE SessionInv'
  <2>1. /\ pc[i] \in {"top", "wait"} /\ pc'[i] \in {"take", "load", "wait"}
        /\ \A j \in Shards \ {i} : pc'[j] = pc[j] /\ draining'[j] = draining[j]
        /\ UNCHANGED <<ring, producing, cons, pos, batch, written, acked, failed, ctl, final>>
    BY <1>9 DEF Top, Wait, Goto, ringVars, TypeOK
  <2>2. draining'[i] = stopping
    BY <1>9 DEF Top, Wait, TypeOK
  <2>3. Leaving(i)'
    BY <1>7, <2>1, <2>2
  <2>4. batch[i] = <<>> /\ Cursor(i) = cons[i] /\ acked[i] <= cons[i]
    BY <1>6, <2>1
  <2>5. Cursor(i)' = cons[i] /\ cons'[i] = cons[i] /\ acked'[i] \in {acked[i], cons[i]}
    BY <2>1 DEF Cursor
  <2>6. acked'[i] <= cons'[i] /\ cons'[i] <= Cursor(i)
    BY <1>2, <2>4, <2>5
  <2>7. QED
    BY <1>5, <2>1, <2>3, <2>4, <2>5, <2>6
<1>10. ASSUME NEW i \in Shards, WaitError(i) PROVE SessionInv'
  <2>1. /\ pc[i] = "wait" /\ pc'[i] = "dead" /\ failed'
        /\ \A j \in Shards \ {i} : pc'[j] = pc[j]
        /\ UNCHANGED <<ring, producing, cons, pos, draining, batch, written, acked, ctl, final>>
    BY <1>10 DEF WaitError, Goto, ringVars, TypeOK
  <2>2. Leaving(i)'
    BY <1>2, <2>1 DEF Leaving, stopping, Produced
  <2>3. batch[i] = <<>> /\ Cursor(i) = cons[i] /\ acked[i] <= cons[i]
    BY <1>6, <2>1
  <2>4. Cursor(i)' = cons[i] /\ cons'[i] = cons[i] /\ acked'[i] \in {acked[i], cons[i]}
    BY <2>1 DEF Cursor
  <2>5. acked'[i] <= cons'[i] /\ cons'[i] <= Cursor(i)
    BY <1>2, <2>3, <2>4
  <2>6. QED
    BY <1>5, <2>1, <2>2, <2>3, <2>4, <2>5
<1>11. ASSUME NEW i \in Shards, Load(i) PROVE SessionInv'
  <2>1. /\ pc[i] = "load" /\ pc'[i] = "walk" /\ pos'[i] = cons[i]
        /\ \A j \in Shards \ {i} : pc'[j] = pc[j] /\ pos'[j] = pos[j]
        /\ UNCHANGED <<ring, producing, cons, draining, batch, written, acked, failed, ctl, final>>
    BY <1>11 DEF Load, Goto, ringVars, TypeOK
  <2>2. Leaving(i)'
    BY <1>2, <1>7, <2>1 DEF Leaving
  <2>3. batch[i] = <<>> /\ Cursor(i) = cons[i] /\ acked[i] <= cons[i]
    BY <1>6, <2>1
  <2>4. Cursor(i)' = cons[i] /\ cons'[i] = cons[i] /\ acked'[i] \in {acked[i], cons[i]}
    BY <2>1 DEF Cursor
  <2>5. acked'[i] <= cons'[i] /\ cons'[i] <= Cursor(i)
    BY <1>2, <2>3, <2>4
  <2>6. QED
    BY <1>5, <2>1, <2>2, <2>3, <2>4, <2>5
<1>12. ASSUME NEW i \in Shards, Publish(i) PROVE SessionInv'
  <2>1. /\ pc[i] = "walk" /\ pc'[i] = "flush" /\ cons'[i] = pos[i]
        /\ \A j \in Shards \ {i} : pc'[j] = pc[j] /\ pos'[j] = pos[j] /\ cons'[j] = cons[j]
        /\ UNCHANGED <<ring, producing, draining, batch, written, acked, failed, ctl, final>>
    BY <1>12 DEF Publish, Goto, ringVars, TypeOK
  <2>2. Leaving(i)'
    BY <1>2, <1>7, <2>1 DEF Leaving
  <2>3. Positions(i) /\ acked[i] \in Nat /\ cons[i] \in Nat /\ pos[i] \in Nat
    BY <1>2, Zenon
  <2>4. Cursor(i) = pos[i] /\ Cursor(i)' = cons'[i]
    BY <2>1 DEF Cursor
  <2>5. acked[i] <= cons[i] /\ cons[i] <= pos[i]
    BY <2>3, <2>4, Zenon DEF Positions
  <2>6. Cursor(i)' = Cursor(i) /\ acked'[i] <= cons'[i] /\ cons'[i] <= Cursor(i)
    BY <2>1, <2>3, <2>4, <2>5
  <2>7. QED
    BY <1>5, <2>1, <2>2, <2>6
<1>13. ASSUME NEW i \in Shards, TakeEnd(i) PROVE SessionInv'
  <2>1. /\ pc[i] = "take" /\ pc'[i] = "flush"
        /\ \A j \in Shards \ {i} : pc'[j] = pc[j]
        /\ UNCHANGED <<ring, producing, cons, pos, draining, batch, written, acked, failed, ctl, final>>
    BY <1>13 DEF TakeEnd, Goto, ringVars, TypeOK
  <2>2. Leaving(i)'
    BY <1>2, <1>7, <2>1 DEF Leaving
  <2>3. Positions(i) /\ acked[i] \in Nat /\ cons[i] \in Nat
    BY <1>2, Zenon
  <2>4. Cursor(i) = cons[i] /\ Cursor(i)' = cons[i]
    BY <2>1 DEF Cursor
  <2>5. acked'[i] <= cons'[i] /\ cons'[i] <= Cursor(i)
    BY <2>1, <2>3, <2>4 DEF Positions
  <2>6. QED
    BY <1>5, <2>1, <2>2, <2>4, <2>5
<1>14. ASSUME NEW i \in Shards, Acknowledge(i) PROVE SessionInv'
  <2>1. /\ pc[i] = "ack" /\ acked'[i] = cons[i]
        /\ \A j \in Shards \ {i} : pc'[j] = pc[j] /\ acked'[j] = acked[j]
        /\ UNCHANGED <<ring, producing, cons, pos, draining, batch, written, ctl, final>>
    BY <1>14 DEF Acknowledge, Goto, ringVars, TypeOK
  <2>2. \/ pc'[i] = "top"
        \/ pc'[i] = "done" /\ draining[i] /\ cons[i] >= final[i]
    BY <1>14 DEF Acknowledge, Goto, TypeOK
  <2>3. failed => failed'
    BY <1>14, Zenon DEF Acknowledge
  <2>4. Leaving(i)'
    BY <1>2, <2>1, <2>2 DEF Leaving, stopping, Produced
  <2>5. batch[i] = <<>> /\ Cursor(i) = cons[i] /\ acked[i] <= cons[i]
    BY <1>6, <2>1
  <2>6. Cursor(i)' = cons[i] /\ cons'[i] = cons[i]
    BY <2>1, <2>2 DEF Cursor
  <2>7. acked'[i] <= cons'[i] /\ cons'[i] <= Cursor(i)
    BY <1>2, <2>1, <2>5, <2>6
  <2>8. QED
    BY <1>5, <2>1, <2>3, <2>4, <2>5, <2>6, <2>7
\* A reader that delivers the record after its cursor.
<1>15. ASSUME NEW i \in Shards, NEW c \in Nat, c = Cursor(i), pc[i] \in {"walk", "take"},
              Settled(i, c + 1), Deliver(i, c + 1), Cursor(i)' = c + 1,
              UNCHANGED <<ring, producing, pc, draining, acked, ctl, final>>,
              \A j \in Shards \ {i} : cons'[j] = cons[j] /\ pos'[j] = pos[j],
              acked[i] <= cons'[i], cons'[i] <= c + 1
       PROVE  SessionInv'
  <2>1. /\ InOrder(i, c) /\ (~failed => NoneMissing(i, c))
        /\ ~failed => GoodUpTo(i, acked[i]) \subseteq Elems(written[i])
        /\ setup.batched \/ batch[i] = <<>>
    BY <1>2, <1>15 DEF Output
  <2>2. /\ InOrder(i, c + 1)' /\ (~failed' => NoneMissing(i, c + 1)')
        /\ failed => failed'
        /\ Elems(written[i]) \subseteq Elems(written[i])'
        /\ \A j \in Shards \ {i} : batch'[j] = batch[j] /\ written'[j] = written[j]
    BY <1>15, <2>1, DeliverExtends
  <2>3. setup.batched \/ batch'[i] = <<>>
    BY <1>15, <2>1 DEF Deliver, TypeOK
  <2>4. Produced(i)' = Produced(i) /\ GoodUpTo(i, acked[i])' = GoodUpTo(i, acked[i])
    BY <1>15 DEF Produced, GoodUpTo
  <2>5. /\ InOrder(i, Cursor(i))' = InOrder(i, c + 1)'
        /\ NoneMissing(i, Cursor(i))' = NoneMissing(i, c + 1)'
    BY <1>15 DEF InOrder, NoneMissing, GoodUpTo
  <2>6. Output(i)'
    BY <1>15, <2>1, <2>2, <2>3, <2>4, <2>5 DEF Output
  <2>7. Positions(i)'
    <3>1. Cursor(i)' = c + 1 /\ acked' = acked /\ ring' = ring
      BY <1>15
    <3>2. c + 1 <= Produced(i) /\ ring[i][c + 1] # "busy"
      BY <1>15 DEF Settled
    <3>3. \A p \in 1 .. c : ring[i][p] # "busy"
      BY <1>2, <1>15 DEF Positions
    <3>4. \A p \in 1 .. c + 1 : p \in 1 .. c \/ p = c + 1
      OBVIOUS
    <3>5. \A p \in 1 .. c + 1 : ring[i][p] # "busy"
      BY <3>2, <3>3, <3>4, Zenon
    <3> QED BY <1>15, <2>4, <3>1, <3>2, <3>5 DEF Positions
  <2>8. Leaving(i)'
    BY <1>2, <1>7, <1>15 DEF Leaving
  <2>9. QED
    BY <1>1, <1>15, <2>2, <2>6, <2>7, <2>8 DEF ShardInv
<1>16. ASSUME NEW i \in Shards, Walk(i) PROVE SessionInv'
  <2>1. /\ pc[i] = "walk" /\ Settled(i, pos[i] + 1) /\ Deliver(i, pos[i] + 1)
        /\ pos'[i] = pos[i] + 1 /\ \A j \in Shards \ {i} : pos'[j] = pos[j]
        /\ UNCHANGED <<ring, producing, cons, pc, draining, acked, ctl, final>>
    BY <1>16 DEF Walk, ringVars, TypeOK
  <2>2. Cursor(i) = pos[i] /\ Cursor(i)' = pos[i] + 1
    BY <2>1 DEF Cursor
  <2>3. Positions(i) /\ acked[i] \in Nat /\ cons[i] \in Nat /\ pos[i] \in Nat
    BY <1>2, Zenon
  <2>4. acked[i] <= cons'[i] /\ cons'[i] <= pos[i] + 1
    <3>1. acked[i] <= cons[i] /\ cons[i] <= pos[i]
      BY <2>2, <2>3, Zenon DEF Positions
    <3>2. cons'[i] = cons[i]
      BY <2>1
    <3> QED BY <2>3, <3>1, <3>2
  <2>5. QED
    BY <1>15, <2>1, <2>2, <2>3, <2>4
<1>17. ASSUME NEW i \in Shards, Take(i) PROVE SessionInv'
  <2>1. /\ pc[i] = "take" /\ Settled(i, cons[i] + 1) /\ Deliver(i, cons[i] + 1)
        /\ cons'[i] = cons[i] + 1 /\ \A j \in Shards \ {i} : cons'[j] = cons[j]
        /\ UNCHANGED <<ring, producing, pos, pc, draining, acked, ctl, final>>
    BY <1>17 DEF Take, ringVars, TypeOK
  <2>2. Cursor(i) = cons[i] /\ Cursor(i)' = cons[i] + 1
    BY <2>1 DEF Cursor
  <2>3. Positions(i) /\ acked[i] \in Nat /\ cons[i] \in Nat
    BY <1>2, Zenon
  <2>4. acked[i] <= cons'[i] /\ cons'[i] <= cons[i] + 1
    <3>1. acked[i] <= cons[i] /\ cons'[i] = cons[i] + 1
      BY <2>1, <2>3, Zenon DEF Positions
    <3> QED BY <2>3, <3>1
  <2>5. QED
    BY <1>15, <2>1, <2>2, <2>3, <2>4
\* A reader that empties its builder, into the output or with a failure.
<1>18. ASSUME NEW i \in Shards, pc[i] \in {"take", "flush"}, pc'[i] \notin {"walk", "done"},
              batch' = [batch EXCEPT ![i] = <<>>],
              \/ written' = [written EXCEPT ![i] = @ \o batch[i]] /\ (failed => failed')
              \/ written' = written /\ failed',
              pc'[i] = "dead" => failed',
              \A j \in Shards \ {i} : pc'[j] = pc[j],
              UNCHANGED <<ring, producing, cons, pos, draining, acked, ctl, final>>
       PROVE  SessionInv'
  <2>1. PICK c : c = Cursor(i)
    OBVIOUS
  <2>2. Cursor(i)' = c /\ c = cons[i]
    BY <1>18, <2>1 DEF Cursor
  <2>3. /\ InOrder(i, c) /\ (~failed => NoneMissing(i, c))
        /\ ~failed => GoodUpTo(i, acked[i]) \subseteq Elems(written[i])
    BY <1>2, <2>1 DEF Output
  <2>4. batch'[i] = <<>> /\ \A j \in Shards \ {i} : batch'[j] = batch[j] /\ written'[j] = written[j]
    BY <1>18 DEF TypeOK
  <2>5. Elems(<<>>) = {} /\ Increasing(<<>>)
    BY DEF Elems, Increasing
  <2>6. Produced(i)' = Produced(i) /\ \A n : GoodUpTo(i, n)' = GoodUpTo(i, n)
    BY <1>18 DEF Produced, GoodUpTo
  <2>7. /\ Increasing(written'[i]) /\ Before(written'[i], batch'[i])
        /\ Elems(written'[i]) \subseteq Elems(written[i]) \cup Elems(batch[i])
        /\ ~failed' => ~failed /\ Elems(written'[i]) = Elems(written[i]) \cup Elems(batch[i])
    <3>1. CASE written' = [written EXCEPT ![i] = @ \o batch[i]] /\ (failed => failed')
      <4>1. written'[i] = written[i] \o batch[i] /\ written[i] \in Seq(Nat) /\ batch[i] \in Seq(Nat)
        BY <3>1 DEF TypeOK
      <4>2. /\ Increasing(written[i] \o batch[i])
            /\ Elems(written[i] \o batch[i]) = Elems(written[i]) \cup Elems(batch[i])
        BY <2>3, <4>1, ConcatHigher DEF InOrder
      <4>3. QED
        BY <2>4, <2>5, <3>1, <4>1, <4>2 DEF Before
    <3>2. CASE written' = written /\ failed'
      BY <2>3, <2>4, <2>5, <3>2 DEF InOrder, Before
    <3>3. QED
      BY <1>18, <3>1, <3>2
  <2>8. InOrder(i, c)'
    BY <2>3, <2>4, <2>5, <2>6, <2>7 DEF InOrder
  <2>9. ~failed' => NoneMissing(i, c)' /\ GoodUpTo(i, acked[i])' \subseteq Elems(written[i])'
    BY <1>18, <2>3, <2>4, <2>5, <2>6, <2>7 DEF NoneMissing
  <2>10. InOrder(i, Cursor(i))' = InOrder(i, c)' /\ NoneMissing(i, Cursor(i))' = NoneMissing(i, c)'
    BY <2>2 DEF InOrder, NoneMissing, GoodUpTo
  <2>11. Output(i)'
    <3>1. InOrder(i, Cursor(i))' /\ batch[i]' = <<>>
      BY <2>4, <2>8, <2>10
    <3>2. ~failed' => /\ NoneMissing(i, Cursor(i))'
                      /\ GoodUpTo(i, acked[i])' \subseteq Elems(written[i])'
      BY <2>9, <2>10
    <3>3. QED
      BY <3>1, <3>2 DEF Output
  <2>12. Positions(i)'
    <3>1. acked'[i] = acked[i] /\ cons'[i] = cons[i] /\ ring' = ring /\ Cursor(i)' = Cursor(i)
      BY <1>18, <2>1, <2>2
    <3>2. QED
      BY <1>2, <2>6, <3>1 DEF Positions
  <2>13. Leaving(i)'
    BY <1>2, <1>18, <2>6 DEF Leaving, stopping
  <2>14. failed => failed'
    BY <1>18
  <2>15. QED
    BY <1>1, <1>18, <2>4, <2>11, <2>12, <2>13, <2>14 DEF ShardInv
<1>19. ASSUME NEW i \in Shards, TakeError(i) PROVE SessionInv'
  <2>1. failed'
    BY <1>19 DEF TakeError
  <2>2. /\ pc[i] = "take" /\ pc'[i] = "dead" /\ \A j \in Shards \ {i} : pc'[j] = pc[j]
        /\ batch' = [batch EXCEPT ![i] = <<>>]
        /\ \/ written' = [written EXCEPT ![i] = @ \o batch[i]]
           \/ written' = written
        /\ UNCHANGED <<ring, producing, cons, pos, draining, acked, ctl, final>>
    BY <1>19 DEF TakeError, Goto, ringVars, TypeOK
  <2>3. QED
    BY <1>18, <2>1, <2>2
<1>20. ASSUME NEW i \in Shards, Flush(i) PROVE SessionInv'
  <2>1. /\ pc[i] = "flush" /\ pc'[i] = "ack" /\ \A j \in Shards \ {i} : pc'[j] = pc[j]
        /\ batch' = [batch EXCEPT ![i] = <<>>]
        /\ UNCHANGED <<ring, producing, cons, pos, draining, acked, ctl, final>>
    BY <1>20 DEF Flush, Goto, ringVars, TypeOK
  <2>2. \/ written' = [written EXCEPT ![i] = @ \o batch[i]] /\ (failed => failed')
        \/ written' = written /\ failed'
    BY <1>20 DEF Flush
  <2>3. QED
    BY <1>18, <2>1, <2>2
\* stop(), and Quiesce before it.
<1>21. ASSUME NEW i \in Shards, StopSnapshot(i) PROVE SessionInv'
  <2>1. /\ ctl = "running" /\ final[i] = NoPos /\ final'[i] = Produced(i)
        /\ \A j \in Shards \ {i} : final'[j] = final[j]
        /\ UNCHANGED <<ring, producing, readVars, failed, ctl>>
    BY <1>21 DEF StopSnapshot, ringVars, TypeOK
  <2>2. Cursor(i)' = Cursor(i) /\ Produced(i)' = Produced(i)
    BY <2>1 DEF Cursor, Produced, readVars
  <2>3. Output(i)'
    BY <1>2, <2>1, <2>2, ReaderMoves DEF readVars, Output
  <2>4. Positions(i)'
    BY <1>2, <2>1, <2>2 DEF Positions, readVars
  <2>5. Leaving(i)'
    BY <1>2, <2>1, <2>2 DEF Leaving, stopping, readVars
  <2>6. QED
    BY <1>1, <2>1, <2>3, <2>4, <2>5 DEF ShardInv, readVars
<1>22. ASSUME UNCHANGED <<ring, readVars, final>>, failed => failed',
              \A i \in Shards : Leaving(i)'
       PROVE  SessionInv'
  <2> SUFFICES ASSUME NEW i \in Shards PROVE ShardInv(i)'
    BY DEF SessionInv
  <2>1. Cursor(i)' = Cursor(i) /\ Produced(i)' = Produced(i)
    BY <1>22 DEF Cursor, Produced, readVars
  <2>2. Output(i)'
    BY <1>2, <1>22, <2>1, ReaderMoves DEF readVars, Output
  <2>3. Positions(i)'
    BY <1>2, <1>22, <2>1 DEF Positions, readVars
  <2>4. QED
    BY <1>22, <2>2, <2>3 DEF ShardInv
<1>23. CASE Quiesce
  <2>1. /\ \A i \in Shards : final[i] = NoPos
        /\ UNCHANGED <<ring, readVars, failed, ctl, final>>
    BY <1>23 DEF Quiesce
  <2>2. \A i \in Shards : Leaving(i)'
    BY <1>2, <2>1 DEF Leaving, stopping, readVars
  <2>3. QED
    BY <1>22, <2>1, <2>2
<1>24. CASE StopClose
  <2>1. /\ ctl = "running" /\ ctl' = "closed" /\ \A i \in Shards : final[i] # NoPos
        /\ UNCHANGED <<ring, producing, readVars, final>>
    BY <1>24 DEF StopClose, ringVars
  <2>2. failed => failed'
    BY <1>24, Zenon DEF StopClose
  <2>3. \A i \in Shards : Leaving(i)'
    BY <1>2, <2>1, <2>2 DEF Leaving, stopping, readVars, Produced
  <2>4. QED
    BY <1>22, <2>1, <2>2, <2>3
<1>25. CASE StopReturn
  <2>1. /\ ctl = "closed" /\ ctl' = "returned" /\ \A i \in Shards : pc[i] \in {"done", "dead"}
        /\ UNCHANGED <<ring, producing, readVars, final>>
    BY <1>25 DEF StopReturn, ringVars
  <2>2. failed => failed'
    BY <1>25, Zenon DEF StopReturn
  <2>3. \A i \in Shards : Leaving(i)'
    BY <1>2, <2>1, <2>2 DEF Leaving, stopping, readVars, Produced
  <2>4. QED
    BY <1>22, <2>1, <2>2, <2>3
<1>26. CASE UNCHANGED vars
  <2>1. \A i \in Shards : Leaving(i)'
    BY <1>2, <1>26 DEF Leaving, stopping, vars, readVars, ringVars, Produced
  <2>2. QED
    BY <1>22, <1>26, <2>1 DEF vars, ringVars
<1>27. QED
  BY <1>3, <1>4, <1>8, <1>9, <1>10, <1>11, <1>12, <1>13, <1>14, <1>16, <1>17, <1>19,
     <1>20, <1>21, <1>23, <1>24, <1>25, <1>26 DEF Next, Step, Reader

\* TypeOK and SessionInv together are inductive.
LEMMA InvCorrect == Spec => [](TypeOK /\ SessionInv)
  BY InitType, NextType, InitInv, NextInv, PTL DEF Spec

-----------------------------------------------------------------------------
(* What follows for the session *)

\* For any number of shards and any ring and batch size: no record reaches the
\* output twice, out of ring order, or without having been committed as good.
THEOREM InOrderCorrect == Spec => []InOrderOnce
<1>1. TypeOK /\ SessionInv => InOrderOnce
  <2> SUFFICES ASSUME TypeOK, SessionInv, NEW i \in Shards
               PROVE  Increasing(written[i]) /\ Written(i) \subseteq GoodUpTo(i, Produced(i))
    BY DEF InOrderOnce, Increasing
  <2>1. InOrder(i, Cursor(i))
    BY DEF SessionInv, ShardInv, Output
  <2>2. Written(i) = Elems(written[i])
    BY DEF Written, Elems
  <2>3. GoodUpTo(i, Cursor(i)) \subseteq GoodUpTo(i, Produced(i))
    BY DEF GoodUpTo, Produced, TypeOK
  <2>4. QED
    BY <2>1, <2>2, <2>3 DEF InOrder
<1>2. QED
  BY <1>1, InvCorrect, PTL

\* For any number of shards and any ring and batch size: every good record below
\* an acknowledged position was accepted by the sink, unless the session failed.
THEOREM AckCorrect == Spec => []AckVouches
<1>1. SessionInv => AckVouches
  <2>1. \A i : Written(i) = Elems(written[i])
    BY DEF Written, Elems
  <2>2. QED
    BY <2>1 DEF SessionInv, ShardInv, Output, AckVouches
<1>2. QED
  BY <1>1, InvCorrect, PTL

\* For any number of shards and any ring and batch size: once stop() returned, each
\* reader that was not cut off passed its final position, and the output of a
\* session that did not fail is the whole ring, once the producers were quiet.
THEOREM StopCorrect == Spec => []StopDrains
<1>1. TypeOK /\ SessionInv => StopDrains
  <2> SUFFICES ASSUME TypeOK, SessionInv, ctl = "returned", NEW i \in Shards
               PROVE  /\ pc[i] = "done" => cons[i] >= final[i] /\ acked[i] = cons[i]
                      /\ ~failed => GoodUpTo(i, final[i]) \subseteq Written(i)
                      /\ ~failed /\ ~producing => Written(i) = GoodUpTo(i, Produced(i))
    BY DEF StopDrains
  <2>1. Positions(i) /\ Output(i) /\ Leaving(i)
    BY DEF SessionInv, ShardInv
  <2>2. Written(i) = Elems(written[i])
    BY DEF Written, Elems
  <2>3. pc[i] = "done" => cons[i] >= final[i] /\ acked[i] = cons[i]
    BY <2>1 DEF Leaving
  <2>4. ASSUME ~failed
        PROVE  /\ pc[i] = "done" /\ final[i] \in Nat /\ cons[i] \in Nat /\ cons[i] >= final[i]
               /\ GoodUpTo(i, cons[i]) \subseteq Written(i)
    BY <2>1, <2>2, <2>4 DEF Leaving, Output, stopping, TypeOK
  <2>5. ~failed => GoodUpTo(i, final[i]) \subseteq Written(i)
    BY SMTT(120), <2>4 DEF GoodUpTo, Produced, TypeOK
  <2>6. ~failed /\ ~producing => final[i] = Produced(i)
    BY <2>1 DEF Leaving, stopping
  <2>7. Written(i) \subseteq GoodUpTo(i, Produced(i))
    BY SMTT(120), <2>1, <2>2 DEF Output, InOrder, GoodUpTo, Produced, TypeOK
  <2>8. QED
    BY <2>3, <2>5, <2>6, <2>7
<1>2. QED
  BY <1>1, InvCorrect, PTL

\* For any number of shards and any ring and batch size: consumer and acknowledged
\* positions only move forward, and a consumer never passes an uncommitted record.
THEOREM MonotoneCorrect == Spec => Monotone
<1>1. TypeOK /\ SessionInv /\ TypeOK' /\ SessionInv' /\ [Next]_vars =>
        [\A i \in Shards :
            /\ cons'[i] >= cons[i] /\ acked'[i] >= acked[i]
            /\ \A p \in 1 .. cons'[i] : ring'[i][p] # "busy"]_vars
  <2> SUFFICES ASSUME TypeOK, SessionInv, TypeOK', SessionInv', Next, NEW i \in Shards
               PROVE  /\ cons'[i] >= cons[i] /\ acked'[i] >= acked[i]
                      /\ \A p \in 1 .. cons'[i] : ring'[i][p] # "busy"
    OBVIOUS
  <2>1. i \in Shards'
    BY DEF Next, Shards
  <2>2. Positions(i) /\ Positions(i)'
    BY <2>1 DEF SessionInv, ShardInv
  <2>3. /\ cons[i] \in Nat /\ acked[i] \in Nat /\ pos[i] \in Nat /\ Produced(i) \in Nat
        /\ cons'[i] \in Nat /\ acked'[i] \in Nat /\ pos'[i] \in Nat
    BY <2>1 DEF TypeOK, Produced
  <2>4. \A p \in 1 .. cons'[i] : ring'[i][p] # "busy"
    BY SMTT(120), <2>1, <2>2, <2>3 DEF Positions, Cursor
  <2>5. cons[i] <= pos[i] \/ pc[i] # "walk"
    BY <2>2 DEF Positions, Cursor
  <2>6. acked[i] <= cons[i]
    BY <2>2 DEF Positions
  <2>7. cons'[i] >= cons[i]
    <3> DEFINE Reads ==
                 \/ cons' = cons
                 \/ \E j \in Shards : cons' = [cons EXCEPT ![j] = pos[j]] /\ pc[j] = "walk"
                 \/ \E j \in Shards : cons' = [cons EXCEPT ![j] = @ + 1]
    <3>1. Reads
      <4>1. ASSUME NEW j \in Shards, Reader(j) PROVE Reads
        <5>1. CASE Start(j) \/ Top(j) \/ Wait(j) \/ Load(j)
          BY <5>1 DEF Start, Top, Wait, Load
        <5>2. CASE Walk(j) \/ Publish(j) \/ Take(j) \/ TakeEnd(j)
          BY <5>2 DEF Walk, Publish, Take, TakeEnd
        <5>3. CASE Flush(j) \/ Acknowledge(j)
          BY <5>3 DEF Flush, Acknowledge
        <5> QED BY <4>1, <5>1, <5>2, <5>3 DEF Reader
      <4>2. ASSUME NEW j \in Shards,
                   Reserve(j) \/ Commit(j) \/ WaitError(j) \/ TakeError(j) \/ StopSnapshot(j)
            PROVE  Reads
        BY <4>2 DEF Reserve, Commit, WaitError, TakeError, StopSnapshot, readVars
      <4>3. CASE Quiesce \/ StopClose \/ StopReturn
        BY <4>3 DEF Quiesce, StopClose, StopReturn, readVars
      <4> QED BY <4>1, <4>2, <4>3 DEF Next, Step
    <3>2. CASE \E j \in Shards : cons' = [cons EXCEPT ![j] = pos[j]] /\ pc[j] = "walk"
      <4>1. cons'[i] = cons[i] \/ (cons'[i] = pos[i] /\ pc[i] = "walk")
        BY SMTT(120), <3>2 DEF TypeOK
      <4>2. QED
        BY <2>3, <2>5, <4>1
    <3>3. CASE \E j \in Shards : cons' = [cons EXCEPT ![j] = @ + 1]
      <4>1. cons'[i] = cons[i] \/ cons'[i] = cons[i] + 1
        BY SMTT(120), <3>3 DEF TypeOK
      <4>2. QED
        BY SMTT(120), <2>3, <4>1
    <3>4. QED
      BY <2>3, <3>1, <3>2, <3>3
  <2>8. acked'[i] >= acked[i]
    <3> DEFINE Acks ==
                 \/ acked' = acked
                 \/ \E j \in Shards : acked' = [acked EXCEPT ![j] = cons[j]]
    <3>1. Acks
      <4>1. ASSUME NEW j \in Shards, Reader(j) PROVE Acks
        <5>1. CASE Start(j) \/ Top(j) \/ Wait(j) \/ Load(j)
          BY <5>1 DEF Start, Top, Wait, Load
        <5>2. CASE Walk(j) \/ Publish(j) \/ Take(j) \/ TakeEnd(j)
          BY <5>2 DEF Walk, Publish, Take, TakeEnd
        <5>3. CASE Flush(j) \/ Acknowledge(j)
          BY <5>3 DEF Flush, Acknowledge
        <5> QED BY <4>1, <5>1, <5>2, <5>3 DEF Reader
      <4>2. ASSUME NEW j \in Shards,
                   Reserve(j) \/ Commit(j) \/ WaitError(j) \/ TakeError(j) \/ StopSnapshot(j)
            PROVE  Acks
        BY <4>2 DEF Reserve, Commit, WaitError, TakeError, StopSnapshot, readVars
      <4>3. CASE Quiesce \/ StopClose \/ StopReturn
        BY <4>3 DEF Quiesce, StopClose, StopReturn, readVars
      <4> QED BY <4>1, <4>2, <4>3 DEF Next, Step
    <3>2. acked'[i] = acked[i] \/ acked'[i] = cons[i]
      BY SMTT(120), <3>1 DEF TypeOK
    <3>3. QED
      BY SMTT(120), <2>3, <2>6, <3>2
  <2>9. QED
    BY <2>4, <2>7, <2>8
<1>2. QED
  BY <1>1, InvCorrect, PTL DEF Spec, Monotone

=============================================================================
