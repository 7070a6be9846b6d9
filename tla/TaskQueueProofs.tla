---------------------------- MODULE TaskQueueProofs ----------------------------
(* For any number of coroutines and any limit: a coroutine is in one place,  *)
(* the limit holds, no pending task is forgotten and nothing starts once the *)
(* queue is cancelled.                                                       *)
EXTENDS TaskQueue, FiniteSetTheorems, SequenceTheorems, TLAPS

\* What pending holds.
Queued == {pending[i] : i \in DOMAIN pending}

\* A cancelled queue has nothing left to drain.
Quiet == cancelled => pending = <<>> /\ drain = "none"

IInv == TypeOK /\ OnePlace /\ PendingIsServed /\ Quiet

USE QueueAssumption

\* Sets of coroutines are finite; a larger set is full if a smaller one is.
LEMMA FullGrows ==
  ASSUME NEW S \in SUBSET Tasks, NEW R \in SUBSET S
  PROVE  IsFiniteSet(S) /\ (Full(R) => Full(S))
<1>1. IsFiniteSet(S) /\ IsFiniteSet(R)
  BY FS_Subset
<1>2. Cardinality(R) <= Cardinality(S) /\ Cardinality(R) \in Nat /\ Cardinality(S) \in Nat
  BY <1>1, FS_Subset, FS_CardinalityType
<1> QED BY <1>1, <1>2 DEF Full

\* What drain() leaves behind.
LEMMA DrainFacts ==
  ASSUME NEW q, drain \in DrainStates
  PROVE  /\ Drain(q) \in DrainStates
         /\ q # <<>> => Drain(q) \in {"start", "woken"}
         /\ q = <<>> /\ drain = "none" => Drain(q) = "none"
  BY DEF Drain, DrainStates

\* The invariant holds initially.
LEMMA InitIInv == Init => IInv
<1> SUFFICES ASSUME Init PROVE IInv
  OBVIOUS
<1>1. TypeOK
  <2>1. pending \in Seq(Tasks)
    BY DEF Init
  <2> QED BY <2>1 DEF Init, TypeOK, CoroStates, DrainStates
<1>2. OnePlace
  BY DEF Init, OnePlace
<1> QED BY <1>1, <1>2 DEF Init, IInv, PendingIsServed, Quiet

\* run keeps the invariant.
LEMMA RunStep == ASSUME IInv, NEW t \in Tasks, Run(t) PROVE IInv'
<1> USE DEF Run, Start
<1>1. TypeOK'
  BY DEF IInv, TypeOK, CoroStates
<1>2. OnePlace'
  <2>1. active' = {u \in Tasks : coro'[u] \in {"running", "finished"}}
    BY DEF IInv, TypeOK, OnePlace
  <2>2. {u \in Tasks : coro'[u] = "pending"} = {u \in Tasks : coro[u] = "pending"}
    BY DEF IInv, TypeOK
  <2> QED BY <2>1, <2>2 DEF IInv, OnePlace
<1>3. PendingIsServed'
  BY FullGrows DEF IInv, TypeOK, PendingIsServed
<1> QED BY <1>1, <1>2, <1>3 DEF IInv, Quiet

\* put keeps the invariant.
LEMMA PutStep == ASSUME IInv, NEW t \in Tasks, Put(t) PROVE IInv'
<1> USE DEF Put
<1>1. CASE /\ cancelled
           /\ coro' = [coro EXCEPT ![t] = "closed"]
           /\ future' = [future EXCEPT ![t] = "cancelled"]
           /\ UNCHANGED <<pending, active, drain>>
  <2>1. TypeOK'
    BY <1>1 DEF IInv, TypeOK, CoroStates
  <2>2. OnePlace'
    <3>1. active' = {u \in Tasks : coro'[u] \in {"running", "finished"}}
      BY <1>1 DEF IInv, TypeOK, OnePlace
    <3>2. {u \in Tasks : coro'[u] = "pending"} = {u \in Tasks : coro[u] = "pending"}
      BY <1>1 DEF IInv, TypeOK
    <3> QED BY <1>1, <3>1, <3>2 DEF IInv, OnePlace
  <2> QED BY <1>1, <2>1, <2>2 DEF IInv, PendingIsServed, Quiet
<1>2. CASE /\ ~cancelled /\ Ready
           /\ Start(t)
           /\ future' = [future EXCEPT ![t] = "set"]
           /\ UNCHANGED <<pending, drain>>
  <2> USE DEF Start
  <2>1. TypeOK'
    BY <1>2 DEF IInv, TypeOK, CoroStates
  <2>2. OnePlace'
    <3>1. active' = {u \in Tasks : coro'[u] \in {"running", "finished"}}
      BY <1>2 DEF IInv, TypeOK, OnePlace
    <3>2. {u \in Tasks : coro'[u] = "pending"} = {u \in Tasks : coro[u] = "pending"}
      BY <1>2 DEF IInv, TypeOK
    <3> QED BY <1>2, <3>1, <3>2 DEF IInv, OnePlace
  <2>3. PendingIsServed'
    BY <1>2, FullGrows DEF IInv, TypeOK, PendingIsServed
  <2> QED BY <1>2, <2>1, <2>2, <2>3 DEF IInv, Quiet
<1>3. CASE /\ ~cancelled /\ ~Ready
           /\ coro' = [coro EXCEPT ![t] = "pending"]
           /\ future' = [future EXCEPT ![t] = "open"]
           /\ pending' = Append(pending, t)
           /\ drain' = Drain(pending')
           /\ UNCHANGED active
  <2>0. /\ pending' \in Seq(Tasks) /\ pending' # <<>> /\ Len(pending') = Len(pending) + 1
        /\ \A i \in 1..Len(pending) : pending'[i] = pending[i]
        /\ pending'[Len(pending) + 1] = t
        /\ DOMAIN pending' = 1..(Len(pending) + 1) /\ DOMAIN pending = 1..Len(pending)
    BY <1>3 DEF IInv, TypeOK
  <2>1. TypeOK'
    BY <1>3, <2>0, DrainFacts DEF IInv, TypeOK, CoroStates
  <2>2. OnePlace'
    <3>1. active' = {u \in Tasks : coro'[u] \in {"running", "finished"}}
      BY <1>3 DEF IInv, TypeOK, OnePlace
    <3>2. {u \in Tasks : coro'[u] = "pending"} = {u \in Tasks : coro[u] = "pending"} \cup {t}
      BY <1>3 DEF IInv, TypeOK
    <3>3. {pending'[i] : i \in DOMAIN pending'} = {pending[i] : i \in DOMAIN pending} \cup {t}
      <4>1. \A i \in DOMAIN pending' : pending'[i] = t \/ pending'[i] \in {pending[k] : k \in DOMAIN pending}
        BY <2>0 DEF IInv, TypeOK
      <4>2. \A i \in DOMAIN pending : i \in DOMAIN pending' /\ pending'[i] = pending[i]
        BY <2>0 DEF IInv, TypeOK
      <4>3. Len(pending) + 1 \in DOMAIN pending'
        BY <2>0 DEF IInv, TypeOK
      <4> QED BY <2>0, <4>1, <4>2, <4>3
    <3>4. t \notin {pending[i] : i \in DOMAIN pending}
      BY DEF IInv, OnePlace
    <3>5. \A i, j \in DOMAIN pending' : pending'[i] = pending'[j] => i = j
      BY <2>0, <3>4 DEF IInv, OnePlace, TypeOK
    <3> QED BY <3>1, <3>2, <3>3, <3>5 DEF IInv, OnePlace
  <2>3. PendingIsServed'
    BY <1>3, DrainFacts DEF IInv, TypeOK, PendingIsServed
  <2> QED BY <1>3, <2>1, <2>2, <2>3 DEF IInv, Quiet
<1> QED BY <1>1, <1>2, <1>3

\* The drain loop keeps the invariant.
LEMMA DrainLoopStep == ASSUME IInv, DrainLoop PROVE IInv'
<1>1. PICK n \in 0..Len(pending) :
          /\ n = Len(pending) \/ Full(active \cup First(n))
          /\ pending' = SubSeq(pending, n + 1, Len(pending))
          /\ active' = active \cup First(n)
          /\ coro' = [t \in Tasks |-> IF t \in First(n) THEN "running" ELSE coro[t]]
          /\ future' = [t \in Tasks |-> IF t \in First(n) /\ future[t] = "open" THEN "set"
                                                                               ELSE future[t]]
          /\ drain' = IF n < Len(pending) THEN "wait" ELSE "ended"
  BY DEF DrainLoop
<1>2. /\ pending \in Seq(Tasks) /\ Len(pending) \in Nat /\ DOMAIN pending = 1..Len(pending)
      /\ \A i \in 1..Len(pending) : pending[i] \in Tasks
  BY DEF IInv, TypeOK
<1>0. n \in Nat /\ Len(pending) \in Nat /\ n <= Len(pending)
  <2>1. Len(pending) \in Nat
    BY LenProperties DEF IInv, TypeOK
  <2>2. n \in 0..Len(pending)
    OBVIOUS
  <2> QED BY <2>1, <2>2
<1>3. /\ pending' \in Seq(Tasks) /\ Len(pending') = Len(pending) - n
      /\ DOMAIN pending' = 1..(Len(pending) - n)
      /\ \A i \in 1..(Len(pending) - n) : pending'[i] = pending[i + n]
  <2>1. /\ SubSeq(pending, n + 1, Len(pending)) \in Seq(Tasks)
        /\ Len(SubSeq(pending, n + 1, Len(pending)))
              = IF n + 1 <= Len(pending) THEN Len(pending) - (n + 1) + 1 ELSE 0
        /\ \A i \in 1..(Len(pending) - (n + 1) + 1) :
              SubSeq(pending, n + 1, Len(pending))[i] = pending[(n + 1) + i - 1]
    <3>1. n + 1 \in Int /\ Len(pending) \in Int
      BY <1>0, <1>2
    <3>2. \A i \in (n + 1)..Len(pending) : pending[i] \in Tasks
      BY <1>0, <1>2
    <3> QED BY <3>1, <3>2, SubSeqProperties
  <2>2. /\ Len(pending') = Len(pending) - n
        /\ \A i \in 1..(Len(pending) - n) : (n + 1) + i - 1 = i + n
        /\ 1..(Len(pending) - (n + 1) + 1) = 1..(Len(pending) - n)
    <3>1. Len(pending) \in Nat
      BY <1>0
    <3>2. Len(pending) - (n + 1) + 1 = Len(pending) - n
      BY <1>0, <3>1
    <3>3. \A i \in 1..(Len(pending) - n) : (n + 1) + i - 1 = i + n
      BY <1>0, <3>1
    <3>4. Len(pending') = Len(pending) - n
      <4>1. CASE n + 1 <= Len(pending)
        BY <1>1, <2>1, <3>2, <4>1
      <4>2. CASE ~(n + 1 <= Len(pending))
        <5>1. Len(pending) - n = 0
          BY <1>0, <3>1, <4>2
        <5> QED BY <1>1, <2>1, <4>2, <5>1
      <4> QED BY <4>1, <4>2
    <3> QED BY <3>2, <3>3, <3>4
  <2>3. \A i \in 1..(Len(pending) - n) : pending'[i] = pending[i + n]
    BY <1>1, <2>1, <2>2
  <2>4. pending' \in Seq(Tasks)
    BY <1>1, <2>1
  <2> QED BY <2>2, <2>3, <2>4
<1>4. First(n) \subseteq Tasks
  BY <1>2 DEF First
<1>5. TypeOK'
  BY <1>1, <1>3, <1>4 DEF DrainLoop, IInv, TypeOK, CoroStates, DrainStates
<1>6. OnePlace'
  <2>1. active' = {u \in Tasks : coro'[u] \in {"running", "finished"}}
    BY <1>1, <1>4 DEF IInv, TypeOK, OnePlace
  <2>2. \A i, j \in 1..Len(pending) : pending[i] = pending[j] => i = j
    BY <1>2 DEF IInv, OnePlace
  <2>3. \A u : u \in {pending'[i] : i \in DOMAIN pending'} <=>
                 u \in {pending[i] : i \in DOMAIN pending} /\ u \notin First(n)
    <3>1. ASSUME NEW i \in 1..(Len(pending) - n)
          PROVE  pending'[i] \in {pending[j] : j \in DOMAIN pending} /\ pending'[i] \notin First(n)
      <4>1. i + n \in 1..Len(pending) /\ i + n \notin 1..n
        BY <1>0
      <4>2. pending'[i] = pending[i + n]
        BY <1>3
      <4>3. \A k \in 1..n : k \in 1..Len(pending) /\ k # i + n
        BY <1>0, <4>1
      <4>4. pending[i + n] \notin First(n)
        BY <2>2, <4>1, <4>3 DEF First
      <4> QED BY <1>2, <4>1, <4>2, <4>4
    <3>2. ASSUME NEW j \in 1..Len(pending), pending[j] \notin First(n)
          PROVE  pending[j] \in {pending'[i] : i \in DOMAIN pending'}
      <4>1. j \notin 1..n
        BY <3>2 DEF First
      <4>2. j - n \in 1..(Len(pending) - n) /\ (j - n) + n = j
        BY <1>0, <4>1
      <4> QED BY <1>3, <4>2
    <3> QED BY <1>2, <1>3, <3>1, <3>2
  <2>4. {pending'[i] : i \in DOMAIN pending'} = {u \in Tasks : coro'[u] = "pending"}
    BY <1>1, <2>3 DEF IInv, OnePlace, TypeOK
  <2>5. \A i, j \in DOMAIN pending' : pending'[i] = pending'[j] => i = j
    <3> SUFFICES ASSUME NEW i \in 1..(Len(pending) - n), NEW j \in 1..(Len(pending) - n),
                        pending[i + n] = pending[j + n]
                 PROVE  i = j
      BY <1>3
    <3>1. i + n \in 1..Len(pending) /\ j + n \in 1..Len(pending)
      BY <1>0
    <3>2. i + n = j + n
      BY <2>2, <3>1
    <3> QED BY <3>2
  <2> QED BY <2>1, <2>4, <2>5 DEF OnePlace
<1>7. PendingIsServed'
  <2>1. CASE n = Len(pending)
    BY <1>2, <1>3, <2>1 DEF PendingIsServed
  <2>2. CASE n < Len(pending)
    BY <1>1, <2>2 DEF PendingIsServed, Full
  <2>3. n = Len(pending) \/ n < Len(pending)
    BY <1>0
  <2> QED BY <2>1, <2>2, <2>3
<1>8. Quiet'
  BY DEF DrainLoop, IInv, Quiet
<1> QED BY <1>5, <1>6, <1>7, <1>8 DEF IInv

\* A completed task keeps the invariant: drain() is called.
LEMMA CompletedTaskStep == ASSUME IInv, NEW t \in Tasks, CompletedTask(t) PROVE IInv'
<1> USE DEF CompletedTask
<1>1. TypeOK'
  BY DrainFacts DEF IInv, TypeOK, CoroStates
<1>2. OnePlace'
  <2>1. active' = {u \in Tasks : coro'[u] \in {"running", "finished"}}
    BY DEF IInv, TypeOK, OnePlace
  <2>2. {u \in Tasks : coro'[u] = "pending"} = {u \in Tasks : coro[u] = "pending"}
    BY DEF IInv, TypeOK
  <2> QED BY <2>1, <2>2 DEF IInv, OnePlace
<1>3. PendingIsServed' /\ Quiet'
  BY DrainFacts DEF IInv, TypeOK, PendingIsServed, Quiet
<1> QED BY <1>1, <1>2, <1>3 DEF IInv

\* The end of a coroutine keeps the invariant.
LEMMA TaskEndsStep == ASSUME IInv, NEW t \in Tasks, TaskEnds(t) PROVE IInv'
<1> USE DEF TaskEnds
<1>1. TypeOK'
  BY DEF IInv, TypeOK, CoroStates
<1>2. OnePlace'
  <2>1. active' = {u \in Tasks : coro'[u] \in {"running", "finished"}}
    BY DEF IInv, TypeOK, OnePlace
  <2>2. {u \in Tasks : coro'[u] = "pending"} = {u \in Tasks : coro[u] = "pending"}
    BY DEF IInv, TypeOK
  <2> QED BY <2>1, <2>2 DEF IInv, OnePlace
<1> QED BY <1>1, <1>2 DEF IInv, PendingIsServed, Quiet, Full

\* Cancelling what is pending leaves nothing to drain.
LEMMA CancelledPendingFacts ==
  ASSUME IInv, CancelledPending, active' = active
  PROVE  /\ coro' \in [Tasks -> CoroStates]
         /\ future' \in [Tasks -> {"none", "open", "set", "cancelled"}]
         /\ pending' = <<>> /\ drain' = "none"
         /\ OnePlace'
<1> USE DEF CancelledPending
<1>1. active' = {u \in Tasks : coro'[u] \in {"running", "finished"}}
  BY DEF IInv, TypeOK, OnePlace
<1>2. {u \in Tasks : coro'[u] = "pending"} = {}
  BY DEF IInv, TypeOK
<1>3. coro' \in [Tasks -> CoroStates] /\ future' \in [Tasks -> {"none", "open", "set", "cancelled"}]
  BY DEF IInv, TypeOK, CoroStates
<1> QED BY <1>1, <1>2, <1>3 DEF OnePlace

\* So cancel_pending, cancel and complete keep the invariant.
LEMMA CancelStep == ASSUME IInv, CancelPending \/ Cancel \/ Complete PROVE IInv'
<1>1. CancelledPending /\ active' = active /\ direct' = direct
  BY DEF CancelPending, Cancel, Complete
<1>2. /\ coro' \in [Tasks -> CoroStates]
      /\ future' \in [Tasks -> {"none", "open", "set", "cancelled"}]
      /\ pending' = <<>> /\ drain' = "none"
      /\ OnePlace'
  BY <1>1, CancelledPendingFacts
<1>3. asked' \subseteq Tasks /\ cancelled' \in BOOLEAN /\ closing' \in {"no", "flush", "flushTimed", "done"}
  BY DEF CancelPending, Cancel, Complete, IInv, TypeOK
<1>4. TypeOK'
  BY <1>1, <1>2, <1>3 DEF IInv, TypeOK, DrainStates
<1> QED BY <1>2, <1>4 DEF IInv, PendingIsServed, Quiet

\* The steps that move no coroutine keep the invariant.
LEMMA OtherStep ==
  ASSUME IInv,
         \/ \E t \in Tasks : Abandon(t)
         \/ DrainDone \/ Flushed \/ TimedOut \/ UNCHANGED vars
  PROVE  IInv'
<1>1. ASSUME NEW t \in Tasks, Abandon(t) PROVE IInv'
  BY <1>1 DEF Abandon, IInv, TypeOK, OnePlace, PendingIsServed, Quiet, Full
<1>2. ASSUME DrainDone PROVE IInv'
  BY <1>2 DEF DrainDone, IInv, TypeOK, OnePlace, PendingIsServed, Quiet, Full, DrainStates
<1>3. ASSUME Flushed PROVE IInv'
  BY <1>3 DEF Flushed, IInv, TypeOK, OnePlace, PendingIsServed, Quiet, Full
<1>4. ASSUME TimedOut PROVE IInv'
  BY <1>4 DEF TimedOut, IInv, TypeOK, OnePlace, PendingIsServed, Quiet, Full
<1>5. ASSUME UNCHANGED vars PROVE IInv'
  BY <1>5 DEF vars, IInv, TypeOK, OnePlace, PendingIsServed, Quiet, Full
<1> QED BY <1>1, <1>2, <1>3, <1>4, <1>5

\* Every step keeps the invariant.
LEMMA NextIInv == IInv /\ [Next]_vars => IInv'
  BY RunStep, PutStep, DrainLoopStep, CompletedTaskStep, TaskEndsStep, CancelStep, OtherStep DEF Next

\* The invariant always holds.
THEOREM Invariance == Spec => []IInv
  BY InitIInv, NextIInv, PTL DEF Spec

\* Every variable of the queue keeps its type.
THEOREM TypeCorrect == Spec => []TypeOK
<1>1. IInv => TypeOK
  BY DEF IInv
<1> QED BY <1>1, Invariance, PTL

\* A coroutine is started at most once, and what is pending has not started.
THEOREM InOnePlace == Spec => []OnePlace
<1>1. IInv => OnePlace
  BY DEF IInv
<1> QED BY <1>1, Invariance, PTL

\* No pending task waits for a drain task that nobody will wake.
THEOREM NoLostWakeup == Spec => []PendingIsServed
<1>1. IInv => PendingIsServed
  BY DEF IInv
<1> QED BY <1>1, Invariance, PTL

\* Once the queue is cancelled nothing starts any more.
THEOREM CancelIsFinal == Spec => NothingStartsAfterCancel
<1>1. IInv /\ [Next]_vars =>
        [cancelled => \A t \in Tasks : coro'[t] = "running" => coro[t] = "running"]_vars
  <2> SUFFICES ASSUME IInv, Next, cancelled, NEW t \in Tasks, coro'[t] = "running"
               PROVE  coro[t] = "running"
    OBVIOUS
  <2>1. drain = "none"
    BY DEF IInv, Quiet
  <2>2. ASSUME NEW u \in Tasks, Run(u) \/ Put(u) \/ Abandon(u) \/ TaskEnds(u) \/ CompletedTask(u)
        PROVE  coro[t] = "running"
    BY <2>2 DEF IInv, TypeOK, Run, Put, Abandon, TaskEnds, CompletedTask
  <2>3. ~DrainLoop
    BY <2>1 DEF DrainLoop
  <2>4. CASE DrainDone \/ CancelPending \/ Cancel \/ Complete \/ Flushed \/ TimedOut
    BY <2>4 DEF IInv, TypeOK, DrainDone, CancelPending, Cancel, Complete, CancelledPending, Flushed, TimedOut
  <2> QED BY <2>2, <2>3, <2>4 DEF Next
<1> QED BY <1>1, Invariance, PTL DEF Spec, NothingStartsAfterCancel


\* Every step keeps the limit: put starts a task when there is room, the drain
\* task starts them one by one while there is room.
LEMMA LimitStep == ASSUME IInv, IInv', LimitKept, [Next]_vars PROVE LimitKept'
<1>1. \A S \in SUBSET Tasks : IsFiniteSet(S) /\ Cardinality(S) \in Nat
  BY FS_Subset, FS_CardinalityType
<1>2. \A S \in SUBSET Tasks : \A R \in SUBSET S : Cardinality(R) <= Cardinality(S)
  BY <1>1, FS_Subset
<1>3. active \subseteq Tasks /\ active' \subseteq Tasks /\ pending \in Seq(Tasks)
  BY DEF IInv, TypeOK
<1>4. ASSUME active' \ direct' \subseteq active \ direct PROVE LimitKept'
  <2>1. Cardinality(active' \ direct') <= Cardinality(active \ direct)
    BY <1>2, <1>3, <1>4
  <2>2. Cardinality(active' \ direct') \in Nat /\ Cardinality(active \ direct) \in Nat
    BY <1>1, <1>3
  <2> QED BY <2>1, <2>2 DEF LimitKept
<1>5. ASSUME NEW S \in SUBSET Tasks, NEW t \in Tasks, ~Full(S), active' = S \cup {t}
      PROVE  LimitKept'
  <2>1. Cardinality(S \cup {t}) <= Cardinality(S) + 1
    BY <1>1, FS_AddElement
  <2>2. Cardinality(active' \ direct') <= Cardinality(S \cup {t})
    BY <1>2, <1>5
  <2>3. /\ Cardinality(active' \ direct') \in Nat /\ Cardinality(S) \in Nat
        /\ Cardinality(S \cup {t}) \in Nat
    BY <1>1, <1>3, <1>5
  <2> QED BY <1>5, <2>1, <2>2, <2>3 DEF LimitKept, Full
<1>6. ASSUME NEW t \in Tasks, Put(t) PROVE LimitKept'
  <2>1. CASE ~cancelled /\ Ready /\ Start(t)
    <3>1. ~Full(active)
      BY <1>1, <1>3, <2>1 DEF Ready, Full
    <3> QED BY <1>3, <1>5, <2>1, <3>1 DEF Start
  <2>2. CASE active' = active
    BY <1>4, <1>6, <2>2 DEF Put
  <2> QED BY <1>6, <2>1, <2>2 DEF Put
<1>7. ASSUME DrainLoop PROVE LimitKept'
  <2>1. PICK n \in 0..Len(pending) :
          /\ \A k \in 0..(n - 1) : ~Full(active \cup First(k))
          /\ active' = active \cup First(n)
    BY <1>7 DEF DrainLoop
  <2>2. CASE n = 0
    <3>1. First(n) = {}
      BY <2>2 DEF First
    <3> QED BY <1>4, <1>7, <2>1, <3>1 DEF DrainLoop
  <2>3. CASE n # 0
    <3>1. n - 1 \in 0..(n - 1) /\ n \in 1..Len(pending)
      BY <1>3, <2>3
    <3>2. First(n) = First(n - 1) \cup {pending[n]} /\ pending[n] \in Tasks
      BY <1>3, <3>1 DEF First
    <3>3. active \cup First(n - 1) \subseteq Tasks
      BY <1>3, <2>1, <3>2
    <3>4. active' = (active \cup First(n - 1)) \cup {pending[n]}
      BY <2>1, <3>2
    <3>5. ~Full(active \cup First(n - 1))
      BY <2>1, <3>1
    <3> QED BY <1>5, <3>2, <3>3, <3>4, <3>5
  <2> QED BY <2>2, <2>3
<1>8. ASSUME NEW t \in Tasks, Run(t) \/ Abandon(t) \/ TaskEnds(t) \/ CompletedTask(t)
      PROVE  LimitKept'
  BY <1>4, <1>8 DEF Run, Start, Abandon, TaskEnds, CompletedTask
<1>9. CASE \/ DrainDone \/ CancelPending \/ Cancel \/ Complete \/ Flushed \/ TimedOut
           \/ UNCHANGED vars
  BY <1>4, <1>9 DEF DrainDone, CancelPending, Cancel, Complete, Flushed, TimedOut, vars
<1> QED BY <1>6, <1>7, <1>8, <1>9 DEF Next

\* Never more than max_active tasks of the queue are active at a time.
THEOREM LimitHolds == Spec => []LimitKept
<1>1. Init => LimitKept
  BY FS_EmptySet DEF Init, LimitKept
<1>2. IInv /\ IInv' /\ LimitKept /\ [Next]_vars => LimitKept'
  BY LimitStep
<1> QED BY <1>1, <1>2, Invariance, PTL DEF Spec

=============================================================================
