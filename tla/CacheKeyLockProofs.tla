------------------------- MODULE CacheKeyLockProofs -------------------------
(* Type correctness and the safety invariants of CacheKeyLock, for any set   *)
(* of callers.                                                               *)
EXTENDS CacheKeyLock, TLAPS

\* What each lock's own future and parent can be, by where its task is.
LockState(t) ==
    /\ pc[t] = "idle" => IsRoot(t) /\ ~Done(t) /\ t \notin callback /\ got[t] = NoTask
    /\ pc[t] \in Waiting => ~IsRoot(t)
    /\ pc[t] = "waitParent" /\ t \in callback => Done(parent[t])
    /\ pc[t] = "waitParent" /\ t \notin callback /\ HasValue(parent[t]) =>
           future[t] = future[parent[t]]
    /\ pc[t] = "waitParent" /\ (~HasValue(parent[t]) \/ t \in callback) => ~Done(t)
    /\ pc[t] = "waitSelf" => HasValue(parent[t]) /\ future[t] \in {Pending, future[parent[t]]}
    /\ pc[t] = "work" => ~HasValue(t) /\ future[t] # Null /\ (~IsRoot(t) => ~Done(t))
    /\ pc[t] = "use"  => HasValue(t)

\* Parents are first callers, and a lock with a callback to run has a parent
\* that is done.
ParentState(t) ==
    /\ ~IsRoot(t) => IsRoot(parent[t]) /\ pc[parent[t]] # "idle"
    /\ t \in callback => ~IsRoot(t) /\ Done(parent[t])

IInv ==
    /\ TypeOK
    /\ \A t \in Tasks : LockState(t)
    /\ \A t \in Tasks : ParentState(t)
    /\ KeyHeldInside
    /\ WaiterHasProducer
    /\ OneComputation
    /\ \A t \in Tasks : got[t] # NoTask /\ ~IsRoot(t) => future[parent[t]] \in {Null, got[t]}

\* The invariant holds initially.
LEMMA InitIInv == Init => IInv
  BY CacheAssumption
     DEF Init, IInv, TypeOK, LockState, ParentState, KeyHeldInside, WaiterHasProducer,
         OneComputation, Waiting, Inside, Ended, IsRoot, Done, HasValue

\* AcquireFirst keeps the invariant.
LEMMA AcquireFirstStep == ASSUME IInv, NEW t \in Tasks, AcquireFirst(t) PROVE IInv'
<1> USE CacheAssumption DEF IInv, AcquireFirst, LookInCache, Complete, Exit, ReleasedBy, Children
<1> USE DEF IsRoot, Done, HasValue, Waiting, Inside
<1>1. TypeOK'
  BY DEF TypeOK, Ended, LockState, ParentState
<1>2. ASSUME NEW u \in Tasks PROVE LockState(u)'
  BY DEF TypeOK, Ended, LockState, ParentState, KeyHeldInside, WaiterHasProducer
<1>3. ASSUME NEW u \in Tasks PROVE ParentState(u)'
  BY DEF TypeOK, Ended, LockState, ParentState, KeyHeldInside, WaiterHasProducer
<1>4. KeyHeldInside'
  BY DEF TypeOK, Ended, LockState, ParentState, KeyHeldInside
<1>5. WaiterHasProducer'
  BY DEF TypeOK, Ended, LockState, ParentState, KeyHeldInside, WaiterHasProducer
<1>6. OneComputation'
  BY DEF TypeOK, Ended, LockState, ParentState, KeyHeldInside, WaiterHasProducer, OneComputation
<1>7. ASSUME NEW u \in Tasks, got'[u] # NoTask, parent'[u] # NoTask
      PROVE  future'[parent'[u]] \in {Null, got'[u]}
  BY <1>7 DEF TypeOK, Ended, LockState, ParentState, KeyHeldInside, WaiterHasProducer
<1> QED BY <1>1, <1>2, <1>3, <1>4, <1>5, <1>6, <1>7

\* AcquireWaiter keeps the invariant.
LEMMA AcquireWaiterStep == ASSUME IInv, NEW t \in Tasks, AcquireWaiter(t) PROVE IInv'
<1> USE CacheAssumption DEF IInv, AcquireWaiter, LookInCache, Complete, Exit, ReleasedBy, Children
<1> USE DEF IsRoot, Done, HasValue, Waiting, Inside
<1>1. TypeOK'
  BY DEF TypeOK, Ended, LockState, ParentState
<1>2. ASSUME NEW u \in Tasks PROVE LockState(u)'
  BY DEF TypeOK, Ended, LockState, ParentState, KeyHeldInside, WaiterHasProducer
<1>3. ASSUME NEW u \in Tasks PROVE ParentState(u)'
  BY DEF TypeOK, Ended, LockState, ParentState, KeyHeldInside, WaiterHasProducer
<1>4. KeyHeldInside'
  BY DEF TypeOK, Ended, LockState, ParentState, KeyHeldInside
<1>5. WaiterHasProducer'
  BY DEF TypeOK, Ended, LockState, ParentState, KeyHeldInside, WaiterHasProducer
<1>6. OneComputation'
  BY DEF TypeOK, Ended, LockState, ParentState, KeyHeldInside, WaiterHasProducer, OneComputation
<1>7. ASSUME NEW u \in Tasks, got'[u] # NoTask, parent'[u] # NoTask
      PROVE  future'[parent'[u]] \in {Null, got'[u]}
  BY <1>7 DEF TypeOK, Ended, LockState, ParentState, KeyHeldInside, WaiterHasProducer
<1> QED BY <1>1, <1>2, <1>3, <1>4, <1>5, <1>6, <1>7

\* HandleParentDone keeps the invariant.
LEMMA HandleParentDoneStep == ASSUME IInv, NEW t \in Tasks, HandleParentDone(t) PROVE IInv'
<1> USE CacheAssumption DEF IInv, HandleParentDone, LookInCache, Complete, Exit, ReleasedBy, Children
<1> USE DEF IsRoot, Done, HasValue, Waiting, Inside
<1>1. TypeOK'
  BY DEF TypeOK, Ended, LockState, ParentState
<1>2. ASSUME NEW u \in Tasks PROVE LockState(u)'
  <2>1. parent[t] # NoTask /\ Done(parent[t]) /\ parent[u] # t
    BY DEF TypeOK, ParentState
  <2>2. CASE u = t
    BY <2>1, <2>2 DEF TypeOK, LockState, OneComputation
  <2>3. CASE u # t
    BY <2>1, <2>3 DEF TypeOK, LockState
  <2> QED BY <2>2, <2>3
<1>3. ASSUME NEW u \in Tasks PROVE ParentState(u)'
  BY DEF TypeOK, Ended, LockState, ParentState, KeyHeldInside, WaiterHasProducer
<1>4. KeyHeldInside'
  BY DEF TypeOK, Ended, LockState, ParentState, KeyHeldInside
<1>5. WaiterHasProducer'
  BY DEF TypeOK, Ended, LockState, ParentState, KeyHeldInside, WaiterHasProducer
<1>6. OneComputation'
  BY DEF TypeOK, Ended, LockState, ParentState, KeyHeldInside, WaiterHasProducer, OneComputation
<1>7. ASSUME NEW u \in Tasks, got'[u] # NoTask, parent'[u] # NoTask
      PROVE  future'[parent'[u]] \in {Null, got'[u]}
  BY <1>7 DEF TypeOK, Ended, LockState, ParentState, KeyHeldInside, WaiterHasProducer
<1> QED BY <1>1, <1>2, <1>3, <1>4, <1>5, <1>6, <1>7

\* ParentDone keeps the invariant.
LEMMA ParentDoneStep == ASSUME IInv, NEW t \in Tasks, ParentDone(t) PROVE IInv'
<1> USE CacheAssumption DEF IInv, ParentDone, LookInCache, Complete, Exit, ReleasedBy, Children
<1> USE DEF IsRoot, Done, HasValue, Waiting, Inside
<1>1. TypeOK'
  BY DEF TypeOK, Ended, LockState, ParentState
<1>2. ASSUME NEW u \in Tasks PROVE LockState(u)'
  BY DEF TypeOK, Ended, LockState, ParentState, KeyHeldInside, WaiterHasProducer
<1>3. ASSUME NEW u \in Tasks PROVE ParentState(u)'
  BY DEF TypeOK, Ended, LockState, ParentState, KeyHeldInside, WaiterHasProducer
<1>4. KeyHeldInside'
  BY DEF TypeOK, Ended, LockState, ParentState, KeyHeldInside
<1>5. WaiterHasProducer'
  BY DEF TypeOK, Ended, LockState, ParentState, KeyHeldInside, WaiterHasProducer
<1>6. OneComputation'
  BY DEF TypeOK, Ended, LockState, ParentState, KeyHeldInside, WaiterHasProducer, OneComputation
<1>7. ASSUME NEW u \in Tasks, got'[u] # NoTask, parent'[u] # NoTask
      PROVE  future'[parent'[u]] \in {Null, got'[u]}
  BY <1>7 DEF TypeOK, Ended, LockState, ParentState, KeyHeldInside, WaiterHasProducer
<1> QED BY <1>1, <1>2, <1>3, <1>4, <1>5, <1>6, <1>7

\* SelfDone keeps the invariant.
LEMMA SelfDoneStep == ASSUME IInv, NEW t \in Tasks, SelfDone(t) PROVE IInv'
<1> USE CacheAssumption DEF IInv, SelfDone, LookInCache, Complete, Exit, ReleasedBy, Children
<1> USE DEF IsRoot, Done, HasValue, Waiting, Inside
<1>1. TypeOK'
  BY DEF TypeOK, Ended, LockState, ParentState
<1>2. ASSUME NEW u \in Tasks PROVE LockState(u)'
  BY DEF TypeOK, Ended, LockState, ParentState, KeyHeldInside, WaiterHasProducer
<1>3. ASSUME NEW u \in Tasks PROVE ParentState(u)'
  BY DEF TypeOK, Ended, LockState, ParentState, KeyHeldInside, WaiterHasProducer
<1>4. KeyHeldInside'
  BY DEF TypeOK, Ended, LockState, ParentState, KeyHeldInside
<1>5. WaiterHasProducer'
  BY DEF TypeOK, Ended, LockState, ParentState, KeyHeldInside, WaiterHasProducer
<1>6. OneComputation'
  BY DEF TypeOK, Ended, LockState, ParentState, KeyHeldInside, WaiterHasProducer, OneComputation
<1>7. ASSUME NEW u \in Tasks, got'[u] # NoTask, parent'[u] # NoTask
      PROVE  future'[parent'[u]] \in {Null, got'[u]}
  BY <1>7 DEF TypeOK, Ended, LockState, ParentState, KeyHeldInside, WaiterHasProducer
<1> QED BY <1>1, <1>2, <1>3, <1>4, <1>5, <1>6, <1>7

\* SetResult keeps the invariant.
LEMMA SetResultStep == ASSUME IInv, NEW t \in Tasks, SetResult(t) PROVE IInv'
<1> USE CacheAssumption DEF IInv, SetResult, LookInCache, Complete, Exit, ReleasedBy, Children
<1> USE DEF IsRoot, Done, HasValue, Waiting, Inside
<1>1. TypeOK'
  BY DEF TypeOK, Ended, LockState, ParentState
<1>2. ASSUME NEW u \in Tasks PROVE LockState(u)'
  BY DEF TypeOK, Ended, LockState, ParentState, KeyHeldInside, WaiterHasProducer
<1>3. ASSUME NEW u \in Tasks PROVE ParentState(u)'
  BY DEF TypeOK, Ended, LockState, ParentState, KeyHeldInside, WaiterHasProducer
<1>4. KeyHeldInside'
  BY DEF TypeOK, Ended, LockState, ParentState, KeyHeldInside
<1>5. WaiterHasProducer'
  BY DEF TypeOK, Ended, LockState, ParentState, KeyHeldInside, WaiterHasProducer
<1>6. OneComputation'
  BY DEF TypeOK, Ended, LockState, ParentState, KeyHeldInside, WaiterHasProducer, OneComputation
<1>7. ASSUME NEW u \in Tasks, got'[u] # NoTask, parent'[u] # NoTask
      PROVE  future'[parent'[u]] \in {Null, got'[u]}
  BY <1>7 DEF TypeOK, Ended, LockState, ParentState, OneComputation
<1> QED BY <1>1, <1>2, <1>3, <1>4, <1>5, <1>6, <1>7

\* SetResultRefused keeps the invariant.
LEMMA SetResultRefusedStep == ASSUME IInv, NEW t \in Tasks, SetResultRefused(t) PROVE IInv'
<1> USE CacheAssumption DEF IInv, SetResultRefused, LookInCache, Complete, Exit, ReleasedBy, Children
<1> USE DEF IsRoot, Done, HasValue, Waiting, Inside
<1>1. TypeOK'
  BY DEF TypeOK, Ended, LockState, ParentState
<1>2. ASSUME NEW u \in Tasks PROVE LockState(u)'
  BY DEF TypeOK, Ended, LockState, ParentState, KeyHeldInside, WaiterHasProducer
<1>3. ASSUME NEW u \in Tasks PROVE ParentState(u)'
  BY DEF TypeOK, Ended, LockState, ParentState, KeyHeldInside, WaiterHasProducer
<1>4. KeyHeldInside'
  BY DEF TypeOK, Ended, LockState, ParentState, KeyHeldInside
<1>5. WaiterHasProducer'
  BY DEF TypeOK, Ended, LockState, ParentState, KeyHeldInside, WaiterHasProducer
<1>6. OneComputation'
  BY DEF TypeOK, Ended, LockState, ParentState, KeyHeldInside, WaiterHasProducer, OneComputation
<1>7. ASSUME NEW u \in Tasks, got'[u] # NoTask, parent'[u] # NoTask
      PROVE  future'[parent'[u]] \in {Null, got'[u]}
  BY <1>7 DEF TypeOK, Ended, LockState, ParentState, KeyHeldInside, WaiterHasProducer
<1> QED BY <1>1, <1>2, <1>3, <1>4, <1>5, <1>6, <1>7

\* NoResult keeps the invariant.
LEMMA NoResultStep == ASSUME IInv, NEW t \in Tasks, NoResult(t) PROVE IInv'
<1> USE CacheAssumption DEF IInv, NoResult, LookInCache, Complete, Exit, ReleasedBy, Children
<1> USE DEF IsRoot, Done, HasValue, Waiting, Inside
<1>1. TypeOK'
  BY DEF TypeOK, Ended, LockState, ParentState
<1>2. ASSUME NEW u \in Tasks PROVE LockState(u)'
  BY DEF TypeOK, Ended, LockState, ParentState, KeyHeldInside, WaiterHasProducer
<1>3. ASSUME NEW u \in Tasks PROVE ParentState(u)'
  BY DEF TypeOK, Ended, LockState, ParentState, KeyHeldInside, WaiterHasProducer
<1>4. KeyHeldInside'
  BY DEF TypeOK, Ended, LockState, ParentState, KeyHeldInside
<1>5. WaiterHasProducer'
  BY DEF TypeOK, Ended, LockState, ParentState, KeyHeldInside, WaiterHasProducer
<1>6. OneComputation'
  BY DEF TypeOK, Ended, LockState, ParentState, KeyHeldInside, WaiterHasProducer, OneComputation
<1>7. ASSUME NEW u \in Tasks, got'[u] # NoTask, parent'[u] # NoTask
      PROVE  future'[parent'[u]] \in {Null, got'[u]}
  BY <1>7 DEF TypeOK, Ended, LockState, ParentState, KeyHeldInside, WaiterHasProducer
<1> QED BY <1>1, <1>2, <1>3, <1>4, <1>5, <1>6, <1>7

\* UseResult keeps the invariant.
LEMMA UseResultStep == ASSUME IInv, NEW t \in Tasks, UseResult(t) PROVE IInv'
<1> USE CacheAssumption DEF IInv, UseResult, LookInCache, Complete, Exit, ReleasedBy, Children
<1> USE DEF IsRoot, Done, HasValue, Waiting, Inside
<1>1. TypeOK'
  BY DEF TypeOK, Ended, LockState, ParentState
<1>2. ASSUME NEW u \in Tasks PROVE LockState(u)'
  BY DEF TypeOK, Ended, LockState, ParentState, KeyHeldInside, WaiterHasProducer
<1>3. ASSUME NEW u \in Tasks PROVE ParentState(u)'
  BY DEF TypeOK, Ended, LockState, ParentState, KeyHeldInside, WaiterHasProducer
<1>4. KeyHeldInside'
  BY DEF TypeOK, Ended, LockState, ParentState, KeyHeldInside
<1>5. WaiterHasProducer'
  BY DEF TypeOK, Ended, LockState, ParentState, KeyHeldInside, WaiterHasProducer
<1>6. OneComputation'
  BY DEF TypeOK, Ended, LockState, ParentState, KeyHeldInside, WaiterHasProducer, OneComputation
<1>7. ASSUME NEW u \in Tasks, got'[u] # NoTask, parent'[u] # NoTask
      PROVE  future'[parent'[u]] \in {Null, got'[u]}
  BY <1>7 DEF TypeOK, Ended, LockState, ParentState, KeyHeldInside, WaiterHasProducer
<1> QED BY <1>1, <1>2, <1>3, <1>4, <1>5, <1>6, <1>7

\* CancelWaiter keeps the invariant.
LEMMA CancelWaiterStep == ASSUME IInv, NEW t \in Tasks, CancelWaiter(t) PROVE IInv'
<1> USE CacheAssumption DEF IInv, CancelWaiter, LookInCache, Complete, Exit, ReleasedBy, Children
<1> USE DEF IsRoot, Done, HasValue, Waiting, Inside
<1>1. TypeOK'
  BY DEF TypeOK, Ended, LockState, ParentState
<1>2. ASSUME NEW u \in Tasks PROVE LockState(u)'
  BY DEF TypeOK, Ended, LockState, ParentState, KeyHeldInside, WaiterHasProducer
<1>3. ASSUME NEW u \in Tasks PROVE ParentState(u)'
  BY DEF TypeOK, Ended, LockState, ParentState, KeyHeldInside, WaiterHasProducer
<1>4. KeyHeldInside'
  BY DEF TypeOK, Ended, LockState, ParentState, KeyHeldInside
<1>5. WaiterHasProducer'
  BY DEF TypeOK, Ended, LockState, ParentState, KeyHeldInside, WaiterHasProducer
<1>6. OneComputation'
  BY DEF TypeOK, Ended, LockState, ParentState, KeyHeldInside, WaiterHasProducer, OneComputation
<1>7. ASSUME NEW u \in Tasks, got'[u] # NoTask, parent'[u] # NoTask
      PROVE  future'[parent'[u]] \in {Null, got'[u]}
  BY <1>7 DEF TypeOK, Ended, LockState, ParentState, KeyHeldInside, WaiterHasProducer
<1> QED BY <1>1, <1>2, <1>3, <1>4, <1>5, <1>6, <1>7

\* CancelSelfWaiter keeps the invariant.
LEMMA CancelSelfWaiterStep == ASSUME IInv, NEW t \in Tasks, CancelSelfWaiter(t) PROVE IInv'
<1> USE CacheAssumption DEF IInv, CancelSelfWaiter, LookInCache, Complete, Exit, ReleasedBy, Children
<1> USE DEF IsRoot, Done, HasValue, Waiting, Inside
<1>1. TypeOK'
  BY DEF TypeOK, Ended, LockState, ParentState
<1>2. ASSUME NEW u \in Tasks PROVE LockState(u)'
  BY DEF TypeOK, Ended, LockState, ParentState, KeyHeldInside, WaiterHasProducer
<1>3. ASSUME NEW u \in Tasks PROVE ParentState(u)'
  BY DEF TypeOK, Ended, LockState, ParentState, KeyHeldInside, WaiterHasProducer
<1>4. KeyHeldInside'
  BY DEF TypeOK, Ended, LockState, ParentState, KeyHeldInside
<1>5. WaiterHasProducer'
  BY DEF TypeOK, Ended, LockState, ParentState, KeyHeldInside, WaiterHasProducer
<1>6. OneComputation'
  BY DEF TypeOK, Ended, LockState, ParentState, KeyHeldInside, WaiterHasProducer, OneComputation
<1>7. ASSUME NEW u \in Tasks, got'[u] # NoTask, parent'[u] # NoTask
      PROVE  future'[parent'[u]] \in {Null, got'[u]}
  BY <1>7 DEF TypeOK, Ended, LockState, ParentState, KeyHeldInside, WaiterHasProducer
<1> QED BY <1>1, <1>2, <1>3, <1>4, <1>5, <1>6, <1>7

\* CancelInside keeps the invariant.
LEMMA CancelInsideStep == ASSUME IInv, NEW t \in Tasks, CancelInside(t) PROVE IInv'
<1> USE CacheAssumption DEF IInv, CancelInside, LookInCache, Complete, Exit, ReleasedBy, Children
<1> USE DEF IsRoot, Done, HasValue, Waiting, Inside
<1>1. TypeOK'
  BY DEF TypeOK, Ended, LockState, ParentState
<1>2. ASSUME NEW u \in Tasks PROVE LockState(u)'
  BY DEF TypeOK, Ended, LockState, ParentState, KeyHeldInside, WaiterHasProducer
<1>3. ASSUME NEW u \in Tasks PROVE ParentState(u)'
  BY DEF TypeOK, Ended, LockState, ParentState, KeyHeldInside, WaiterHasProducer
<1>4. KeyHeldInside'
  BY DEF TypeOK, Ended, LockState, ParentState, KeyHeldInside
<1>5. WaiterHasProducer'
  BY DEF TypeOK, Ended, LockState, ParentState, KeyHeldInside, WaiterHasProducer
<1>6. OneComputation'
  BY DEF TypeOK, Ended, LockState, ParentState, KeyHeldInside, WaiterHasProducer, OneComputation
<1>7. ASSUME NEW u \in Tasks, got'[u] # NoTask, parent'[u] # NoTask
      PROVE  future'[parent'[u]] \in {Null, got'[u]}
  BY <1>7 DEF TypeOK, Ended, LockState, ParentState, KeyHeldInside, WaiterHasProducer
<1> QED BY <1>1, <1>2, <1>3, <1>4, <1>5, <1>6, <1>7

\* Expiry of the entry keeps the invariant.
LEMMA ExpireStep == ASSUME IInv, Expire PROVE IInv'
  BY DEF IInv, Expire, TypeOK, LockState, ParentState, KeyHeldInside, WaiterHasProducer,
         OneComputation, IsRoot, Done, HasValue

\* A stutter keeps the invariant.
LEMMA StutterStep == ASSUME IInv, UNCHANGED vars PROVE IInv'
  BY DEF IInv, vars, TypeOK, LockState, ParentState, KeyHeldInside, WaiterHasProducer,
         OneComputation, IsRoot, Done, HasValue

\* IInv is inductive: it holds in every reachable state.
THEOREM Inductive == Spec => []IInv
<1>1. IInv /\ [Next]_vars => IInv'
  BY AcquireFirstStep, AcquireWaiterStep, HandleParentDoneStep, ParentDoneStep, SelfDoneStep, SetResultStep,
     SetResultRefusedStep, NoResultStep, UseResultStep, CancelWaiterStep, CancelSelfWaiterStep, CancelInsideStep,
     ExpireStep, StutterStep
     DEF Next, Advance, Cancel
<1> QED BY InitIInv, <1>1, PTL DEF Spec

\* Every variable keeps its type: in particular a task that is given a result
\* is given a value that some task computed.
THEOREM TypeCorrect == Spec => []TypeOK
<1>1. IInv => TypeOK
  BY DEF IInv
<1> QED BY Inductive, <1>1, PTL

\* One computation per holder of the key, and one more per waiter only when the
\* holder ended without a value, for any number of callers.
THEOREM ComputedOnce == Spec => []OneComputation
<1>1. IInv => OneComputation
  BY DEF IInv
<1> QED BY Inductive, <1>1, PTL

\* No waiter waits for a future nobody will complete.
THEOREM WaitersAreServed == Spec => []WaiterHasProducer
<1>1. IInv => WaiterHasProducer
  BY DEF IInv
<1> QED BY Inductive, <1>1, PTL

\* The key is held exactly by the first caller inside its block.
THEOREM KeyIsReleased == Spec => []KeyHeldInside
<1>1. IInv => KeyHeldInside
  BY DEF IInv
<1> QED BY Inductive, <1>1, PTL

\* Waiters use the value their first caller produced.
THEOREM ResultIsShared == Spec => []SharedResult
<1>1. IInv => SharedResult
  BY CacheAssumption DEF IInv, TypeOK, SharedResult, IsRoot, HasValue
<1> QED BY Inductive, <1>1, PTL
=============================================================================
