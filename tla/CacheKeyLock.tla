---------------------------- MODULE CacheKeyLock ----------------------------
(***************************************************************************)
(* The per-key lock of the agent's cache: BaseCache.acquire/release and    *)
(* CacheKeyLock (aries_cloudagent/cache/base.py) over InMemoryCache        *)
(* (cache/in_memory.py).  A caller writes                                  *)
(*                                                                         *)
(*     async with cache.acquire(key) as entry:                             *)
(*         if entry.result: use it                                         *)
(*         else: compute a value; await entry.set_result(value, ttl)       *)
(*                                                                         *)
(* so that concurrent callers of one key share a single computation.       *)
(*                                                                         *)
(* One key is modelled; callers of different keys share nothing.  A task   *)
(* runs the block once, so it also names its CacheKeyLock object and the   *)
(* value it may compute.  asyncio runs one task at a time and switches     *)
(* only where a task waits for an unfinished future: each action is one    *)
(* such stretch.                                                           *)
(***************************************************************************)
EXTENDS Naturals, FiniteSets

CONSTANTS
    Tasks,      \* callers of cache.acquire(key)
    NoTask,     \* no lock / no cached value
    Pending,    \* state of a future that is not done
    Null,       \* result None, or any falsy value
    Cancelled   \* a future that was cancelled

ASSUME CacheAssumption ==
    /\ NoTask \notin Tasks
    /\ {Pending, Null, Cancelled} \cap (Tasks \cup {NoTask}) = {}
    /\ Pending # Null /\ Pending # Cancelled /\ Null # Cancelled

VARIABLES
    keyLock,    \* cache._key_locks[key]
    parent,     \* lock.parent of each task's lock
    future,     \* lock._future: Pending, Cancelled or its result
    callback,   \* locks whose _handle_parent_done is scheduled but has not run
    cached,     \* the value stored under the key, NoTask when absent
    pc,         \* where each task is
    got         \* the value each task used in the end

vars == <<keyLock, parent, future, callback, cached, pc, got>>

\* "waitParent" and "waitSelf" are the two awaits of __aenter__; the body of the
\* block is at "work" when it has to compute the value and at "use" when
\* entry.result was there.  The block ends "ok" with a value, "none" without
\* one, "raised" by an exception of its own, "broken" by an exception of the
\* lock, or "cancelled" when the task itself was cancelled.
Waiting == {"waitParent", "waitSelf"}
Inside  == {"work", "use"}
Ended   == {"ok", "none", "raised", "broken", "cancelled"}

TypeOK ==
    /\ keyLock \in Tasks \cup {NoTask}
    /\ parent \in [Tasks -> Tasks \cup {NoTask}]
    /\ future \in [Tasks -> Tasks \cup {Pending, Null, Cancelled}]
    /\ callback \subseteq Tasks
    /\ cached \in Tasks \cup {NoTask}
    /\ pc \in [Tasks -> {"idle"} \cup Waiting \cup Inside \cup Ended]
    /\ got \in [Tasks -> Tasks \cup {NoTask}]

Init ==
    /\ keyLock = NoTask
    /\ parent = [t \in Tasks |-> NoTask]
    /\ future = [t \in Tasks |-> Pending]
    /\ callback = {}
    /\ cached = NoTask
    /\ pc = [t \in Tasks |-> "idle"]
    /\ got = [t \in Tasks |-> NoTask]

Done(t)     == future[t] # Pending
HasValue(t) == future[t] \in Tasks
IsRoot(t)   == parent[t] = NoTask
Children(t) == {c \in Tasks : parent[c] = t}

\* Mutant: release without the check on parent, so that a waiter's exit frees
\* the key.
ReleasedByAny(t) == NoTask

\* CacheKeyLock.release: only a lock without a parent frees the key.
ReleasedBy(t) == IF IsRoot(t) THEN NoTask ELSE keyLock

\* A future that completes schedules the callbacks its children added.
Complete(t, result) ==
    /\ future' = [future EXCEPT ![t] = result]
    /\ callback' = callback \cup Children(t)

\* Mutant: __aexit__ forgets to complete the future.
ExitSilent(t, end) ==
    /\ pc' = [pc EXCEPT ![t] = end]
    /\ keyLock' = ReleasedBy(t)
    /\ UNCHANGED <<future, callback>>

\* The block ends in state end: __aexit__ gives None to the waiters when there
\* is no result yet, then releases.
Exit(t, end) ==
    /\ pc' = [pc EXCEPT ![t] = end]
    /\ keyLock' = ReleasedBy(t)
    /\ IF Done(t) THEN UNCHANGED <<future, callback>> ELSE Complete(t, Null)

-----------------------------------------------------------------------------
\* The rest of __aenter__ when no value came from the parent: look in the
\* cache, use what is there, compute otherwise.
LookInCache(t) ==
    IF cached = NoTask
    THEN /\ pc' = [pc EXCEPT ![t] = "work"]
         /\ UNCHANGED <<future, got>>
    ELSE /\ pc' = [pc EXCEPT ![t] = "use"]
         /\ future' = [future EXCEPT ![t] = cached]
         /\ got' = [got EXCEPT ![t] = cached]

\* acquire by the first caller of the key.
AcquireFirst(t) ==
    /\ pc[t] = "idle"
    /\ keyLock = NoTask
    /\ keyLock' = t
    /\ LookInCache(t)
    /\ UNCHANGED <<parent, callback, cached>>

\* acquire by a later caller: a child of the lock in place.  When that lock's
\* future is done already, add_done_callback schedules the callback at once
\* and awaiting it returns the value or raises CancelledError immediately.
AcquireWaiter(t) ==
    /\ pc[t] = "idle"
    /\ keyLock # NoTask
    /\ parent' = [parent EXCEPT ![t] = keyLock]
    /\ callback' = IF Done(keyLock) THEN callback \cup {t} ELSE callback
    /\ pc' = [pc EXCEPT ![t] = CASE ~Done(keyLock)    -> "waitParent"
                                 [] HasValue(keyLock) -> "waitSelf"
                                 [] OTHER             -> "broken"]
    /\ UNCHANGED <<keyLock, future, cached, got>>

\* _handle_parent_done: passes a value on.  It raises, changing nothing, when
\* the parent was cancelled or the own future is done.
HandleParentDone(t) ==
    /\ t \in callback
    /\ callback' = callback \ {t}
    /\ future' = IF HasValue(parent[t]) /\ ~Done(t)
                 THEN [future EXCEPT ![t] = future[parent[t]]] ELSE future
    /\ UNCHANGED <<keyLock, parent, cached, pc, got>>

\* Mutant: the waiter prefers what the cache holds by now to its parent's value.
ParentDoneCacheFirst(t) ==
    /\ pc[t] = "waitParent"
    /\ Done(parent[t])
    /\ t \notin callback
    /\ CASE HasValue(parent[t]) ->
              /\ pc' = [pc EXCEPT ![t] = "use"]
              /\ got' = [got EXCEPT ![t] = IF cached # NoTask THEN cached ELSE future[t]]
              /\ UNCHANGED future
         [] future[parent[t]] = Null -> LookInCache(t)
         [] OTHER ->
              /\ pc' = [pc EXCEPT ![t] = "broken"]
              /\ UNCHANGED <<future, got>>
    /\ UNCHANGED <<keyLock, parent, callback, cached>>

\* `await self.parent` returns.  The callback was added before the waiter, so
\* it has run; with a value, `await self` then returns at once.
ParentDone(t) ==
    /\ pc[t] = "waitParent"
    /\ Done(parent[t])
    /\ t \notin callback
    /\ CASE HasValue(parent[t]) ->
              /\ pc' = [pc EXCEPT ![t] = "use"]
              /\ got' = [got EXCEPT ![t] = future[t]]
              /\ UNCHANGED future
         [] future[parent[t]] = Null -> LookInCache(t)
         [] OTHER ->
              /\ pc' = [pc EXCEPT ![t] = "broken"]
              /\ UNCHANGED <<future, got>>
    /\ UNCHANGED <<keyLock, parent, callback, cached>>

\* `await self` returns after the callback gave it the value.
SelfDone(t) ==
    /\ pc[t] = "waitSelf"
    /\ HasValue(t)
    /\ pc' = [pc EXCEPT ![t] = "use"]
    /\ got' = [got EXCEPT ![t] = future[t]]
    /\ UNCHANGED <<keyLock, parent, future, callback, cached>>

\* The body computed its value: set_result, then the block exits.
SetResult(t) ==
    /\ pc[t] = "work"
    /\ ~Done(t)
    /\ Complete(t, t)
    /\ cached' = IF IsRoot(t) \/ Done(parent[t]) THEN t ELSE cached
    /\ got' = [got EXCEPT ![t] = t]
    /\ pc' = [pc EXCEPT ![t] = "ok"]
    /\ keyLock' = ReleasedBy(t)
    /\ UNCHANGED parent

\* set_result on a future that is done raises CacheError out of the block.
SetResultRefused(t) ==
    /\ pc[t] = "work"
    /\ Done(t)
    /\ Exit(t, "broken")
    /\ UNCHANGED <<parent, cached, got>>

\* The body ends without a value (no connection found, an empty list of
\* targets) or raises (the ledger or the wallet failed).
NoResult(t) ==
    /\ pc[t] = "work"
    /\ \E end \in {"none", "raised"} : Exit(t, end)
    /\ UNCHANGED <<parent, cached, got>>

\* The body is through with the value it found, or fails in using it.
UseResult(t) ==
    /\ pc[t] = "use"
    /\ \E end \in {"ok", "raised"} : Exit(t, end)
    /\ UNCHANGED <<parent, cached, got>>

-----------------------------------------------------------------------------
\* Task.cancel() (an HTTP client that disconnects, the dispatcher's queue at
\* shutdown).  It cancels the future the task is waiting for: for a waiter
\* that is the PARENT's future, which every other waiter shares.
CancelWaiter(t) ==
    /\ pc[t] = "waitParent"
    /\ pc' = [pc EXCEPT ![t] = "cancelled"]
    /\ IF Done(parent[t]) THEN UNCHANGED <<future, callback>>
       ELSE Complete(parent[t], Cancelled)
    /\ UNCHANGED <<keyLock, parent, cached, got>>

CancelSelfWaiter(t) ==
    /\ pc[t] = "waitSelf"
    /\ pc' = [pc EXCEPT ![t] = "cancelled"]
    /\ IF Done(t) THEN UNCHANGED <<future, callback>> ELSE Complete(t, Cancelled)
    /\ UNCHANGED <<keyLock, parent, cached, got>>

\* Inside the body the CancelledError passes through __aexit__.
CancelInside(t) ==
    /\ pc[t] \in Inside
    /\ Exit(t, "cancelled")
    /\ UNCHANGED <<parent, cached, got>>

Cancel(t) == CancelWaiter(t) \/ CancelSelfWaiter(t) \/ CancelInside(t)

\* InMemoryCache: the entry's ttl runs out, or someone clears it.
Expire ==
    /\ cached # NoTask
    /\ cached' = NoTask
    /\ UNCHANGED <<keyLock, parent, future, callback, pc, got>>

-----------------------------------------------------------------------------
\* Everything that runs without anyone's help: the event loop resumes what is
\* ready and the computations end.
Advance(t) ==
    \/ HandleParentDone(t) \/ ParentDone(t) \/ SelfDone(t)
    \/ SetResult(t) \/ SetResultRefused(t) \/ NoResult(t) \/ UseResult(t)

Next ==
    \/ \E t \in Tasks : AcquireFirst(t) \/ AcquireWaiter(t) \/ Advance(t) \/ Cancel(t)
    \/ Expire

Spec == Init /\ [][Next]_vars

\* The loop runs every ready callback and task, and a computation ends (a
\* ledger or wallet call returns or raises): no fairness for callers,
\* cancellation or expiry.
Fairness == \A t \in Tasks :
    /\ WF_vars(HandleParentDone(t))
    /\ WF_vars(ParentDone(t))
    /\ WF_vars(SelfDone(t))
    /\ WF_vars(SetResult(t) \/ SetResultRefused(t) \/ NoResult(t))
    /\ WF_vars(UseResult(t))

FairSpec == Spec /\ Fairness

-----------------------------------------------------------------------------
\* Properties.

\* A value is computed once: a first caller computes only while it holds the
\* key, and a waiter computes only after the caller it waited for ended
\* without a value (base.py: "prevent multiple async threads from generating
\* or querying the same semi-expensive data").
OneComputation ==
    \A t \in Tasks : pc[t] = "work" =>
        IF IsRoot(t) THEN keyLock = t ELSE future[parent[t]] = Null

\* A waiter whose first caller produced a value uses that value and no other,
\* even if the entry expired or was replaced in between.
SharedResult ==
    \A t \in Tasks : got[t] # NoTask /\ ~IsRoot(t) /\ HasValue(parent[t]) =>
        got[t] = future[parent[t]]

\* Nobody waits for a future that no one will complete: while a waiter's
\* parent is not done, the parent is computing and still holds the key.
WaiterHasProducer ==
    \A t \in Tasks : pc[t] = "waitParent" /\ ~Done(parent[t]) =>
        pc[parent[t]] = "work" /\ keyLock = parent[t]

\* The key is held exactly by a first caller inside its block: it is freed on
\* every way out, and never by a waiter's exit.
KeyHeldInside ==
    /\ keyLock # NoTask => IsRoot(keyLock) /\ pc[keyLock] \in Inside
    /\ \A t \in Tasks : IsRoot(t) /\ pc[t] \in Inside => keyLock = t

\* Every call of the block ends.
EveryCallerEnds ==
    \A t \in Tasks : pc[t] # "idle" ~> pc[t] \in Ended

=============================================================================
