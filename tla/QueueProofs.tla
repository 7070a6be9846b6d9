----------------------------- MODULE QueueProofs -----------------------------
(***************************************************************************)
(* Proofs about the parts of the agent that keep things in a queue, for    *)
(* any number of messages, sessions, keys and requests:                    *)
(*                                                                         *)
(*   - OutboundTransport, the queue of messages to send;                   *)
(*   - InboundTransport, the sessions messages go back on and the queue of *)
(*     undelivered messages;                                               *)
(*   - Ledger, the requests that wait for the lock of the pool.            *)
(***************************************************************************)
EXTENDS OutboundTransport, InboundTransport, Ledger,
        FiniteSetTheorems, SequenceTheorems, TLAPS

USE OutboundAssumption

-----------------------------------------------------------------------------
\* The queue of messages to send.


\* Where a message is goes with what happens to it.
PlaceAndState ==
    \A m \in All :
        /\ place[m] \in {"none", "new"} => st[m] = IF m \in Webhooks THEN "pending" ELSE "new"
        /\ place[m] = "buffer" => st[m] # "new"
        /\ place[m] = "gone" => st[m] = "done"

\* Posts are paid for with retries.
PostsCounted ==
    \A m \in All :
        /\ got[m] <= posted[m]
        /\ st[m] \in {"new", "pending", "encode"} => posted[m] = 0 /\ retries[m] = MaxRetry
        /\ st[m] \in {"deliver", "retry"} => posted[m] + retries[m] = MaxRetry
        /\ st[m] = "done" => posted[m] + retries[m] <= MaxRetry + 1

\* error tells a message that was acknowledged from one that was not, and the
\* second is reported when it leaves.
ErrorIsTrue ==
    \A m \in All :
        /\ m \in acked <=> st[m] = "done" /\ ~error[m]
        /\ m \in undelivered => place[m] = "gone" /\ error[m]
        /\ place[m] = "gone" /\ error[m] /\ m \notin Webhooks => m \in undelivered

IInv == TypeOK /\ PlaceAndState /\ PostsCounted /\ ErrorIsTrue /\ NothingOverlooked


\* Whoever calls process_queued, the process task is there and will look.
LEMMA ProcessQueuedFacts ==
  ASSUME TypeOK, ProcessQueued
  PROVE  proc' \in {"start", "woken", "sleep"}
  BY DEF TypeOK, ProcessQueued

LEMMA InitIInv == Init => IInv
<1> SUFFICES ASSUME Init PROVE IInv
  OBVIOUS
<1>1. TypeOK
  BY DEF Init, TypeOK, States, Places
<1>2. PlaceAndState /\ PostsCounted /\ ErrorIsTrue
  BY DEF Init, PlaceAndState, PostsCounted, ErrorIsTrue
<1>3. NothingOverlooked
  BY DEF Init, NothingOverlooked, In, InBuffer
<1> QED BY <1>1, <1>2, <1>3 DEF IInv

LEMMA EnqueueStep == ASSUME IInv, NEW m \in All, Enqueue(m) PROVE IInv'
<1> USE DEF Enqueue
<1>1. TypeOK'
  BY ProcessQueuedFacts DEF IInv, TypeOK, States, Places
<1>2. PlaceAndState'
  BY DEF IInv, TypeOK, PlaceAndState
<1>3. PostsCounted'
  BY DEF IInv, TypeOK, PostsCounted
<1>4. ErrorIsTrue'
  BY DEF IInv, TypeOK, PlaceAndState, ErrorIsTrue
<1>5. NothingOverlooked'
  BY ProcessQueuedFacts DEF IInv, TypeOK, NothingOverlooked, In
<1> QED BY <1>1, <1>2, <1>3, <1>4, <1>5 DEF IInv

LEMMA EncodeStep == ASSUME IInv, NEW m \in All, FinishedEncode(m) PROVE IInv'
<1> USE DEF FinishedEncode, InBuffer, In
<1>1. TypeOK'
  BY ProcessQueuedFacts DEF IInv, TypeOK, States, Places
<1>2. PlaceAndState'
  BY DEF IInv, TypeOK, PlaceAndState
<1>3. PostsCounted'
  BY DEF IInv, TypeOK, PostsCounted
<1>4. ErrorIsTrue'
  BY DEF IInv, TypeOK, PlaceAndState, ErrorIsTrue
<1>5. NothingOverlooked'
  BY ProcessQueuedFacts DEF IInv, TypeOK, NothingOverlooked, In
<1> QED BY <1>1, <1>2, <1>3, <1>4, <1>5 DEF IInv

LEMMA PostedOkStep == ASSUME IInv, NEW m \in All, PostedOk(m) PROVE IInv'
<1> USE DEF PostedOk, InBuffer, In
<1>1. TypeOK'
  BY ProcessQueuedFacts DEF IInv, TypeOK, States, Places
<1>2. PlaceAndState'
  BY DEF IInv, TypeOK, PlaceAndState
<1>3. PostsCounted'
  BY DEF IInv, TypeOK, PostsCounted
<1>4. ErrorIsTrue'
  BY DEF IInv, TypeOK, PlaceAndState, ErrorIsTrue
<1>5. NothingOverlooked'
  BY ProcessQueuedFacts DEF IInv, TypeOK, NothingOverlooked, In
<1> QED BY <1>1, <1>2, <1>3, <1>4, <1>5 DEF IInv

LEMMA PostFailedStep == ASSUME IInv, NEW m \in All, PostFailed(m) PROVE IInv'
<1> USE DEF PostFailed, InBuffer, In
<1>1. TypeOK'
  BY ProcessQueuedFacts DEF IInv, TypeOK, States, Places
<1>2. PlaceAndState'
  BY DEF IInv, TypeOK, PlaceAndState
<1>3. PostsCounted'
  <2> SUFFICES ASSUME NEW n \in All PROVE PostsCounted!(n)'
    BY DEF PostsCounted
  <2>1. CASE n # m
    BY <2>1 DEF IInv, TypeOK, PostsCounted
  <2>2. CASE n = m
    <3>1. got[m] \in Nat /\ posted[m] \in Nat /\ retries[m] \in 0..MaxRetry
      BY DEF IInv, TypeOK
    <3>2. got[m] <= posted[m] /\ posted[m] + retries[m] = MaxRetry
      BY DEF IInv, PostsCounted
    <3>3. posted'[m] = posted[m] + 1 /\ got'[m] \in {got[m], got[m] + 1}
      BY DEF IInv, TypeOK
    <3>4. \/ st'[m] = "retry" /\ retries[m] > 0 /\ retries'[m] = retries[m] - 1
          \/ st'[m] = "done" /\ retries'[m] = retries[m]
      BY DEF IInv, TypeOK
    <3> QED BY <2>2, <3>1, <3>2, <3>3, <3>4
  <2> QED BY <2>1, <2>2
<1>4. ErrorIsTrue'
  BY DEF IInv, TypeOK, PlaceAndState, ErrorIsTrue
<1>5. NothingOverlooked'
  BY ProcessQueuedFacts DEF IInv, TypeOK, NothingOverlooked, In
<1> QED BY <1>1, <1>2, <1>3, <1>4, <1>5 DEF IInv

LEMMA RetryDueStep == ASSUME IInv, NEW m \in All, RetryDue(m) PROVE IInv'
<1> USE DEF RetryDue, Retrying, InBuffer, In
<1>1. TypeOK'
  BY ProcessQueuedFacts DEF IInv, TypeOK, States, Places
<1>2. PlaceAndState'
  BY DEF IInv, TypeOK, PlaceAndState
<1>3. PostsCounted'
  BY DEF IInv, TypeOK, PostsCounted
<1>4. ErrorIsTrue'
  BY DEF IInv, TypeOK, PlaceAndState, ErrorIsTrue
<1>5. NothingOverlooked'
  BY ProcessQueuedFacts DEF IInv, TypeOK, NothingOverlooked, In
<1> QED BY <1>1, <1>2, <1>3, <1>4, <1>5 DEF IInv

\* A pass of the process task.
LEMMA PassStep == ASSUME IInv, Pass PROVE IInv'
<1> USE DEF Pass, InBuffer, In
<1>1. TypeOK'
  BY DEF IInv, TypeOK, States, Places, NotDelivered, NextProc
<1>2. PlaceAndState'
  BY DEF IInv, TypeOK, PlaceAndState, Due, PostedAtOnce, Arrived
<1>3. PostsCounted'
  BY DEF IInv, TypeOK, PlaceAndState, PostsCounted, Due, PostedAtOnce, Arrived
<1>4. ErrorIsTrue'
  BY DEF IInv, TypeOK, PlaceAndState, ErrorIsTrue, Due, PostedAtOnce, Arrived, NotDelivered
<1>5. NothingOverlooked'
  <2> DEFINE left == (In("buffer") \ InBuffer("done")) \cup In("new")
  <2>1. In("new")' = {} /\ In("buffer")' = left
    BY DEF IInv, TypeOK
  <2>2. CASE left = {}
    BY <2>1, <2>2 DEF NextProc, NothingOverlooked
  <2>3. CASE left # {} /\ Retrying # {}
    BY <2>1, <2>3 DEF NextProc, NothingOverlooked
  <2>4. CASE left # {} /\ Retrying = {}
    <3>1. ASSUME NEW m \in left PROVE st'[m] \in {"encode", "deliver"}
      BY <2>4, <3>1 DEF IInv, TypeOK, States, PlaceAndState, Due, PostedAtOnce, Arrived, Retrying
    <3> QED BY <2>1, <2>4, <3>1 DEF NextProc, NothingOverlooked
  <2> QED BY <2>2, <2>3, <2>4
<1> QED BY <1>1, <1>2, <1>3, <1>4, <1>5 DEF IInv

\* Every step keeps the invariant.
LEMMA NextIInv == IInv /\ [Next]_vars => IInv'
<1> SUFFICES ASSUME IInv, [Next]_vars PROVE IInv'
  OBVIOUS
<1>1. CASE ProcessDone
  BY <1>1 DEF ProcessDone, IInv, TypeOK, PlaceAndState, PostsCounted, ErrorIsTrue,
     NothingOverlooked, In, InBuffer
<1>2. CASE UNCHANGED vars
  BY <1>2 DEF vars, IInv, TypeOK, PlaceAndState, PostsCounted, ErrorIsTrue,
     NothingOverlooked, In, InBuffer
<1> QED BY EnqueueStep, EncodeStep, PostedOkStep, PostFailedStep, RetryDueStep, PassStep,
           <1>1, <1>2 DEF Next

\* The inductive invariant holds in every reachable state.
THEOREM Invariance == Spec => []IInv
<1> QED BY InitIInv, NextIInv, PTL DEF Spec

\* process_queued and _process_loop agree: the process task waits, or is gone,
\* only while nothing in the queue needs it.
THEOREM NoMissedEvent == Spec => []NothingOverlooked
<1>1. IInv => NothingOverlooked
  BY DEF IInv
<1> QED BY Invariance, <1>1, PTL

\* finished_deliver: no message is posted more than MaxRetry + 1 times.
THEOREM PostsBounded == Spec => []AttemptsBounded
<1>1. IInv => AttemptsBounded
  <2> SUFFICES ASSUME IInv, NEW m \in All PROVE got[m] <= posted[m] /\ posted[m] <= MaxRetry + 1
    BY DEF AttemptsBounded
  <2>1. retries[m] \in 0..MaxRetry /\ posted[m] \in Nat /\ st[m] \in States
    BY DEF IInv, TypeOK
  <2> QED BY <2>1 DEF IInv, PostsCounted, States
<1> QED BY Invariance, <1>1, PTL

\* What was acknowledged is not reported as undelivered.
THEOREM ReportIsTrue == Spec => []NeverBoth
<1>1. IInv => NeverBoth
  BY DEF IInv, TypeOK, ErrorIsTrue, NeverBoth
<1> QED BY Invariance, <1>1, PTL

\* What leaves the queue was acknowledged or reported.
THEOREM NoneLost == Spec => []LeavesNoticed
<1>1. IInv => LeavesNoticed
  BY DEF IInv, TypeOK, PlaceAndState, ErrorIsTrue, LeavesNoticed, All
<1> QED BY Invariance, <1>1, PTL

-----------------------------------------------------------------------------
\* The queue of a lock.

\* Nobody is in a queue twice.
Once(q) == \A i, j \in DOMAIN q : q[i] = q[j] => i = j

\* Whoever joins a queue is in it behind the others.
LEMMA Joins ==
    ASSUME NEW S, NEW q \in Seq(S), NEW x \in S, Once(q), x \notin Range(q)
    PROVE  /\ Append(q, x) \in Seq(S) /\ Once(Append(q, x))
           /\ Range(Append(q, x)) = Range(q) \cup {x}
           /\ q # <<>> => Head(Append(q, x)) = Head(q)
<1>1. DOMAIN q = 1..Len(q) /\ Len(q) \in Nat /\ Append(q, x) \in Seq(S)
  OBVIOUS
<1>2. /\ DOMAIN Append(q, x) = 1..(Len(q) + 1)
      /\ \A i \in 1..Len(q) : Append(q, x)[i] = q[i]
      /\ Append(q, x)[Len(q) + 1] = x
  OBVIOUS
<1>3. \A i \in 1..Len(q) : q[i] # x
  BY <1>1 DEF Range
<1>4. Once(Append(q, x))
  BY <1>1, <1>2, <1>3 DEF Once
<1>5. Range(Append(q, x)) = Range(q) \cup {x}
  BY <1>1, <1>2 DEF Range
<1>6. q # <<>> => Head(Append(q, x)) = Head(q)
  BY <1>1, <1>2
<1> QED BY <1>1, <1>4, <1>5, <1>6

\* The first of a queue goes and the others stay.
LEMMA FirstGoes ==
    ASSUME NEW S, NEW q \in Seq(S), Once(q), q # <<>>
    PROVE  /\ Tail(q) \in Seq(S) /\ Once(Tail(q))
           /\ Range(Tail(q)) = Range(q) \ {Head(q)}
<1>1. DOMAIN q = 1..Len(q) /\ Len(q) \in Nat \ {0} /\ Tail(q) \in Seq(S) /\ Head(q) = q[1]
  OBVIOUS
<1>2. DOMAIN Tail(q) = 1..(Len(q) - 1) /\ \A i \in 1..(Len(q) - 1) : Tail(q)[i] = q[i + 1]
  OBVIOUS
<1>3. Once(Tail(q))
  BY <1>1, <1>2 DEF Once
<1>4. ASSUME NEW y \in Range(q) \ {Head(q)} PROVE y \in Range(Tail(q))
  <2>1. PICK i \in 1..Len(q) : q[i] = y
    BY <1>1 DEF Range
  <2>2. i - 1 \in 1..(Len(q) - 1) /\ Tail(q)[i - 1] = y
    BY <1>1, <1>2, <2>1
  <2> QED BY <1>2, <2>2 DEF Range
<1>5. ASSUME NEW y \in Range(Tail(q)) PROVE y \in Range(q) \ {Head(q)}
  <2>1. PICK i \in 1..(Len(q) - 1) : Tail(q)[i] = y
    BY <1>2 DEF Range
  <2>2. i + 1 \in 1..Len(q) /\ q[i + 1] = y /\ 1 \in 1..Len(q) /\ i + 1 # 1
    BY <1>1, <1>2, <2>1
  <2> QED BY <1>1, <2>2 DEF Range, Once
<1> QED BY <1>1, <1>3, <1>4, <1>5

\* Whoever is taken out of a queue is not in it any more, and the others stay.
LEMMA OneGoes ==
    ASSUME NEW S, NEW q \in Seq(S), Once(q), NEW n \in DOMAIN q
    PROVE  /\ RemoveAt(q, n) \in Seq(S) /\ Once(RemoveAt(q, n))
           /\ Range(RemoveAt(q, n)) = Range(q) \ {q[n]}
           /\ q[1] # q[n] => RemoveAt(q, n) # <<>> /\ Head(RemoveAt(q, n)) = Head(q)
<1> DEFINE p == RemoveAt(q, n)
<1>1. DOMAIN q = 1..Len(q) /\ Len(q) \in Nat /\ n \in 1..Len(q) /\ Head(q) = q[1]
  OBVIOUS
<1> DEFINE a == SubSeq(q, 1, n - 1)
           b == SubSeq(q, n + 1, Len(q))
<1>a. a \in Seq(S) /\ Len(a) = n - 1 /\ \A i \in 1..(n - 1) : a[i] = q[i]
  BY <1>1
<1>b. b \in Seq(S) /\ Len(b) = Len(q) - n /\ \A i \in 1..(Len(q) - n) : b[i] = q[n + i]
  BY <1>1
<1>c. p = a \o b
  BY DEF RemoveAt
<1> HIDE DEF a, b
<1>2. p \in Seq(S) /\ Len(p) = Len(q) - 1
  <2>1. p \in Seq(S) /\ Len(p) = Len(a) + Len(b)
    BY <1>a, <1>b, <1>c, ConcatProperties
  <2> QED BY <1>1, <1>a, <1>b, <2>1
<1>d. \A i \in 1..(Len(q) - 1) : p[i] = IF i < n THEN a[i] ELSE b[i - n + 1]
  <2>1. \A i \in 1..(Len(a) + Len(b)) : (a \o b)[i] = IF i <= Len(a) THEN a[i] ELSE b[i - Len(a)]
    BY <1>a, <1>b, ConcatProperties
  <2>2. Len(a) + Len(b) = Len(q) - 1 /\ \A i \in Nat : i - Len(a) = i - n + 1
    BY <1>1, <1>a, <1>b
  <2>3. \A i \in Nat : i <= Len(a) <=> i < n
    BY <1>1, <1>a
  <2>4. ASSUME NEW i \in 1..(Len(q) - 1) PROVE p[i] = IF i < n THEN a[i] ELSE b[i - n + 1]
    <3>1. (a \o b)[i] = IF i <= Len(a) THEN a[i] ELSE b[i - Len(a)]
      BY <2>1, <2>2
    <3>2. i \in Nat
      BY <1>1
    <3> QED BY <1>c, <2>2, <2>3, <3>1, <3>2
  <2> QED BY <2>4
<1>3. /\ DOMAIN p = 1..(Len(q) - 1)
      /\ \A i \in 1..(Len(q) - 1) : p[i] = IF i < n THEN q[i] ELSE q[i + 1]
  <2>1. ASSUME NEW i \in 1..(Len(q) - 1) PROVE p[i] = IF i < n THEN q[i] ELSE q[i + 1]
    <3>1. CASE i < n
      BY <1>1, <1>a, <1>d, <3>1
    <3>2. CASE ~(i < n)
      <4>1. i - n + 1 \in 1..(Len(q) - n) /\ n + (i - n + 1) = i + 1
        BY <1>1, <3>2
      <4>2. b[i - n + 1] = q[n + (i - n + 1)]
        BY <1>b, <4>1
      <4> QED BY <1>d, <3>2, <4>1, <4>2
    <3> QED BY <3>1, <3>2
  <2> QED BY <1>1, <1>2, <2>1
<1>4. p # <<>> => Head(p) = p[1]
  BY <1>2
<1>5. Len(q) > 1 => p # <<>>
  BY <1>1, <1>2, <1>3
<1> HIDE DEF p
<1>6. Once(p)
  <2> SUFFICES ASSUME NEW i \in 1..(Len(q) - 1), NEW j \in 1..(Len(q) - 1), p[i] = p[j] PROVE i = j
    BY <1>3 DEF Once
  <2> DEFINE at(k) == IF k < n THEN k ELSE k + 1
  <2>1. at(i) \in 1..Len(q) /\ at(j) \in 1..Len(q) /\ p[i] = q[at(i)] /\ p[j] = q[at(j)]
    BY <1>1, <1>3
  <2>2. at(i) = at(j)
    BY <1>1, <2>1 DEF Once
  <2> QED BY <1>1, <2>2
<1>7. ASSUME NEW y \in Range(q) \ {q[n]} PROVE y \in Range(p)
  <2>1. PICK i \in 1..Len(q) : q[i] = y
    BY <1>1 DEF Range
  <2>2. \/ i < n /\ i \in 1..(Len(q) - 1) /\ p[i] = y
        \/ i > n /\ i - 1 \in 1..(Len(q) - 1) /\ p[i - 1] = y
    BY <1>1, <1>3, <2>1
  <2> QED BY <1>3, <2>2 DEF Range
<1>8. ASSUME NEW y \in Range(p) PROVE y \in Range(q) \ {q[n]}
  <2>1. PICK i \in 1..(Len(q) - 1) : p[i] = y
    BY <1>3 DEF Range
  <2>2. \E j \in 1..Len(q) : q[j] = y /\ j # n
    BY <1>1, <1>3, <2>1
  <2> QED BY <1>1, <2>2 DEF Range, Once
<1>9. q[1] # q[n] => n > 1 /\ Len(q) > 1 /\ 1 \in 1..(Len(q) - 1)
  BY <1>1
<1>10. q[1] # q[n] => p # <<>> /\ Head(p) = Head(q)
  BY <1>1, <1>3, <1>4, <1>5, <1>9
<1> QED BY <1>2, <1>6, <1>7, <1>8, <1>10 DEF p

-----------------------------------------------------------------------------
\* Messages that go back: sessions and the queue of undelivered messages.

\* A session before it is open holds nothing, one that packs or sends holds a
\* response, and one that waits is open.
SessionState ==
    \A s \in Sessions :
        /\ session[s] = "none" => buffer[s] = NoMsg
        /\ waiter[s] # "off" => session[s] = "open"
        /\ waiter[s] \in {"encode", "done", "send"} => buffer[s] # NoMsg

\* The messages in the hands of sessions are those that are nowhere else, and
\* no two sessions have the same.
BufferState ==
    /\ \A s \in Sessions, m \in Msgs : session[s] = "open" /\ buffer[s] = m => heldBy[m] = "buffer"
    /\ \A m \in Msgs : heldBy[m] = "buffer" => \E s \in Sessions : session[s] = "open" /\ buffer[s] = m
    /\ \A s, t \in Sessions :
          /\ session[s] = "open" /\ session[t] = "open"
          /\ buffer[s] = buffer[t] /\ buffer[s] # NoMsg
          => s = t

\* So are the messages queued under a key, and no queue has one twice.
QueueState ==
    \A k \in Keys :
        /\ Once(queueByKey[k])
        /\ \A m \in Msgs :
              m \in Range(queueByKey[k]) <=> heldBy[m] = "undelivered" /\ To[m] = k

HeldInv == InboundTypeOK /\ SessionState /\ BufferState /\ QueueState

\* The least of some natural numbers is one of them.
LEMMA LeastIsOne == ASSUME NEW I \in SUBSET Nat, I # {} PROVE Min(I) \in I
<1>1. \E x \in I : \A y \in I : ~(<<y, x>> \in OpToRel(<, Nat))
  BY NatLessThanWellFounded, WFMin
<1>2. \A x, y \in Nat : <<y, x>> \in OpToRel(<, Nat) <=> y < x
  BY DEF OpToRel
<1>3. PICK x \in I : \A y \in I : ~(y < x)
  BY <1>1, <1>2
<1>4. \A y \in I : x =< y
  BY <1>3
<1> QED BY <1>4 DEF Min

\* What FirstAccepted finds is a message of the queue that the session accepts.
LEMMA FirstIsAccepted ==
    ASSUME InboundTypeOK, NEW s \in Sessions, NEW k \in Keys, FirstAccepted(s, k) > 0
    PROVE  /\ FirstAccepted(s, k) \in DOMAIN queueByKey[k]
           /\ Accepts(s, queueByKey[k][FirstAccepted(s, k)])
<1> DEFINE I == {i \in 1..Len(queueByKey[k]) : Accepts(s, queueByKey[k][i])}
<1>1. FirstAccepted(s, k) = IF I # {} THEN Min(I) ELSE 0
  BY DEF FirstAccepted, SelectInSeq
<1>2. I # {} /\ FirstAccepted(s, k) = Min(I)
  BY <1>1
<1>3. Min(I) \in I
  <2>1. I \in SUBSET Nat
    BY DEF InboundTypeOK
  <2> QED BY <1>2, <2>1, LeastIsOne
<1>4. queueByKey[k] \in Seq(Msgs)
  BY DEF InboundTypeOK
<1> QED BY <1>2, <1>3, <1>4

LEMMA InitHeldInv == InboundInit => HeldInv
<1> SUFFICES ASSUME InboundInit PROVE HeldInv
  OBVIOUS
<1>0. \A k \in Keys : queueByKey[k] = <<>> /\ queueByKey[k] \in Seq(Msgs)
  BY EmptySeq DEF InboundInit
<1>1. InboundTypeOK
  <2>1. queueByKey \in [Keys -> Seq(Msgs)]
    BY <1>0 DEF InboundInit
  <2>2. 0 \in 0..MaxHandling
    BY InboundAssumption
  <2> QED BY <2>1, <2>2 DEF InboundInit, InboundTypeOK, Waits, Parts, Gone
<1>2. SessionState
  BY DEF InboundInit, SessionState
<1>3. BufferState
  BY DEF InboundInit, BufferState
<1>4. QueueState
  <2>1. ASSUME NEW k \in Keys PROVE Once(queueByKey[k]) /\ Range(queueByKey[k]) = {}
    BY <1>0 DEF Once, Range
  <2> QED BY <2>1 DEF InboundInit, QueueState
<1> QED BY <1>1, <1>2, <1>3, <1>4 DEF HeldInv

\* A step that moves no message, and no session but one that opens.
LEMMA NothingMoved ==
    ASSUME HeldInv, SessionState',
           UNCHANGED <<buffer, heldBy, queueByKey>>,
           \A s \in Sessions : session'[s] = session[s] \/ (session[s] = "none" /\ session'[s] = "open")
    PROVE  BufferState' /\ QueueState'
<1> USE InboundAssumption DEF HeldInv
<1>1. \A s \in Sessions : session'[s] = session[s] \/ buffer[s] = NoMsg
  BY DEF SessionState
<1>2. BufferState'
  <2>1. ASSUME NEW s \in Sessions, session'[s] = "open", buffer[s] # NoMsg PROVE session[s] = "open"
    BY <1>1, <2>1
  <2>2. ASSUME NEW s \in Sessions, session[s] = "open" PROVE session'[s] = "open"
    BY <2>2
  <2>3. NoMsg \notin Msgs
    OBVIOUS
  <2>4. \A s \in Sessions, m \in Msgs : session'[s] = "open" /\ buffer'[s] = m => heldBy'[m] = "buffer"
    BY <2>1, <2>3 DEF BufferState
  <2>5. \A m \in Msgs : heldBy'[m] = "buffer" => \E s \in Sessions : session'[s] = "open" /\ buffer'[s] = m
    BY <2>2 DEF BufferState
  <2>6. \A s, t \in Sessions :
           session'[s] = "open" /\ session'[t] = "open" /\ buffer'[s] = buffer'[t] /\ buffer'[s] # NoMsg
           => s = t
    BY <2>1 DEF BufferState
  <2> QED BY <2>4, <2>5, <2>6 DEF BufferState
<1>3. QueueState'
  BY DEF QueueState
<1> QED BY <1>2, <1>3

LEMMA CreateSessionStep == ASSUME HeldInv, NEW s \in Sessions, CreateSession(s) PROVE HeldInv'
<1> USE DEF HeldInv
<1>1. InboundTypeOK'
  BY DEF CreateSession, InboundTypeOK, Waits
<1>2. SessionState'
  BY DEF CreateSession, SessionState, InboundTypeOK
<1>3. BufferState' /\ QueueState'
  BY <1>2, NothingMoved DEF CreateSession, InboundTypeOK
<1> QED BY <1>1, <1>2, <1>3

LEMMA WaitResponseStep == ASSUME HeldInv, NEW s \in Sessions, WaitResponse(s) PROVE HeldInv'
<1> USE DEF HeldInv
<1>1. InboundTypeOK'
  BY DEF WaitResponse, InboundTypeOK, Waits
<1>2. SessionState'
  BY DEF WaitResponse, SessionState, InboundTypeOK
<1>3. BufferState' /\ QueueState'
  BY <1>2, NothingMoved DEF WaitResponse
<1> QED BY <1>1, <1>2, <1>3

LEMMA SendStartsStep == ASSUME HeldInv, NEW s \in Sessions, SendStarts(s) PROVE HeldInv'
<1> USE DEF HeldInv
<1>1. InboundTypeOK'
  BY DEF SendStarts, InboundTypeOK, Waits
<1>2. SessionState'
  BY DEF SendStarts, SessionState, InboundTypeOK
<1>3. BufferState' /\ QueueState'
  BY <1>2, NothingMoved DEF SendStarts
<1> QED BY <1>1, <1>2, <1>3

\* What a message that comes in changes by itself.
LEMMA ReceiveTypes ==
    ASSUME InboundTypeOK, NEW s \in Sessions, NEW k \in Senders, NEW m \in Modes, NEW t \in Threads,
           Receive(s, k, m, t)
    PROVE  /\ mode' \in [Sessions -> {"none", "all", "thread"}]
           /\ verkeys' \in [Sessions -> SUBSET Keys]
           /\ threads' \in [Sessions -> SUBSET Threads]
           /\ handling' \in [Sessions -> 0..MaxHandling]
<1>1. k \subseteq Keys
  BY DEF Senders
<1>2. mode' \in [Sessions -> {"none", "all", "thread"}]
  BY DEF Receive, ProcessInbound, InboundTypeOK
<1>3. verkeys' \in [Sessions -> SUBSET Keys]
  BY <1>1 DEF Receive, ProcessInbound, InboundTypeOK
<1>4. threads' \in [Sessions -> SUBSET Threads]
  BY DEF Receive, ProcessInbound, InboundTypeOK
<1>5. handling[s] + 1 \in 0..MaxHandling
  BY InboundAssumption DEF Receive, InboundTypeOK
<1>6. handling' \in [Sessions -> 0..MaxHandling]
  BY <1>5 DEF Receive, InboundTypeOK
<1> QED BY <1>2, <1>3, <1>4, <1>6

LEMMA ReceiveSocketStep ==
    ASSUME HeldInv, NEW s \in Sessions, NEW k \in Senders, NEW m \in Modes, NEW t \in Threads,
           ReceiveSocket(s, k, m, t)
    PROVE  HeldInv'
<1> USE DEF HeldInv
<1>1. InboundTypeOK'
  BY ReceiveTypes DEF ReceiveSocket, InboundTypeOK
<1>2. SessionState'
  BY DEF ReceiveSocket, SessionState
<1>3. BufferState' /\ QueueState'
  BY <1>2, NothingMoved DEF ReceiveSocket
<1> QED BY <1>1, <1>2, <1>3

\* A session that closes returns the response it holds.
LEMMA CloseStep ==
    ASSUME HeldInv, NEW s \in Sessions, session[s] = "open", Close(s), UNCHANGED <<buffer, queueByKey>>
    PROVE  /\ session' \in [Sessions -> {"none", "open", "closed"}]
           /\ waiter' \in [Sessions -> Waits]
           /\ heldBy' \in [Msgs -> Parts]
           /\ SessionState' /\ BufferState' /\ QueueState'
<1> USE InboundAssumption DEF HeldInv
<1>1. session' \in [Sessions -> {"none", "open", "closed"}] /\ waiter' \in [Sessions -> Waits]
  BY DEF Close, InboundTypeOK, Waits
<1>2. heldBy' \in [Msgs -> Parts]
  BY DEF Close, InboundTypeOK, Parts, Gone
<1>3. SessionState'
  BY DEF Close, SessionState, InboundTypeOK
<1>4. ASSUME NEW m \in Msgs
      PROVE  /\ m = buffer[s] => heldBy[m] = "buffer" /\ heldBy'[m] = "targets"
             /\ m # buffer[s] => heldBy'[m] = heldBy[m]
  BY DEF Close, Returned, BufferState
<1>5. session' = [session EXCEPT ![s] = "closed"] /\ session \in [Sessions -> {"none", "open", "closed"}]
  BY DEF Close, InboundTypeOK
<1>6. BufferState'
  <2>1. ASSUME NEW t \in Sessions, NEW m \in Msgs, session'[t] = "open", buffer[t] = m
        PROVE  heldBy'[m] = "buffer"
    <3>1. t # s /\ session[t] = "open"
      BY <1>5, <2>1
    <3>2. m # buffer[s]
      BY <2>1, <3>1 DEF BufferState
    <3> QED BY <1>4, <2>1, <3>1, <3>2 DEF BufferState
  <2>2. ASSUME NEW m \in Msgs, heldBy'[m] = "buffer"
        PROVE  \E t \in Sessions : session'[t] = "open" /\ buffer[t] = m
    BY <1>4, <1>5, <2>2 DEF BufferState
  <2>3. \A t, u \in Sessions :
           session'[t] = "open" /\ session'[u] = "open" /\ buffer[t] = buffer[u] /\ buffer[t] # NoMsg
           => t = u
    BY <1>5 DEF BufferState
  <2> QED BY <2>1, <2>2, <2>3 DEF BufferState
<1>7. QueueState'
  <2>1. \A m \in Msgs : heldBy'[m] = "undelivered" <=> heldBy[m] = "undelivered"
    BY <1>4
  <2> QED BY <2>1 DEF QueueState
<1> QED BY <1>1, <1>2, <1>3, <1>6, <1>7

LEMMA ReceiveHttpStep ==
    ASSUME HeldInv, NEW s \in Sessions, NEW k \in Senders, NEW m \in Modes, NEW t \in Threads,
           ReceiveHttp(s, k, m, t)
    PROVE  HeldInv'
<1> USE DEF HeldInv
<1>1. CASE m = "none" /\ Close(s)
  <2>1. /\ session' \in [Sessions -> {"none", "open", "closed"}] /\ waiter' \in [Sessions -> Waits]
        /\ heldBy' \in [Msgs -> Parts] /\ SessionState' /\ BufferState' /\ QueueState'
    BY <1>1, CloseStep DEF ReceiveHttp, Receive
  <2>2. InboundTypeOK'
    BY <2>1, ReceiveTypes DEF ReceiveHttp, InboundTypeOK
  <2> QED BY <2>1, <2>2
<1>2. CASE m # "none" /\ waiter' = [waiter EXCEPT ![s] = "run"] /\ UNCHANGED <<session, heldBy>>
  <2>1. InboundTypeOK'
    BY <1>2, ReceiveTypes DEF ReceiveHttp, InboundTypeOK, Waits
  <2>2. SessionState'
    BY <1>2 DEF ReceiveHttp, Receive, SessionState, InboundTypeOK
  <2>3. BufferState' /\ QueueState'
    BY <1>2, <2>2, NothingMoved DEF ReceiveHttp
  <2> QED BY <2>1, <2>2, <2>3
<1> QED BY <1>1, <1>2 DEF ReceiveHttp

LEMMA PeerGoneStep == ASSUME HeldInv, NEW s \in Sessions, PeerGone(s) PROVE HeldInv'
<1>1. /\ session' \in [Sessions -> {"none", "open", "closed"}] /\ waiter' \in [Sessions -> Waits]
      /\ heldBy' \in [Msgs -> Parts] /\ SessionState' /\ BufferState' /\ QueueState'
  BY CloseStep DEF PeerGone
<1>2. InboundTypeOK'
  BY <1>1 DEF HeldInv, PeerGone, InboundTypeOK
<1> QED BY <1>1, <1>2 DEF HeldInv

\* A session is rid of its response, and closed or not.
LEMMA ResponseGone ==
    ASSUME HeldInv, NEW s \in Sessions, NEW to \in {"sent", "failed"}, buffer[s] # NoMsg, session[s] = "open",
           buffer' = [buffer EXCEPT ![s] = NoMsg], heldBy' = [heldBy EXCEPT ![buffer[s]] = to],
           \A t \in Sessions : t # s => session'[t] = session[t],
           UNCHANGED queueByKey
    PROVE  BufferState' /\ QueueState'
<1> USE InboundAssumption DEF HeldInv
<1>1. buffer[s] \in Msgs /\ heldBy[buffer[s]] = "buffer"
  BY DEF InboundTypeOK, BufferState
<1>2. \A m \in Msgs : heldBy'[m] = IF m = buffer[s] THEN to ELSE heldBy[m]
  BY DEF InboundTypeOK
<1>3. \A t \in Sessions : buffer'[t] = IF t = s THEN NoMsg ELSE buffer[t]
  BY DEF InboundTypeOK
<1>4. BufferState'
  BY <1>1, <1>2, <1>3 DEF BufferState
<1>5. \A m \in Msgs : heldBy'[m] = "undelivered" <=> heldBy[m] = "undelivered"
  BY <1>1, <1>2
<1>6. QueueState'
  BY <1>5 DEF QueueState
<1> QED BY <1>4, <1>6

LEMMA EncodeOutboundStep == ASSUME HeldInv, NEW s \in Sessions, EncodeOutbound(s) PROVE HeldInv'
<1> USE DEF HeldInv
<1>1. buffer[s] \in Msgs /\ buffer[s] # NoMsg /\ session[s] = "open" /\ waiter[s] = "encode"
  BY DEF EncodeOutbound, SessionState, InboundTypeOK
<1>2. InboundTypeOK'
  BY <1>1 DEF EncodeOutbound, InboundTypeOK, Waits, Parts, Gone
<1>3. SessionState'
  BY <1>1 DEF EncodeOutbound, SessionState, InboundTypeOK
<1>4. CASE UNCHANGED <<buffer, heldBy>>
  BY <1>2, <1>3, <1>4, NothingMoved DEF EncodeOutbound
<1>5. CASE buffer' = [buffer EXCEPT ![s] = NoMsg] /\ heldBy' = [heldBy EXCEPT ![buffer[s]] = "failed"]
  BY <1>1, <1>2, <1>3, <1>5, ResponseGone DEF EncodeOutbound
<1> QED BY <1>4, <1>5 DEF EncodeOutbound

LEMMA RespondStep == ASSUME HeldInv, NEW s \in Sessions, Respond(s) PROVE HeldInv'
<1> USE DEF HeldInv
<1>1. buffer[s] \in Msgs /\ buffer[s] # NoMsg /\ session[s] = "open" /\ waiter[s] = "done"
  BY DEF Respond, SessionState, InboundTypeOK
<1>2. InboundTypeOK'
  BY <1>1 DEF Respond, InboundTypeOK, Waits, Parts, Gone
<1>3. SessionState'
  BY <1>1 DEF Respond, SessionState, InboundTypeOK
<1>4. BufferState' /\ QueueState'
  BY <1>1, ResponseGone DEF Respond, InboundTypeOK
<1> QED BY <1>2, <1>3, <1>4

LEMMA SentStep == ASSUME HeldInv, NEW s \in Sessions, Sent(s) PROVE HeldInv'
<1> USE DEF HeldInv
<1>1. buffer[s] \in Msgs /\ buffer[s] # NoMsg /\ session[s] = "open" /\ waiter[s] = "send"
  BY DEF Sent, SessionState, InboundTypeOK
<1>2. InboundTypeOK'
  BY <1>1 DEF Sent, InboundTypeOK, Waits, Parts, Gone
<1>3. SessionState'
  BY <1>1 DEF Sent, SessionState, InboundTypeOK
<1>4. BufferState' /\ QueueState'
  BY <1>1, ResponseGone DEF Sent
<1> QED BY <1>2, <1>3, <1>4

\* A session takes a message no session has.
LEMMA ResponseTaken ==
    ASSUME HeldInv, NEW s \in Sessions, NEW m \in Msgs, Accepts(s, m), SetResponse(s, m),
           heldBy[m] # "buffer", heldBy' = [heldBy EXCEPT ![m] = "buffer"], UNCHANGED session
    PROVE  /\ buffer' \in [Sessions -> Msgs \cup {NoMsg}] /\ waiter' \in [Sessions -> Waits]
           /\ heldBy' \in [Msgs -> Parts] /\ SessionState' /\ BufferState'
<1> USE InboundAssumption DEF HeldInv
<1>1. session[s] = "open" /\ buffer[s] = NoMsg /\ m # NoMsg
  BY DEF Accepts, SelectOutbound
<1>2. buffer' \in [Sessions -> Msgs \cup {NoMsg}] /\ heldBy' \in [Msgs -> Parts]
  BY DEF SetResponse, InboundTypeOK, Parts, Gone
<1>3. waiter' \in [Sessions -> Waits]
  BY DEF SetResponse, InboundTypeOK, Woken, Waits
<1>4. SessionState'
  BY <1>1 DEF SetResponse, SessionState, InboundTypeOK, Woken
<1>5. \A n \in Msgs : heldBy'[n] = IF n = m THEN "buffer" ELSE heldBy[n]
  BY DEF InboundTypeOK
<1>6. \A t \in Sessions : buffer'[t] = IF t = s THEN m ELSE buffer[t]
  BY DEF SetResponse, InboundTypeOK
<1>7. \A t \in Sessions : session[t] = "open" => buffer[t] # m
  BY DEF BufferState
<1>8. BufferState'
  BY <1>1, <1>5, <1>6, <1>7 DEF BufferState
<1> QED BY <1>2, <1>3, <1>4, <1>8

\* A message that is in no hands goes to where it is in none either.
LEMMA Elsewhere ==
    ASSUME HeldInv, NEW m \in Msgs, heldBy[m] \notin {"buffer", "undelivered"},
           NEW to \in {"targets", "outbound", "failed", "sent"}, heldBy' = [heldBy EXCEPT ![m] = to],
           UNCHANGED <<session, buffer, waiter, queueByKey>>
    PROVE  heldBy' \in [Msgs -> Parts] /\ SessionState' /\ BufferState' /\ QueueState'
<1> USE DEF HeldInv
<1>1. heldBy' \in [Msgs -> Parts]
  BY DEF InboundTypeOK, Parts, Gone
<1>2. SessionState'
  BY DEF SessionState
<1>3. \A n \in Msgs : heldBy'[n] = IF n = m THEN to ELSE heldBy[n]
  BY DEF InboundTypeOK
<1>4. BufferState'
  BY <1>3 DEF BufferState
<1>5. \A n \in Msgs : heldBy'[n] = "undelivered" <=> heldBy[n] = "undelivered"
  BY <1>3
<1>6. QueueState'
  BY <1>5 DEF QueueState
<1> QED BY <1>1, <1>2, <1>4, <1>6

LEMMA RouteStep ==
    ASSUME HeldInv, NEW m \in Msgs, NEW prefer \in SUBSET Sessions, Route(m, prefer)
    PROVE  HeldInv'
<1> USE DEF HeldInv
<1>1. CASE Takers(m, prefer) = {}
  <2>1. heldBy' \in [Msgs -> Parts] /\ SessionState' /\ BufferState' /\ QueueState'
    BY <1>1, Elsewhere DEF Route, Gone
  <2>2. InboundTypeOK'
    BY <1>1, <2>1 DEF Route, Gone, InboundTypeOK
  <2> QED BY <2>1, <2>2
<1>2. CASE Takers(m, prefer) # {}
  <2>1. PICK s \in Takers(m, prefer) : SetResponse(s, m)
    BY <1>2 DEF Route
  <2>2. s \in Sessions /\ Accepts(s, m)
    BY <2>1 DEF Takers
  <2>3. /\ buffer' \in [Sessions -> Msgs \cup {NoMsg}] /\ waiter' \in [Sessions -> Waits]
        /\ heldBy' \in [Msgs -> Parts] /\ SessionState' /\ BufferState'
    BY <1>2, <2>1, <2>2, ResponseTaken DEF Route, Gone
  <2>4. InboundTypeOK'
    BY <2>3 DEF Route, Gone, InboundTypeOK
  <2>5. QueueState'
    BY <1>2 DEF Route, Gone, QueueState, InboundTypeOK
  <2> QED BY <2>3, <2>4, <2>5
<1> QED BY <1>1, <1>2

\* A message that is in no hands is queued.
LEMMA ReturnUndeliveredStep ==
    ASSUME HeldInv, NEW m \in Msgs, heldBy[m] \notin {"buffer", "undelivered"}, ReturnUndelivered(m),
           UNCHANGED <<session, mode, verkeys, threads, buffer, waiter, handling>>
    PROVE  HeldInv'
<1> USE InboundAssumption DEF HeldInv
<1> DEFINE k == To[m]
           q == queueByKey[k]
<1>1. k \in Keys /\ q \in Seq(Msgs) /\ Once(q) /\ m \notin Range(q)
  BY DEF InboundTypeOK, QueueState
<1> HIDE DEF q
<1>2. Append(q, m) \in Seq(Msgs) /\ Once(Append(q, m)) /\ Range(Append(q, m)) = Range(q) \cup {m}
  BY <1>1, Joins
<1>3. queueByKey' = [queueByKey EXCEPT ![k] = Append(q, m)] /\ heldBy' = [heldBy EXCEPT ![m] = "undelivered"]
  BY DEF ReturnUndelivered, q
<1> HIDE DEF k
<1>4. queueByKey' \in [Keys -> Seq(Msgs)] /\ heldBy' \in [Msgs -> Parts]
  BY <1>1, <1>2, <1>3 DEF InboundTypeOK, Parts, Gone
<1>5. InboundTypeOK'
  BY <1>4 DEF InboundTypeOK
<1>6. SessionState'
  BY DEF SessionState
<1>7. \A n \in Msgs : heldBy'[n] = IF n = m THEN "undelivered" ELSE heldBy[n]
  BY <1>3 DEF InboundTypeOK
<1>8. BufferState'
  BY <1>7 DEF BufferState
<1>9. \A h \in Keys : queueByKey'[h] = IF h = k THEN Append(q, m) ELSE queueByKey[h]
  BY <1>3 DEF InboundTypeOK
<1>10. QueueState'
  BY <1>1, <1>2, <1>7, <1>9 DEF QueueState, k, q
<1> QED BY <1>5, <1>6, <1>8, <1>10

LEMMA QueueOutboundStep == ASSUME HeldInv, NEW m \in Msgs, QueueOutbound(m) PROVE HeldInv'
<1> USE DEF HeldInv
<1>1. CASE ReturnUndelivered(m)
  BY <1>1, ReturnUndeliveredStep DEF QueueOutbound
<1>2. ASSUME NEW to \in {"failed", "outbound"}, heldBy' = [heldBy EXCEPT ![m] = to], UNCHANGED queueByKey
      PROVE  HeldInv'
  <2>1. heldBy' \in [Msgs -> Parts] /\ SessionState' /\ BufferState' /\ QueueState'
    BY <1>2, Elsewhere DEF QueueOutbound
  <2>2. InboundTypeOK'
    BY <1>2, <2>1 DEF QueueOutbound, InboundTypeOK
  <2> QED BY <2>1, <2>2
<1> QED BY <1>1, <1>2 DEF QueueOutbound

LEMMA OutboundEndsStep == ASSUME HeldInv, NEW m \in Msgs, OutboundEnds(m) PROVE HeldInv'
<1> USE DEF HeldInv
<1>1. CASE ReturnUndelivered(m)
  BY <1>1, ReturnUndeliveredStep DEF OutboundEnds
<1>2. CASE heldBy' = [heldBy EXCEPT ![m] = "sent"] /\ UNCHANGED queueByKey
  <2>1. heldBy' \in [Msgs -> Parts] /\ SessionState' /\ BufferState' /\ QueueState'
    BY <1>2, Elsewhere DEF OutboundEnds
  <2>2. InboundTypeOK'
    BY <1>2, <2>1 DEF OutboundEnds, InboundTypeOK
  <2> QED BY <2>1, <2>2
<1> QED BY <1>1, <1>2 DEF OutboundEnds

\* A session takes a message out of the queue of a key.
LEMMA ProcessUndeliveredStep ==
    ASSUME HeldInv, NEW s \in Sessions, ProcessUndelivered(s), UNCHANGED session
    PROVE  /\ buffer' \in [Sessions -> Msgs \cup {NoMsg}] /\ waiter' \in [Sessions -> Waits]
           /\ heldBy' \in [Msgs -> Parts] /\ queueByKey' \in [Keys -> Seq(Msgs)]
           /\ SessionState' /\ BufferState' /\ QueueState'
<1> USE DEF HeldInv
<1>1. PICK k \in verkeys[s] :
        /\ FirstAccepted(s, k) > 0
        /\ SetResponse(s, queueByKey[k][FirstAccepted(s, k)])
        /\ heldBy' = [heldBy EXCEPT ![queueByKey[k][FirstAccepted(s, k)]] = "buffer"]
        /\ queueByKey' = [queueByKey EXCEPT ![k] = RemoveAt(@, FirstAccepted(s, k))]
  BY DEF ProcessUndelivered
<1> DEFINE q == queueByKey[k]
           i == FirstAccepted(s, k)
           m == q[i]
<1>2. k \in Keys /\ q \in Seq(Msgs) /\ Once(q)
  BY DEF InboundTypeOK, QueueState
<1>3. i \in DOMAIN q /\ Accepts(s, m)
  BY <1>1, <1>2, FirstIsAccepted
<1>4. m \in Msgs /\ m \in Range(q) /\ heldBy[m] = "undelivered" /\ To[m] = k
  <2>1. m \in Range(q)
    BY <1>3 DEF Range
  <2>2. m \in Msgs
    BY <1>2, <1>3
  <2> QED BY <1>2, <2>1, <2>2 DEF QueueState
<1>5. RemoveAt(q, i) \in Seq(Msgs) /\ Once(RemoveAt(q, i)) /\ Range(RemoveAt(q, i)) = Range(q) \ {m}
  BY <1>2, <1>3, OneGoes
<1>6. SetResponse(s, m) /\ heldBy' = [heldBy EXCEPT ![m] = "buffer"] /\ queueByKey' = [queueByKey EXCEPT ![k] = RemoveAt(q, i)]
  BY <1>1
<1> HIDE DEF m, i
<1>7. /\ buffer' \in [Sessions -> Msgs \cup {NoMsg}] /\ waiter' \in [Sessions -> Waits]
      /\ heldBy' \in [Msgs -> Parts] /\ SessionState' /\ BufferState'
  BY <1>3, <1>4, <1>6, ResponseTaken
<1>8. queueByKey' \in [Keys -> Seq(Msgs)]
  BY <1>2, <1>5, <1>6 DEF InboundTypeOK
<1>9. \A h \in Keys : queueByKey'[h] = IF h = k THEN RemoveAt(q, i) ELSE queueByKey[h]
  BY <1>6 DEF InboundTypeOK
<1>10. \A n \in Msgs : heldBy'[n] = IF n = m THEN "buffer" ELSE heldBy[n]
  BY <1>6 DEF InboundTypeOK
<1>11. QueueState'
  BY <1>4, <1>5, <1>9, <1>10 DEF QueueState
<1> QED BY <1>7, <1>8, <1>11

LEMMA DispatchCompleteStep == ASSUME HeldInv, NEW s \in Sessions, DispatchComplete(s) PROVE HeldInv'
<1> USE DEF HeldInv
<1>1. handling[s] - 1 \in 0..MaxHandling
  BY InboundAssumption DEF DispatchComplete, InboundTypeOK
<1>2. handling' \in [Sessions -> 0..MaxHandling]
  BY <1>1 DEF DispatchComplete, InboundTypeOK
<1>3. CASE ProcessUndelivered(s)
  <2>1. /\ buffer' \in [Sessions -> Msgs \cup {NoMsg}] /\ waiter' \in [Sessions -> Waits]
        /\ heldBy' \in [Msgs -> Parts] /\ queueByKey' \in [Keys -> Seq(Msgs)]
        /\ SessionState' /\ BufferState' /\ QueueState'
    BY <1>3, ProcessUndeliveredStep DEF DispatchComplete
  <2>2. InboundTypeOK'
    BY <1>2, <2>1 DEF DispatchComplete, InboundTypeOK
  <2> QED BY <2>1, <2>2
<1>4. CASE UNCHANGED <<buffer, waiter, queueByKey, heldBy>>
  <2>1. InboundTypeOK'
    BY <1>2, <1>4 DEF DispatchComplete, InboundTypeOK
  <2>2. SessionState'
    BY <1>4 DEF DispatchComplete, SessionState
  <2>3. BufferState' /\ QueueState'
    BY <1>4, <2>2, NothingMoved DEF DispatchComplete
  <2> QED BY <2>1, <2>2, <2>3
<1> QED BY <1>3, <1>4 DEF DispatchComplete

LEMMA NextHeldInv == HeldInv /\ [InboundNext]_inboundVars => HeldInv'
<1> SUFFICES ASSUME HeldInv, [InboundNext]_inboundVars PROVE HeldInv'
  OBVIOUS
<1>1. CASE UNCHANGED inboundVars
  BY <1>1 DEF HeldInv, InboundTypeOK, SessionState, BufferState, QueueState, inboundVars
<1>2. ASSUME NEW m \in Msgs, NEW prefer \in {{s} : s \in Sessions} \cup {{}}, Route(m, prefer)
      PROVE  HeldInv'
  <2>1. prefer \in SUBSET Sessions
    OBVIOUS
  <2> QED BY <1>2, <2>1, RouteStep
<1>3. CASE InboundNext
  BY <1>2, <1>3, CreateSessionStep, PeerGoneStep, DispatchCompleteStep, WaitResponseStep,
     EncodeOutboundStep, RespondStep, SendStartsStep, SentStep, ReceiveHttpStep, ReceiveSocketStep,
     QueueOutboundStep, OutboundEndsStep DEF InboundNext
<1> QED BY <1>1, <1>3

\* Every variable of the sessions and of the queue keeps its type.
THEOREM InboundTypeCorrect == InboundSpec => []InboundTypeOK
<1>1. HeldInv => InboundTypeOK
  BY DEF HeldInv
<1> QED BY <1>1, InitHeldInv, NextHeldInv, PTL DEF InboundSpec

\* A message that is routed is held by one session, queued once, or neither
\* while it is elsewhere, with any number of sessions, keys and messages.
THEOREM HeldByOne == InboundSpec => []HeldOnce
<1>1. HeldInv => HeldOnce
  <2> SUFFICES ASSUME HeldInv, NEW m \in Msgs
               PROVE  /\ Cardinality(Holders(m)) = (IF heldBy[m] = "buffer" THEN 1 ELSE 0)
                      /\ Cardinality(Queued(m)) = (IF heldBy[m] = "undelivered" THEN 1 ELSE 0)
    BY DEF HeldOnce
  <2> USE InboundAssumption DEF HeldInv
  <2>1. ASSUME heldBy[m] = "buffer" PROVE Cardinality(Holders(m)) = 1
    <3>1. PICK s \in Sessions : session[s] = "open" /\ buffer[s] = m
      BY <2>1 DEF BufferState
    <3>2. Holders(m) = {s}
      BY <3>1 DEF Holders, BufferState
    <3> QED BY <3>2, FS_Singleton
  <2>2. ASSUME heldBy[m] # "buffer" PROVE Cardinality(Holders(m)) = 0
    <3>1. Holders(m) = {}
      BY <2>2 DEF Holders, BufferState
    <3> QED BY <3>1, FS_EmptySet
  <2>3. ASSUME heldBy[m] = "undelivered" PROVE Cardinality(Queued(m)) = 1
    <3>1. To[m] \in Keys /\ m \in Range(queueByKey[To[m]])
      BY <2>3 DEF QueueState
    <3>2. PICK i \in DOMAIN queueByKey[To[m]] : queueByKey[To[m]][i] = m
      BY <3>1 DEF Range
    <3>3. i \in Positions
      BY <3>1 DEF Positions
    <3>4. ASSUME NEW k \in Keys, NEW j \in DOMAIN queueByKey[k], queueByKey[k][j] = m
          PROVE  k = To[m] /\ j = i
      <4>1. m \in Range(queueByKey[k])
        BY <3>4 DEF Range
      <4>2. k = To[m]
        BY <4>1 DEF QueueState
      <4> QED BY <3>2, <3>4, <4>2 DEF QueueState, Once
    <3>5. Queued(m) = {<<To[m], i>>}
      BY <3>1, <3>2, <3>3, <3>4 DEF Queued
    <3> QED BY <3>5, FS_Singleton
  <2>4. ASSUME heldBy[m] # "undelivered" PROVE Cardinality(Queued(m)) = 0
    <3>1. ASSUME NEW k \in Keys, NEW j \in DOMAIN queueByKey[k] PROVE queueByKey[k][j] # m
      BY <2>4 DEF QueueState, Range
    <3>2. Queued(m) = {}
      BY <3>1 DEF Queued
    <3> QED BY <3>2, FS_EmptySet
  <2> QED BY <2>1, <2>2, <2>3, <2>4
<1> QED BY <1>1, InitHeldInv, NextHeldInv, PTL DEF InboundSpec

-----------------------------------------------------------------------------
\* The lock of the pool.

\* The queue of the lock has exactly those who wait for it or hold it, once,
\* and who opens or closes the pool holds it.
LockState ==
    /\ Once(lockq)
    /\ \A r \in Requests : r \in Range(lockq) <=> hand[r] \in {"lock", "open", "leave"}
    /\ Closer \in Range(lockq) <=> closer \in {"lock", "close"}
    /\ \A r \in Requests : hand[r] = "open" => Holds(r)
    /\ \A r \in Requests : hand[r] = "open" => closer = "none"
    /\ closer = "close" => Holds(Closer)

\* There is a closer only when nobody uses the pool.
PoolState ==
    /\ closer # "none" => refs = 0
    /\ IsFiniteSet(Users)
    /\ InsideHasPool

PoolInv == LedgerTypeOK /\ LockState /\ PoolState

\* Where the request or closer that goes through a step is moved.
LEMMA WithoutOne ==
    ASSUME NEW x, lockq \in Seq(Requests \cup {Closer}), Once(lockq)
    PROVE  /\ Without(x) \in Seq(Requests \cup {Closer}) /\ Once(Without(x))
           /\ Range(Without(x)) = Range(lockq) \ {x}
           /\ \A y : y # x /\ Holds(y) => Without(x) # <<>> /\ Head(Without(x)) = y
<1>1. CASE InLine(x)
  <2>1. Turn(x) \in DOMAIN lockq /\ lockq[Turn(x)] = x
    BY <1>1 DEF InLine, Turn
  <2>2. Without(x) = RemoveAt(lockq, Turn(x))
    BY <1>1 DEF Without
  <2>3. lockq # <<>> => Head(lockq) = lockq[1]
    OBVIOUS
  <2> HIDE DEF Turn
  <2> QED BY <2>1, <2>2, <2>3, OneGoes DEF Holds
<1>2. CASE ~InLine(x)
  BY <1>2 DEF InLine, Without, Range, Holds
<1> QED BY <1>1, <1>2

\* Who holds the lock is the first of its queue.
LEMMA HolderGoes ==
    ASSUME NEW q \in Seq(Requests \cup {Closer}), Once(q), NEW x, q # <<>>, Head(q) = x
    PROVE  /\ Tail(q) \in Seq(Requests \cup {Closer}) /\ Once(Tail(q))
           /\ Range(Tail(q)) = Range(q) \ {x}
  BY FirstGoes

-----------------------------------------------------------------------------
\* Each step keeps the lock and the pool in order.

LEMMA InitPoolInv == LedgerInit => PoolInv
<1> SUFFICES ASSUME LedgerInit PROVE PoolInv
  OBVIOUS
<1>0. lockq \in Seq(Requests \cup {Closer}) /\ leaks \in 0..MaxLeaks
  BY LedgerAssumption, EmptySeq DEF LedgerInit
<1>1. LedgerTypeOK
  BY <1>0 DEF LedgerInit, LedgerTypeOK, Things, Ended, Running
<1>a. lockq = <<>> /\ Range(lockq) = {} /\ Once(lockq)
  BY DEF LedgerInit, Once, Range
<1>b. LockState
  BY <1>a DEF LedgerInit, LockState
<1>2. Users = {}
  BY DEF LedgerInit, Users
<1>3. PoolState
  BY <1>2, FS_EmptySet DEF LedgerInit, PoolState, InsideHasPool
<1> QED BY <1>1, <1>b, <1>3 DEF PoolInv

\* What a step leaves alone: the hands, the queue and the closer.
LEMMA OperationPoolInv ==
    ASSUME PoolInv, LedgerTypeOK', UNCHANGED <<pool, hand>>
    PROVE  PoolInv'
<1>1. Users' = Users
  BY DEF Users
<1>2. LockState'
  BY DEF PoolInv, LockState, Holds, pool
<1>3. PoolState'
  BY <1>1 DEF PoolInv, PoolState, InsideHasPool, pool
<1> QED BY <1>2, <1>3 DEF PoolInv

LEMMA StartPoolInv ==
    ASSUME PoolInv, NEW r \in Requests, NEW thing \in Things, Start(r, thing)
    PROVE  PoolInv'
<1> USE LedgerAssumption DEF PoolInv
<1>1. r \notin Range(lockq)
  BY DEF Start, LockState
<1>2. /\ lockq' \in Seq(Requests \cup {Closer}) /\ Once(lockq')
      /\ Range(lockq') = Range(lockq) \cup {r}
      /\ lockq # <<>> => Head(lockq') = Head(lockq)
  BY <1>1, Joins DEF Start, LedgerTypeOK, LockState
<1>3. LedgerTypeOK'
  BY <1>2 DEF Start, LedgerTypeOK, settings, published, Ended
<1>4. LockState'
  BY <1>2 DEF Start, LockState, LedgerTypeOK, Holds
<1>5. Users' = Users
  BY DEF Start, Users, LedgerTypeOK
<1>6. PoolState'
  BY <1>5 DEF Start, PoolState, InsideHasPool
<1> QED BY <1>3, <1>4, <1>6

\* A request that has the pool is one more user of it.
LEMMA InsideUsers ==
    ASSUME PoolInv, NEW r \in Requests, hand[r] \in {"lock", "open"},
           hand' = [hand EXCEPT ![r] = "inside"]
    PROVE  IsFiniteSet(Users') /\ Cardinality(Users') = Cardinality(Users) + 1
<1>1. Users' = Users \cup {r} /\ r \notin Users
  BY DEF PoolInv, LedgerTypeOK, Users
<1> QED BY <1>1, FS_AddElement DEF PoolInv, PoolState

LEMMA ContextOpenPoolInv ==
    ASSUME PoolInv, NEW r \in Requests, ContextOpen(r) PROVE PoolInv'
<1> USE LedgerAssumption DEF PoolInv
<1>1. /\ Without(Closer) \in Seq(Requests \cup {Closer}) /\ Once(Without(Closer))
      /\ Range(Without(Closer)) = Range(lockq) \ {Closer}
      /\ Without(Closer) # <<>> /\ Head(Without(Closer)) = r
  <2>1. r # Closer /\ Holds(r)
    BY DEF ContextOpen
  <2> QED BY <2>1, WithoutOne DEF LedgerTypeOK, LockState
<1>2. closer' = "none" /\ hand[r] = "lock" /\ Holds(r) /\ hand \in [Requests -> {"out", "lock", "open", "inside", "leave"}]
  BY DEF ContextOpen, LedgerTypeOK
<1> DEFINE q == Without(Closer)
<1> HIDE DEF q
<1>3. CASE opened /\ Inside(r, q)
  <2>1. lockq' = Tail(q) /\ refs' = refs + 1 /\ hand' = [hand EXCEPT ![r] = "inside"]
    BY <1>3 DEF Inside
  <2>2. /\ lockq' \in Seq(Requests \cup {Closer}) /\ Once(lockq')
        /\ Range(lockq') = Range(lockq) \ {Closer, r}
    BY <1>1, <2>1, HolderGoes DEF q
  <2>3. LedgerTypeOK'
    BY <1>2, <1>3, <2>1, <2>2 DEF ContextOpen, Inside, LedgerTypeOK, settings, published, Running
  <2>4. \A s \in Requests : hand[s] # "open"
    BY <1>2 DEF LockState, Holds
  <2>5. LockState'
    BY <1>2, <2>1, <2>2, <2>4 DEF LockState
  <2>6. IsFiniteSet(Users') /\ Cardinality(Users') = Cardinality(Users) + 1
    BY <1>2, <2>1, InsideUsers
  <2>7. refs = Cardinality(Users) + leaks /\ Cardinality(Users) \in Nat /\ refs \in Nat /\ leaks \in Nat
    BY FS_CardinalityType DEF PoolState, InsideHasPool, LedgerTypeOK
  <2>8. refs' = Cardinality(Users') + leaks'
    BY <2>1, <2>6, <2>7 DEF ContextOpen
  <2>9. PoolState'
    BY <1>2, <1>3, <2>6, <2>8 DEF ContextOpen, PoolState, InsideHasPool
  <2> QED BY <2>3, <2>5, <2>9
<1>4. CASE ~opened /\ lockq' = q /\ hand' = [hand EXCEPT ![r] = "open"] /\ UNCHANGED <<op, refs>>
  <2>3. LedgerTypeOK'
    BY <1>1, <1>2, <1>4 DEF ContextOpen, LedgerTypeOK, settings, published, q
  <2>4. \A s \in Requests : hand[s] # "open"
    BY <1>2 DEF LockState, Holds
  <2>5. LockState'
    BY <1>1, <1>2, <1>4, <2>4 DEF LockState, Holds, q
  <2>6. Users' = Users
    BY <1>2, <1>4 DEF Users
  <2>7. PoolState'
    BY <1>2, <1>4, <2>6 DEF ContextOpen, PoolState, InsideHasPool
  <2> QED BY <2>3, <2>5, <2>7
<1> QED BY <1>3, <1>4 DEF ContextOpen, q

LEMMA OpenPoolInv == ASSUME PoolInv, NEW r \in Requests, Open(r) PROVE PoolInv'
<1> USE LedgerAssumption DEF PoolInv
<1>1. /\ hand[r] = "open" /\ Holds(r) /\ closer # "close" /\ closer' = closer
      /\ hand \in [Requests -> {"out", "lock", "open", "inside", "leave"}]
  BY DEF Open, LockState, LedgerTypeOK, Holds
<1>2. /\ Tail(lockq) \in Seq(Requests \cup {Closer}) /\ Once(Tail(lockq))
      /\ Range(Tail(lockq)) = Range(lockq) \ {r}
  BY <1>1, HolderGoes DEF LedgerTypeOK, LockState, Holds
<1>3. \A s \in Requests : hand[s] = "open" => s = r
  BY <1>1 DEF LockState, Holds
<1>4. CASE opened' = TRUE /\ Inside(r, lockq)
  <2>1. lockq' = Tail(lockq) /\ refs' = refs + 1 /\ hand' = [hand EXCEPT ![r] = "inside"]
    BY <1>4 DEF Inside
  <2>2. LedgerTypeOK'
    BY <1>1, <1>2, <1>4, <2>1 DEF Open, Inside, LedgerTypeOK, settings, published, Running
  <2>3. LockState'
    BY <1>1, <1>2, <1>3, <2>1 DEF LockState
  <2>4. IsFiniteSet(Users') /\ Cardinality(Users') = Cardinality(Users) + 1
    BY <1>1, <2>1, InsideUsers
  <2>5. refs = Cardinality(Users) + leaks /\ Cardinality(Users) \in Nat /\ refs \in Nat /\ leaks \in Nat
    BY FS_CardinalityType DEF PoolState, InsideHasPool, LedgerTypeOK
  <2>6. refs' = Cardinality(Users') + leaks'
    BY <2>1, <2>4, <2>5 DEF Open
  <2>7. closer = "none"
    BY <1>1 DEF LockState
  <2>8. PoolState'
    BY <1>1, <1>4, <2>4, <2>6, <2>7 DEF PoolState, InsideHasPool
  <2> QED BY <2>2, <2>3, <2>8
<1>5. CASE /\ hand' = [hand EXCEPT ![r] = "out"] /\ op' = [op EXCEPT ![r] = "failed"]
           /\ lockq' = Tail(lockq) /\ UNCHANGED <<opened, refs>>
  <2>2. LedgerTypeOK'
    BY <1>1, <1>2, <1>5 DEF Open, LedgerTypeOK, settings, published, Ended
  <2>3. LockState'
    BY <1>1, <1>2, <1>3, <1>5 DEF LockState
  <2>4. Users' = Users
    BY <1>1, <1>5 DEF Users
  <2>5. PoolState'
    BY <1>1, <1>5, <2>4 DEF Open, PoolState, InsideHasPool
  <2> QED BY <2>2, <2>3, <2>5
<1> QED BY <1>4, <1>5 DEF Open

\* A request that asks for the lock again, to give its reference back.
LEMMA LeavingPoolInv ==
    ASSUME PoolInv, LedgerTypeOK', NEW r \in Requests, hand[r] = "inside",
           hand' = [hand EXCEPT ![r] = "leave"], lockq' = Append(lockq, r),
           UNCHANGED <<opened, refs, closer, leaks>>
    PROVE  PoolInv'
<1> USE LedgerAssumption DEF PoolInv
<1>1. r \notin Range(lockq) /\ hand \in [Requests -> {"out", "lock", "open", "inside", "leave"}]
  BY DEF LockState, LedgerTypeOK
<1>2. /\ Once(lockq') /\ Range(lockq') = Range(lockq) \cup {r}
      /\ lockq # <<>> => lockq' # <<>> /\ Head(lockq') = Head(lockq)
  BY <1>1, Joins DEF LedgerTypeOK, LockState
<1>4. LockState'
  BY <1>1, <1>2 DEF LockState, Holds
<1>5. Users' = Users
  BY <1>1 DEF Users
<1>6. PoolState'
  BY <1>5 DEF PoolState, InsideHasPool
<1> QED BY <1>4, <1>6

LEMMA LeavePoolInv == ASSUME PoolInv, NEW r \in Requests, Leave(r) PROVE PoolInv'
<1>1. r \notin Range(lockq)
  BY DEF Leave, LockState, PoolInv
<1>2. lockq' \in Seq(Requests \cup {Closer})
  BY DEF Leave, PoolInv, LedgerTypeOK
<1>3. LedgerTypeOK'
  BY <1>2 DEF PoolInv, Leave, LedgerTypeOK, settings, published
<1> QED BY <1>3, LeavingPoolInv DEF Leave

\* A user that has left.
LEMMA OutUsers ==
    ASSUME PoolInv, NEW r \in Requests, hand[r] = "leave", hand' = [hand EXCEPT ![r] = "out"]
    PROVE  /\ IsFiniteSet(Users') /\ Cardinality(Users') = Cardinality(Users) - 1
           /\ Cardinality(Users') \in Nat /\ Cardinality(Users) \in Nat
           /\ Users' \subseteq Users
<1>1. Users' = Users \ {r} /\ r \in Users
  BY DEF PoolInv, LedgerTypeOK, Users
<1> QED BY <1>1, FS_RemoveElement, FS_CardinalityType DEF PoolInv, PoolState

LEMMA ContextClosePoolInv == ASSUME PoolInv, NEW r \in Requests, ContextClose(r) PROVE PoolInv'
<1> USE LedgerAssumption DEF PoolInv
<1>1. /\ hand[r] = "leave" /\ Holds(r) /\ closer # "close"
      /\ hand \in [Requests -> {"out", "lock", "open", "inside", "leave"}]
      /\ hand' = [hand EXCEPT ![r] = "out"] /\ lockq' = Tail(lockq)
  BY DEF ContextClose, LockState, LedgerTypeOK, Holds
<1>2. /\ Tail(lockq) \in Seq(Requests \cup {Closer}) /\ Once(Tail(lockq))
      /\ Range(Tail(lockq)) = Range(lockq) \ {r}
  BY <1>1, HolderGoes DEF LedgerTypeOK, LockState, Holds
<1>3. \A s \in Requests : hand[s] # "open"
  BY <1>1 DEF LockState, Holds
<1>4. /\ IsFiniteSet(Users') /\ Cardinality(Users') = Cardinality(Users) - 1
      /\ Cardinality(Users') \in Nat /\ Cardinality(Users) \in Nat /\ Users' \subseteq Users
  BY <1>1, OutUsers
<1>5. refs' \in Nat /\ refs' = Cardinality(Users') + leaks'
  BY <1>4 DEF ContextClose, PoolState, InsideHasPool, LedgerTypeOK
<1>6. LedgerTypeOK'
  BY <1>1, <1>2, <1>5 DEF ContextClose, LedgerTypeOK, settings, published
<1>7. closer \in {"none", "sleep", "lock", "close"} /\ (closer # "none" => refs = 0)
  BY DEF LedgerTypeOK, PoolState
<1>8. LockState'
  BY <1>1, <1>2, <1>3, <1>7 DEF ContextClose, LockState
<1>9. PoolState'
  BY <1>1, <1>4, <1>5 DEF ContextClose, PoolState, InsideHasPool
<1> QED BY <1>6, <1>8, <1>9

LEMMA CancelPoolInv == ASSUME PoolInv, NEW r \in Requests, Cancel(r) PROVE PoolInv'
<1> USE LedgerAssumption DEF PoolInv
<1>1. /\ hand \in [Requests -> {"out", "lock", "open", "inside", "leave"}] /\ r # Closer
      /\ UNCHANGED <<opened, refs, closer, doing, settings, published>>
  BY DEF LedgerTypeOK, Cancel
<1>2. /\ Without(r) \in Seq(Requests \cup {Closer}) /\ Once(Without(r))
      /\ Range(Without(r)) = Range(lockq) \ {r}
      /\ \A y : y # r /\ Holds(y) => Without(r) # <<>> /\ Head(Without(r)) = y
  BY WithoutOne DEF LedgerTypeOK, LockState
<1> DEFINE q == Without(r)
<1> HIDE DEF q
<1>3. ASSUME hand' = [hand EXCEPT ![r] = "out"], lockq' = q PROVE LockState'
  BY <1>1, <1>2, <1>3 DEF LockState, Holds, q
<1>4. CASE /\ hand[r] \in {"lock", "open"} /\ hand' = [hand EXCEPT ![r] = "out"]
           /\ op' = [op EXCEPT ![r] = "failed"] /\ lockq' = q /\ UNCHANGED leaks
  <2>1. LedgerTypeOK'
    BY <1>1, <1>2, <1>4 DEF Cancel, LedgerTypeOK, settings, published, Ended, q
  <2>2. Users' = Users
    BY <1>1, <1>4 DEF Users
  <2>3. PoolState'
    BY <1>1, <1>4, <2>2 DEF PoolState, InsideHasPool
  <2> QED BY <1>3, <1>4, <2>1, <2>3
<1>5. CASE /\ hand[r] = "inside" /\ hand' = [hand EXCEPT ![r] = "leave"]
           /\ lockq' = Append(lockq, r) /\ UNCHANGED <<op, leaks>>
  <2>1. lockq' \in Seq(Requests \cup {Closer})
    BY <1>5 DEF LedgerTypeOK
  <2>2. LedgerTypeOK'
    BY <1>1, <1>5, <2>1 DEF Cancel, LedgerTypeOK, settings, published
  <2> QED BY <1>1, <1>5, <2>2, LeavingPoolInv
<1>6. CASE /\ hand[r] = "leave" /\ leaks < MaxLeaks /\ leaks' = leaks + 1
           /\ hand' = [hand EXCEPT ![r] = "out"] /\ lockq' = q /\ UNCHANGED op
  <2>1. LedgerTypeOK'
    BY <1>1, <1>2, <1>6 DEF Cancel, LedgerTypeOK, settings, published, q
  <2>2. /\ IsFiniteSet(Users') /\ Cardinality(Users') = Cardinality(Users) - 1
        /\ Cardinality(Users') \in Nat /\ Cardinality(Users) \in Nat /\ Users' \subseteq Users
    BY <1>6, OutUsers
  <2>3. refs' = Cardinality(Users') + leaks'
    BY <1>1, <1>6, <2>2 DEF PoolState, InsideHasPool, LedgerTypeOK
  <2>4. PoolState'
    BY <1>1, <1>6, <2>2, <2>3 DEF PoolState, InsideHasPool
  <2> QED BY <1>3, <1>6, <2>1, <2>4
<1> QED BY <1>4, <1>5, <1>6 DEF Cancel, q

LEMMA CloserWakesPoolInv == ASSUME PoolInv, CloserWakes PROVE PoolInv'
<1> USE LedgerAssumption DEF PoolInv
<1>1. Closer \notin Range(lockq)
  BY DEF CloserWakes, LockState
<1>2. /\ lockq' \in Seq(Requests \cup {Closer}) /\ Once(lockq')
      /\ Range(lockq') = Range(lockq) \cup {Closer}
      /\ lockq # <<>> => lockq' # <<>> /\ Head(lockq') = Head(lockq)
  BY <1>1, Joins DEF CloserWakes, LedgerTypeOK, LockState
<1>3. LedgerTypeOK'
  BY <1>2 DEF CloserWakes, LedgerTypeOK, request, settings, published
<1>4. LockState'
  BY <1>2 DEF CloserWakes, LockState, Holds, request
<1>5. Users' = Users
  BY DEF CloserWakes, Users, request
<1>6. PoolState'
  BY <1>5 DEF CloserWakes, PoolState, InsideHasPool
<1> QED BY <1>3, <1>4, <1>6

\* The closer gives the lock back.
LEMMA CloserGoes ==
    ASSUME PoolInv, Holds(Closer), UNCHANGED request, lockq' = Tail(lockq), closer' = "none"
    PROVE  LockState' /\ lockq' \in Seq(Requests \cup {Closer}) /\ Users' = Users
<1> USE LedgerAssumption DEF PoolInv
<1>1. /\ lockq' \in Seq(Requests \cup {Closer}) /\ Once(lockq')
      /\ Range(lockq') = Range(lockq) \ {Closer}
  BY HolderGoes DEF LedgerTypeOK, LockState, Holds
<1>2. \A r \in Requests : hand[r] # "open" /\ r # Closer
  BY DEF LockState, Holds
<1>3. LockState'
  BY <1>1, <1>2 DEF LockState, request
<1>4. Users' = Users
  BY DEF Users, request
<1> QED BY <1>1, <1>3, <1>4

LEMMA CloserHasLockPoolInv == ASSUME PoolInv, CloserHasLock PROVE PoolInv'
<1> USE LedgerAssumption DEF PoolInv
<1>1. Users' = Users
  BY DEF CloserHasLock, Users, request
<1>2. PoolState'
  BY <1>1 DEF CloserHasLock, PoolState, InsideHasPool
<1>3. CASE refs = 0 /\ closer' = "close" /\ UNCHANGED lockq
  <2>1. \A r \in Requests : hand[r] # "open"
    BY DEF CloserHasLock, LockState
  <2>2. LockState'
    BY <1>3, <2>1 DEF CloserHasLock, LockState, Holds, request
  <2>3. LedgerTypeOK'
    BY <1>3 DEF CloserHasLock, LedgerTypeOK, request, settings, published
  <2> QED BY <1>2, <2>2, <2>3
<1>4. CASE refs > 0 /\ closer' = "none" /\ lockq' = Tail(lockq)
  <2>1. LockState' /\ lockq' \in Seq(Requests \cup {Closer})
    BY <1>4, CloserGoes DEF CloserHasLock
  <2>2. LedgerTypeOK'
    BY <1>4, <2>1 DEF CloserHasLock, LedgerTypeOK, request, settings, published
  <2> QED BY <1>2, <2>1, <2>2
<1> QED BY <1>3, <1>4 DEF CloserHasLock

LEMMA ClosePoolPoolInv == ASSUME PoolInv, ClosePool PROVE PoolInv'
<1> USE LedgerAssumption DEF PoolInv
<1>1. LockState' /\ lockq' \in Seq(Requests \cup {Closer}) /\ Users' = Users
  BY CloserGoes DEF ClosePool, LockState
<1>2. refs = 0 /\ Cardinality(Users) \in Nat /\ leaks \in Nat /\ refs = Cardinality(Users) + leaks
  BY FS_CardinalityType DEF ClosePool, PoolState, InsideHasPool, LedgerTypeOK
<1>3. Users = {}
  BY <1>2, FS_EmptySet DEF PoolState
<1>a. refs \in Nat /\ leaks \in 0..MaxLeaks /\ MaxLeaks \in Nat /\ opened \in BOOLEAN
  BY DEF LedgerTypeOK
<1>b. refs' \in Nat /\ leaks' \in 0..MaxLeaks
  BY <1>a DEF ClosePool
<1>c. opened' \in BOOLEAN
  BY <1>a DEF ClosePool
<1>4. LedgerTypeOK'
  BY <1>1, <1>b, <1>c DEF ClosePool, LedgerTypeOK, request, settings, published
<1>5. PoolState'
  BY <1>1, <1>2, <1>3 DEF ClosePool, PoolState, InsideHasPool
<1> QED BY <1>1, <1>4, <1>5

LEMMA RestartPoolInv == ASSUME PoolInv, Restart PROVE PoolInv'
<1>0. lockq' \in Seq(Requests \cup {Closer}) /\ leaks' \in 0..MaxLeaks
  BY LedgerAssumption, EmptySeq DEF Restart
<1>1. LedgerTypeOK'
  BY <1>0 DEF PoolInv, Restart, LedgerTypeOK, Things, Ended, settings, published
<1>2. lockq' = <<>> /\ Range(lockq') = {} /\ Once(lockq')
  BY DEF Restart, Once, Range
<1>3. LockState'
  BY <1>2 DEF Restart, LockState
<1>4. Users' = {}
  BY DEF Restart, Users
<1>5. PoolState'
  BY <1>4, FS_EmptySet DEF Restart, PoolState, InsideHasPool
<1> QED BY <1>1, <1>3, <1>5 DEF PoolInv

\* Operations leave the pool alone.
LEMMA OperatesPoolInv ==
    ASSUME PoolInv, NEW r \in Requests, Operates(r) \/ Fail(r)
    PROVE  PoolInv'
<1> USE DEF PoolInv, GoesTo, Running, Ended, Things, settings, published, request
<1>1. UNCHANGED <<pool, hand>>
  BY DEF Operates, Fail, Check, InWallet, Store, Submit, Recheck, Record
<1>2. LedgerTypeOK'
  <2>1. ASSUME Check(r) PROVE LedgerTypeOK'
    BY <2>1 DEF Check, LedgerTypeOK, pool, SchemaStep, CredDefStep
  <2>2. ASSUME InWallet(r) PROVE LedgerTypeOK'
    BY <2>2 DEF InWallet, LedgerTypeOK, pool
  <2>3. ASSUME Store(r) PROVE LedgerTypeOK'
    BY <2>3 DEF Store, LedgerTypeOK, pool
  <2>4. ASSUME Submit(r) PROVE LedgerTypeOK'
    BY <2>4 DEF Submit, LedgerTypeOK, pool
  <2>5. ASSUME Recheck(r) \/ Record(r) \/ Fail(r) PROVE LedgerTypeOK'
    BY <2>5 DEF Recheck, Record, Fail, LedgerTypeOK, pool
  <2> QED BY <2>1, <2>2, <2>3, <2>4, <2>5 DEF Operates
<1> QED BY <1>1, <1>2, OperationPoolInv

LEMMA NextPoolInv == PoolInv /\ [LedgerNext]_ledgerVars => PoolInv'
<1> SUFFICES ASSUME PoolInv, [LedgerNext]_ledgerVars PROVE PoolInv'
  OBVIOUS
<1>1. CASE UNCHANGED ledgerVars
  <2>1. LedgerTypeOK' /\ UNCHANGED <<pool, hand>>
    BY <1>1 DEF PoolInv, LedgerTypeOK, ledgerVars, pool, request, settings, published
  <2> QED BY <2>1, OperationPoolInv
<1>2. CASE LedgerNext
  BY <1>2, StartPoolInv, ContextOpenPoolInv, OpenPoolInv, LeavePoolInv, ContextClosePoolInv,
     CancelPoolInv, CloserWakesPoolInv, CloserHasLockPoolInv, ClosePoolPoolInv,
     RestartPoolInv, OperatesPoolInv DEF LedgerNext, Operates
<1> QED BY <1>1, <1>2

\* Every variable of the pool and of its requests keeps its type.
THEOREM LedgerTypeCorrect == LedgerSpec => []LedgerTypeOK
<1>1. PoolInv => LedgerTypeOK
  BY DEF PoolInv
<1> QED BY <1>1, InitPoolInv, NextPoolInv, PTL DEF LedgerSpec

\* Whoever is inside the pool finds it open and has a reference of its own,
\* whatever is cancelled, fails or restarts, with any number of requests.
THEOREM PoolIsOpenInside == LedgerSpec => []InsideHasPool
<1>1. PoolInv => InsideHasPool
  BY DEF PoolInv, PoolState
<1> QED BY <1>1, InitPoolInv, NextPoolInv, PTL DEF LedgerSpec

-----------------------------------------------------------------------------
\* What operations know of the ledger.

\* An operation that is about to record what it publishes has found it on the
\* ledger, or knows that another has published it, if its DID may write.
Knows ==
    \A r \in Requests :
        authorised /\ op[r] \in {"recheck", "record", "returned"} => doing[r] \in ledger

PublishedInv == LedgerTypeOK /\ Knows /\ ToldIsPublished

LEMMA InitPublishedInv == LedgerInit => PublishedInv
<1> SUFFICES ASSUME LedgerInit PROVE PublishedInv
  OBVIOUS
<1>1. LedgerTypeOK
  BY InitPoolInv DEF PoolInv
<1>2. Knows /\ ToldIsPublished
  BY DEF LedgerInit, Knows, ToldIsPublished
<1> QED BY <1>1, <1>2 DEF PublishedInv

\* What an operation does.
LEMMA OperatesPublishedInv ==
    ASSUME PublishedInv, LedgerTypeOK', NEW r \in Requests, Operates(r) \/ Fail(r)
    PROVE  PublishedInv'
<1> USE DEF PublishedInv, Knows, ToldIsPublished, GoesTo, LedgerTypeOK, settings, published
<1>1. CASE Check(r)
  BY <1>1 DEF Check, SchemaStep, CredDefStep
<1>2. CASE InWallet(r)
  BY <1>2 DEF InWallet
<1>3. CASE Store(r)
  BY <1>3 DEF Store
<1>4. CASE Submit(r)
  BY <1>4 DEF Submit
<1>5. CASE Recheck(r)
  BY <1>5 DEF Recheck
<1>6. CASE Record(r)
  BY <1>6 DEF Record
<1>7. CASE Fail(r)
  BY <1>7 DEF Fail
<1> QED BY <1>1, <1>2, <1>3, <1>4, <1>5, <1>6, <1>7 DEF Operates

\* The other steps of a request leave it where it knows no more than before.
LEMMA RequestPublishedInv ==
    ASSUME PublishedInv, LedgerTypeOK', NEW r \in Requests,
           \/ \E thing \in Things : Start(r, thing)
           \/ ContextOpen(r) \/ Open(r) \/ Leave(r) \/ ContextClose(r) \/ Cancel(r)
    PROVE  PublishedInv'
<1> USE DEF PublishedInv, Knows, ToldIsPublished, LedgerTypeOK, settings, published
<1>1. ASSUME NEW thing \in Things, Start(r, thing) PROVE PublishedInv'
  BY <1>1 DEF Start
<1>2. CASE ContextOpen(r)
  BY <1>2 DEF ContextOpen, Inside
<1>3. CASE Open(r)
  BY <1>3 DEF Open, Inside
<1>4. CASE Leave(r) \/ ContextClose(r) \/ Cancel(r)
  BY <1>4 DEF Leave, ContextClose, Cancel
<1> QED BY <1>1, <1>2, <1>3, <1>4

LEMMA NextPublishedInv ==
    PoolInv /\ PublishedInv /\ [LedgerNext]_ledgerVars => PublishedInv'
<1> SUFFICES ASSUME PoolInv, PublishedInv, [LedgerNext]_ledgerVars PROVE PublishedInv'
  OBVIOUS
<1>1. LedgerTypeOK'
  BY NextPoolInv DEF PoolInv
<1>2. CASE UNCHANGED ledgerVars \/ CloserWakes \/ CloserHasLock \/ ClosePool
  BY <1>1, <1>2 DEF PublishedInv, Knows, ToldIsPublished, ledgerVars, request, settings, published,
       CloserWakes, CloserHasLock, ClosePool
<1>3. CASE Restart
  BY <1>1, <1>3 DEF PublishedInv, Knows, ToldIsPublished, Restart, settings, published
<1>4. CASE LedgerNext
  BY <1>1, <1>2, <1>3, <1>4, RequestPublishedInv, OperatesPublishedInv DEF LedgerNext, Operates
<1> QED BY <1>2, <1>4

\* With a DID that may write, what a request is told was published and what has
\* a sent record is on the ledger, whatever fails or restarts and however many
\* requests publish the same thing.
THEOREM PublishedAsTold == LedgerSpec => []ToldIsPublished
<1>1. PublishedInv => ToldIsPublished
  BY DEF PublishedInv
<1> QED BY <1>1, InitPoolInv, NextPoolInv, InitPublishedInv, NextPublishedInv, PTL DEF LedgerSpec
==============================================================================
