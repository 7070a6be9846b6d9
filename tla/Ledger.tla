--------------------------------- MODULE Ledger ---------------------------------
(***************************************************************************)
(* The ledger of ledger/indy.py: the pool that requests share, opened by   *)
(* the first and closed some time after the last, and the publication of a *)
(* schema and of a credential definition inside it.                        *)
(*                                                                         *)
(* A request is a call of the admin API.  It runs its operation shielded   *)
(* inside "async with ledger": if the client leaves, the request is        *)
(* cancelled and gives the pool back while the operation goes on.          *)
(*                                                                         *)
(* The agent and the ledger outlive requests: a request may be made again, *)
(* after it failed or after the agent was restarted.                       *)
(***************************************************************************)
EXTENDS Naturals, SequencesExt, FiniteSets

CONSTANTS
    Requests,
    Closer,         \* the task that closes the pool
    MaxLeaks        \* bound: references that are never given back

ASSUME LedgerAssumption == Closer \notin Requests /\ MaxLeaks \in Nat

VARIABLES
    lockq,          \* ref_lock: its holder and, behind it, those who wait
    opened,         \* the pool is open and has a handle
    refs,           \* ref_count
    closer,         \* close_task
    hand,           \* where the request is
    op,             \* where its operation is
    doing,          \* what the operation publishes
    gone,           \* the client has left
    leaks,          \* references never given back
    readOnly,       \* the pool is read only
    authorised,     \* the public DID may write to the ledger
    ledger,         \* what is on the ledger
    wallet,         \* the credential definition is in the wallet
    sent            \* what has a sent record

pool == <<lockq, opened, refs, closer, leaks>>
request == <<hand, op, doing, gone>>
settings == <<readOnly, authorised>>
published == <<ledger, wallet, sent>>
ledgerVars == <<pool, request, settings, published>>

Things == {"schema", "cred_def"}
Ended  == {"none", "returned", "failed"}
Running == {"check", "in_wallet", "store", "submit", "recheck", "record"}

LedgerTypeOK ==
    /\ lockq \in Seq(Requests \cup {Closer})
    /\ opened \in BOOLEAN
    /\ refs \in Nat
    /\ closer \in {"none", "sleep", "lock", "close"}
    /\ leaks \in 0..MaxLeaks
    /\ hand \in [Requests -> {"out", "lock", "open", "inside", "leave"}]
    /\ op \in [Requests -> Ended \cup Running]
    /\ doing \in [Requests -> Things]
    /\ gone \in [Requests -> BOOLEAN]
    /\ readOnly \in BOOLEAN /\ authorised \in BOOLEAN
    /\ ledger \subseteq Things /\ wallet \in BOOLEAN /\ sent \subseteq Things

LedgerInit ==
    /\ lockq = <<>> /\ opened = FALSE /\ refs = 0 /\ closer = "none" /\ leaks = 0
    /\ hand = [r \in Requests |-> "out"]
    /\ op = [r \in Requests |-> "none"]
    /\ doing = [r \in Requests |-> "schema"]
    /\ gone = [r \in Requests |-> FALSE]
    /\ readOnly \in BOOLEAN /\ authorised \in BOOLEAN
    /\ ledger = {} /\ wallet = FALSE /\ sent = {}

-----------------------------------------------------------------------------
\* The lock: first come, first served; whoever is cancelled is taken out.
\* Nobody is in the queue twice.
Holds(x) == lockq # <<>> /\ Head(lockq) = x
InLine(x) == \E i \in DOMAIN lockq : lockq[i] = x
Turn(x) == CHOOSE i \in DOMAIN lockq : lockq[i] = x
Without(x) == IF InLine(x) THEN RemoveAt(lockq, Turn(x)) ELSE lockq

-----------------------------------------------------------------------------
\* Entering and leaving the pool.

\* The admin API starts a request, which asks for the lock.
Start(r, thing) ==
    /\ hand[r] = "out" /\ op[r] \in Ended
    /\ hand' = [hand EXCEPT ![r] = "lock"]
    /\ op' = [op EXCEPT ![r] = "none"]
    /\ doing' = [doing EXCEPT ![r] = thing]
    /\ gone' = [gone EXCEPT ![r] = FALSE]
    /\ lockq' = Append(lockq, r)
    /\ UNCHANGED <<opened, refs, closer, leaks, settings, published>>

\* The rest of context_open: one more reference, and the lock given back.
Inside(r, queue) ==
    /\ refs' = refs + 1
    /\ lockq' = Tail(queue)
    /\ hand' = [hand EXCEPT ![r] = "inside"]
    /\ op' = [op EXCEPT ![r] = "check"]

\* Mutant: a pool that is open already is used without a reference.
ContextOpenUncounted(r) ==
    /\ hand[r] = "lock" /\ Holds(r)
    /\ closer' = "none"
    /\ \/ /\ opened
          /\ lockq' = Tail(Without(Closer))
          /\ hand' = [hand EXCEPT ![r] = "inside"]
          /\ op' = [op EXCEPT ![r] = "check"]
          /\ UNCHANGED refs
       \/ /\ ~opened
          /\ lockq' = Without(Closer)
          /\ hand' = [hand EXCEPT ![r] = "open"]
          /\ UNCHANGED <<op, refs>>
    /\ UNCHANGED <<opened, leaks, doing, gone, settings, published>>

\* context_open has the lock: a closer that sleeps or waits for it is cancelled,
\* and a pool that is open is used.
ContextOpen(r) ==
    /\ hand[r] = "lock" /\ Holds(r)
    /\ closer' = "none"
    /\ \/ opened /\ Inside(r, Without(Closer))
       \/ /\ ~opened
          /\ lockq' = Without(Closer)
          /\ hand' = [hand EXCEPT ![r] = "open"]
          /\ UNCHANGED <<op, refs>>
    /\ UNCHANGED <<opened, leaks, doing, gone, settings, published>>

\* open has opened the pool, or has failed.
Open(r) ==
    /\ hand[r] = "open"
    /\ \/ opened' = TRUE /\ Inside(r, lockq)
       \/ /\ hand' = [hand EXCEPT ![r] = "out"]
          /\ op' = [op EXCEPT ![r] = "failed"]
          /\ lockq' = Tail(lockq)
          /\ UNCHANGED <<opened, refs>>
    /\ UNCHANGED <<closer, leaks, doing, gone, settings, published>>

\* The operation has ended and the request leaves the pool.
Leave(r) ==
    /\ hand[r] = "inside" /\ op[r] \in Ended
    /\ hand' = [hand EXCEPT ![r] = "leave"]
    /\ lockq' = Append(lockq, r)
    /\ UNCHANGED <<opened, refs, closer, leaks, op, doing, gone, settings, published>>

\* Mutant: the pool is closed only by whoever finds the closer asleep.
ContextCloseForgets(r) ==
    /\ hand[r] = "leave" /\ Holds(r)
    /\ refs' = refs - 1
    /\ lockq' = Tail(lockq)
    /\ hand' = [hand EXCEPT ![r] = "out"]
    /\ UNCHANGED <<opened, closer, leaks, op, doing, gone, settings, published>>

\* context_close: the last one out has the pool closed after a while.
ContextClose(r) ==
    /\ hand[r] = "leave" /\ Holds(r)
    /\ refs' = refs - 1
    /\ closer' = IF refs = 1 THEN "sleep" ELSE closer
    /\ lockq' = Tail(lockq)
    /\ hand' = [hand EXCEPT ![r] = "out"]
    /\ UNCHANGED <<opened, leaks, op, doing, gone, settings, published>>

\* The client leaves and the request is cancelled: it no longer waits for the
\* lock, gives up opening, leaves the operation to itself, or, cancelled while
\* it waits to give its reference back, never does.
Cancel(r) ==
    /\ hand[r] # "out" /\ ~gone[r]
    /\ gone' = [gone EXCEPT ![r] = TRUE]
    /\ \/ /\ hand[r] \in {"lock", "open"}
          /\ hand' = [hand EXCEPT ![r] = "out"]
          /\ op' = [op EXCEPT ![r] = "failed"]
          /\ lockq' = Without(r)
          /\ UNCHANGED leaks
       \/ /\ hand[r] = "inside"
          /\ hand' = [hand EXCEPT ![r] = "leave"]
          /\ lockq' = Append(lockq, r)
          /\ UNCHANGED <<op, leaks>>
       \/ /\ hand[r] = "leave" /\ leaks < MaxLeaks
          /\ leaks' = leaks + 1
          /\ hand' = [hand EXCEPT ![r] = "out"]
          /\ lockq' = Without(r)
          /\ UNCHANGED op
    /\ UNCHANGED <<opened, refs, closer, doing, settings, published>>

-----------------------------------------------------------------------------
\* closer

CloserWakes ==
    /\ closer = "sleep"
    /\ closer' = "lock"
    /\ lockq' = Append(lockq, Closer)
    /\ UNCHANGED <<opened, refs, leaks, request, settings, published>>

\* It has the lock: it closes the pool unless it is used again.
CloserHasLock ==
    /\ closer = "lock" /\ Holds(Closer)
    /\ \/ refs = 0 /\ closer' = "close" /\ UNCHANGED lockq
       \/ refs > 0 /\ closer' = "none" /\ lockq' = Tail(lockq)
    /\ UNCHANGED <<opened, refs, leaks, request, settings, published>>

\* Mutant: the lock is kept when the pool could not be closed.
ClosePoolKeepsLock ==
    /\ closer = "close"
    /\ closer' = "none"
    /\ \/ lockq' = Tail(lockq) /\ opened' = FALSE /\ UNCHANGED <<refs, leaks>>
       \/ leaks < MaxLeaks /\ refs' = refs + 1 /\ leaks' = leaks + 1 /\ UNCHANGED <<lockq, opened>>
    /\ UNCHANGED <<request, settings, published>>

\* close: done, or failed three times; then a reference is taken for good.
ClosePool ==
    /\ closer = "close"
    /\ closer' = "none"
    /\ lockq' = Tail(lockq)
    /\ \/ opened' = FALSE /\ UNCHANGED <<refs, leaks>>
       \/ leaks < MaxLeaks /\ refs' = refs + 1 /\ leaks' = leaks + 1 /\ UNCHANGED opened
    /\ UNCHANGED <<request, settings, published>>

-----------------------------------------------------------------------------
\* Operations.  Each step of one is an await: it may fail, and if the pool has
\* been closed it does (ClosedPoolError).

GoesTo(r, step) == op' = [op EXCEPT ![r] = step]

Fail(r) ==
    /\ op[r] \in Running
    /\ GoesTo(r, "failed")
    /\ UNCHANGED <<pool, hand, doing, gone, settings, published>>

\* A schema on the ledger is returned; a missing one is sent.
SchemaStep(found) ==
    IF found THEN "returned" ELSE IF readOnly THEN "failed" ELSE "submit"

\* A credential definition on the ledger is returned if the wallet has it too.
CredDefStep(found) ==
    IF ~found THEN "in_wallet" ELSE IF wallet THEN "returned" ELSE "failed"

\* check_existing_schema, or fetch_credential_definition.
Check(r) ==
    /\ op[r] = "check" /\ opened
    /\ LET found == doing[r] \in ledger
       IN  GoesTo(r, IF doing[r] = "schema" THEN SchemaStep(found) ELSE CredDefStep(found))
    /\ UNCHANGED <<pool, hand, doing, gone, settings, published>>

\* A credential definition in the wallet and not on the ledger is an error.
InWallet(r) ==
    /\ op[r] = "in_wallet"
    /\ GoesTo(r, IF wallet THEN "failed" ELSE "store")
    /\ UNCHANGED <<pool, hand, doing, gone, settings, published>>

\* create_and_store_credential_definition fails if another request was faster;
\* only then is the pool found read only.
Store(r) ==
    /\ op[r] = "store"
    /\ GoesTo(r, IF wallet \/ readOnly THEN "failed" ELSE "submit")
    /\ wallet' = TRUE
    /\ UNCHANGED <<pool, hand, doing, gone, settings, ledger, sent>>

\* Mutant: the answer of the ledger is not looked at.
SubmitUnchecked(r) ==
    /\ op[r] = "submit" /\ opened
    /\ ledger' \in {ledger, ledger \cup {doing[r]}}
    /\ GoesTo(r, "record")
    /\ UNCHANGED <<pool, hand, doing, gone, settings, wallet, sent>>

\* _submit: written and answered, written but the answer lost, or rejected.  A
\* schema that is there already, and any write of a DID that may not write, is
\* rejected with the error the operation takes for a schema published by
\* somebody else meanwhile.
Submit(r) ==
    /\ op[r] = "submit" /\ opened
    /\ LET fresh == authorised /\ (doing[r] \notin ledger)
       IN  \/ /\ fresh /\ ledger' = ledger \cup {doing[r]}
              /\ GoesTo(r, "record") \/ GoesTo(r, "failed")
           \/ /\ ~fresh
              /\ UNCHANGED ledger
              /\ GoesTo(r, IF doing[r] = "schema" THEN "recheck" ELSE "failed")
    /\ UNCHANGED <<pool, hand, doing, gone, settings, wallet, sent>>

\* check_existing_schema once more.  Whether it finds the schema or not, the
\* operation goes on as if it had sent it.
Recheck(r) ==
    /\ op[r] = "recheck" /\ opened
    /\ GoesTo(r, "record")
    /\ UNCHANGED <<pool, hand, doing, gone, settings, published>>

\* The sent record is stored and the operation returns.
Record(r) ==
    /\ op[r] = "record"
    /\ sent' = sent \cup {doing[r]}
    /\ GoesTo(r, "returned")
    /\ UNCHANGED <<pool, hand, doing, gone, settings, ledger, wallet>>

-----------------------------------------------------------------------------
\* The agent ends and is started again: wallet and storage remain.
Restart ==
    /\ lockq' = <<>> /\ opened' = FALSE /\ refs' = 0 /\ closer' = "none" /\ leaks' = 0
    /\ hand' = [r \in Requests |-> "out"]
    /\ op' = [r \in Requests |-> "none"]
    /\ doing' = [r \in Requests |-> "schema"]
    /\ gone' = [r \in Requests |-> FALSE]
    /\ UNCHANGED <<settings, published>>

Operates(r) ==
    \/ Check(r) \/ InWallet(r) \/ Store(r) \/ Submit(r) \/ Recheck(r) \/ Record(r)

LedgerNext ==
    \/ \E r \in Requests :
          \/ \E thing \in Things : Start(r, thing)
          \/ ContextOpen(r) \/ Open(r) \/ Leave(r) \/ ContextClose(r) \/ Cancel(r)
          \/ Check(r) \/ InWallet(r) \/ Store(r) \/ Submit(r) \/ Recheck(r) \/ Record(r)
          \/ Fail(r)
    \/ CloserWakes \/ CloserHasLock \/ ClosePool \/ Restart

LedgerSpec == LedgerInit /\ [][LedgerNext]_ledgerVars

\* The event loop runs whoever has the lock, the closer's sleep is over some
\* time, and calls of the wallet and the ledger end.
LedgerFairness ==
    /\ \A r \in Requests :
          /\ WF_ledgerVars(ContextOpen(r)) /\ WF_ledgerVars(Open(r))
          /\ WF_ledgerVars(Leave(r)) /\ WF_ledgerVars(ContextClose(r))
          /\ WF_ledgerVars(Operates(r) \/ Fail(r))
    /\ WF_ledgerVars(CloserWakes) /\ WF_ledgerVars(CloserHasLock) /\ WF_ledgerVars(ClosePool)

LedgerFairSpec == LedgerSpec /\ LedgerFairness

-----------------------------------------------------------------------------
\* Properties.

Users == {r \in Requests : hand[r] \in {"inside", "leave"}}

\* Whoever is inside "async with ledger" has an open pool, whatever others and
\* the closer do, and a reference of its own; references that belong to nobody
\* are those never given back.
InsideHasPool ==
    /\ refs = Cardinality(Users) + leaks
    /\ Users # {} => opened

\* What a DID that may write is told was published is on the ledger, and so is
\* all that has a sent record.
ToldIsPublished ==
    authorised =>
        /\ sent \subseteq ledger
        /\ \A r \in Requests : op[r] = "returned" => doing[r] \in ledger

\* A pool nobody uses any more is closed, unless a reference was lost.
PoolCloses ==
    <>[](\A r \in Requests : hand[r] = "out") => <>[](opened => leaks > 0)

\* Whoever asks for the pool gets out of it again: the lock is always given on.
EveryRequestEnds == \A r \in Requests : hand[r] = "lock" ~> hand[r] = "out"
=============================================================================
