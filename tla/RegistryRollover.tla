---------------------------- MODULE RegistryRollover ----------------------------
(***************************************************************************)
(* Where the revocation registries of one credential definition come from: *)
(* issue_credential takes the oldest active one, marks it full with its    *)
(* last credential, and has the next one staged in the background          *)
(* (issue_credential/v1_0/manager.py, messaging/credential_definitions/    *)
(* routes.py, revocation/indy.py, revocation/models/                       *)
(* issuer_rev_reg_record.py).                                              *)
(***************************************************************************)
EXTENDS Naturals, FiniteSets

CONSTANTS
    Issuers,    \* calls of issue_credential, one credential each
    Size,       \* max_cred_num
    Retries,    \* retries of issue_credential
    MaxRegs,    \* bound: registries that can be created
    Faults,     \* bound: background tasks that fail
    FailAt,     \* states of a registry record in which its task may fail
    Timely      \* staging takes no longer than the sleeps between two tries

States == {"none", "init", "generated", "posted", "active", "full"}

ASSUME RolloverAssumption ==
    /\ Size \in Nat \ {0} /\ Retries \in Nat /\ MaxRegs \in Nat \ {0} /\ Faults \in Nat
    /\ FailAt \subseteq States /\ Timely \in BOOLEAN

Registries == 1..MaxRegs      \* in the order of created_at

VARIABLES
    state,      \* the stored registry records
    task,       \* what creates each: the admin call, a background task
    written,    \* on the ledger: nothing, the definition, the entry too
    issued,     \* credentials the wallet has issued from each
    pc,         \* where each issue_credential is
    reg,        \* the registry it has chosen
    more,       \* registries it is about to create
    left,       \* its retries
    faults      \* tasks that have failed

rolloverVars == <<state, task, written, issued, pc, reg, more, left, faults>>

Places == {"idle", "choose", "look", "create", "last", "overfull", "init", "initNext", "sleep",
           "done", "failed"}

RolloverTypeOK ==
    /\ state \in [Registries -> States]
    /\ task \in [Registries -> {"none", "setup", "setupNext", "stage", "gone"}]
    /\ written \in [Registries -> 0..2]
    /\ issued \in [Registries -> 0..Size]
    /\ pc \in [Issuers -> Places]
    /\ reg \in [Issuers -> Registries]
    /\ more \in [Issuers -> 0..2]
    /\ left \in [Issuers -> 0..Retries]
    /\ faults \in 0..Faults

\* The credential definition is on the ledger and the record of its first
\* registry saved; or the registry is active by now, and calls before these have
\* taken some of its credentials.
RolloverInit ==
    /\ \E n \in 0..(Size - 1) :
          /\ issued = [r \in Registries |-> IF r = 1 THEN n ELSE 0]
          /\ written = [r \in Registries |-> IF r = 1 /\ n > 0 THEN 2 ELSE 0]
          /\ state = [r \in Registries |-> IF r # 1 THEN "none" ELSE IF n = 0 THEN "init" ELSE "active"]
          /\ task = [r \in Registries |-> IF r # 1 THEN "none" ELSE IF n = 0 THEN "setup" ELSE "setupNext"]
    /\ pc = [i \in Issuers |-> "idle"]
    /\ reg = [i \in Issuers |-> 1]
    /\ more = [i \in Issuers |-> 0]
    /\ left = [i \in Issuers |-> Retries]
    /\ faults = 0

-----------------------------------------------------------------------------
In(s)   == {r \in Registries : state[r] = s}
Busy(r) == task[r] \in {"setup", "stage"}

\* init_issuer_registry saves a new record, and its task starts.
NewRegistry ==
    \E r \in In("none") :
        /\ \A q \in In("none") : r <= q
        /\ state' = [state EXCEPT ![r] = "init"]
        /\ task' = [task EXCEPT ![r] = "stage"]

\* generate_registry and set_tails_file_public_uri
Generate(r) ==
    /\ Busy(r) /\ state[r] = "init"
    /\ state' = [state EXCEPT ![r] = "generated"]
    /\ UNCHANGED <<task, written, issued, pc, reg, more, left, faults>>

\* send_def: the ledger
WriteDef(r) ==
    /\ Busy(r) /\ state[r] = "generated" /\ written[r] = 0
    /\ written' = [written EXCEPT ![r] = 1]
    /\ UNCHANGED <<state, task, issued, pc, reg, more, left, faults>>

\* and the record.
SavePosted(r) ==
    /\ Busy(r) /\ state[r] = "generated" /\ written[r] = 1
    /\ state' = [state EXCEPT ![r] = "posted"]
    /\ UNCHANGED <<task, written, issued, pc, reg, more, left, faults>>

\* send_entry: the ledger
WriteEntry(r) ==
    /\ Busy(r) /\ state[r] = "posted" /\ written[r] = 1
    /\ written' = [written EXCEPT ![r] = 2]
    /\ UNCHANGED <<state, task, issued, pc, reg, more, left, faults>>

\* Mutant: the record is active before the entry is on the ledger.
SaveActiveEarly(r) ==
    /\ Busy(r) /\ state[r] = "posted"
    /\ state' = [state EXCEPT ![r] = "active"]
    /\ task' = [task EXCEPT ![r] = IF @ = "setup" THEN "setupNext" ELSE "gone"]
    /\ UNCHANGED <<written, issued, pc, reg, more, left, faults>>

\* and the record.  (What follows, the upload of the tails file, changes no
\* record.)
SaveActive(r) ==
    /\ Busy(r) /\ state[r] = "posted" /\ written[r] = 2
    /\ state' = [state EXCEPT ![r] = "active"]
    /\ task' = [task EXCEPT ![r] = IF @ = "setup" THEN "setupNext" ELSE "gone"]
    /\ UNCHANGED <<written, issued, pc, reg, more, left, faults>>

\* The admin call that created the first registry has a second one staged.
SetupNext(r) ==
    /\ task[r] = "setupNext"
    /\ \E q \in In("none") :
          /\ \A p \in In("none") : q <= p
          /\ state' = [state EXCEPT ![q] = "init"]
          /\ task' = [task EXCEPT ![q] = "stage", ![r] = "gone"]
    /\ UNCHANGED <<written, issued, pc, reg, more, left, faults>>

\* A ledger error, a restart: the task is gone, the record stays as it is.
TaskFails(r) ==
    /\ faults < Faults
    /\ task[r] \in {"setup", "setupNext", "stage"} /\ state[r] \in FailAt
    /\ task' = [task EXCEPT ![r] = "gone"]
    /\ faults' = faults + 1
    /\ UNCHANGED <<state, written, issued, pc, reg, more, left>>

-----------------------------------------------------------------------------
Goes(i, place) == pc' = [pc EXCEPT ![i] = place]
RetriesOrFails(i) == Goes(i, IF left[i] > 0 THEN "sleep" ELSE "failed")

Issue(i) ==
    /\ pc[i] = "idle"
    /\ Goes(i, "choose")
    /\ UNCHANGED <<state, task, written, issued, reg, more, left, faults>>

\* The controller tries again what has failed.
IssueAgain(i) ==
    /\ pc[i] = "failed"
    /\ Timely => \A r \in Registries : ~Busy(r)
    /\ Goes(i, "choose")
    /\ left' = [left EXCEPT ![i] = Retries]
    /\ UNCHANGED <<state, task, written, issued, reg, more, faults>>

\* get_active_issuer_rev_reg_record: the oldest one.
Choose(i) ==
    /\ pc[i] = "choose"
    /\ IF In("active") = {} THEN Goes(i, "look") /\ UNCHANGED reg
       ELSE /\ Goes(i, "create")
            /\ \E r \in In("active") :
                  /\ \A q \in In("active") : r <= q
                  /\ reg' = [reg EXCEPT ![i] = r]
    /\ UNCHANGED <<state, task, written, issued, more, left, faults>>

\* None: is there a posted one?  If not, two are created.
LookPosted(i) ==
    /\ pc[i] = "look"
    /\ IF In("posted") = {} THEN Goes(i, "initNext") /\ more' = [more EXCEPT ![i] = 2]
                            ELSE RetriesOrFails(i) /\ UNCHANGED more
    /\ UNCHANGED <<state, task, written, issued, reg, left, faults>>

\* init_issuer_registry for one of the two
InitNext(i) ==
    /\ pc[i] = "initNext"
    /\ NewRegistry
    /\ more' = [more EXCEPT ![i] = @ - 1]
    /\ IF more[i] = 1 THEN RetriesOrFails(i) ELSE UNCHANGED pc
    /\ UNCHANGED <<written, issued, reg, left, faults>>

\* rev_reg.max_creds == int(revocation_id)
IsLast(n) == n = Size

\* create_credential: the next credential of the registry, or none is left.
CreateCredential(i) ==
    /\ pc[i] = "create"
    /\ IF issued[reg[i]] < Size
       THEN /\ issued' = [issued EXCEPT ![reg[i]] = @ + 1]
            /\ Goes(i, IF IsLast(issued[reg[i]] + 1) THEN "last" ELSE "done")
       ELSE Goes(i, "overfull") /\ UNCHANGED issued
    /\ UNCHANGED <<state, task, written, reg, more, left, faults>>

\* The last one: set_state(STATE_FULL), then the next registry.
SetStateFull(i) ==
    /\ pc[i] = "last"
    /\ state' = [state EXCEPT ![reg[i]] = "full"]
    /\ Goes(i, "init")
    /\ UNCHANGED <<task, written, issued, reg, more, left, faults>>

InitOne(i) ==
    /\ pc[i] = "init"
    /\ NewRegistry
    /\ Goes(i, "done")
    /\ UNCHANGED <<written, issued, reg, more, left, faults>>

\* Mutant: the record that was full stays active.
SetOverfullNot(i) ==
    /\ pc[i] = "overfull"
    /\ RetriesOrFails(i)
    /\ UNCHANGED <<state, task, written, issued, reg, more, left, faults>>

\* None left: set_state(STATE_FULL), and another try.
SetOverfull(i) ==
    /\ pc[i] = "overfull"
    /\ state' = [state EXCEPT ![reg[i]] = "full"]
    /\ RetriesOrFails(i)
    /\ UNCHANGED <<task, written, issued, reg, more, left, faults>>

\* The sleep is over.
Wake(i) ==
    /\ pc[i] = "sleep"
    /\ Timely => \A r \in Registries : ~Busy(r)
    /\ Goes(i, "choose")
    /\ left' = [left EXCEPT ![i] = @ - 1]
    /\ UNCHANGED <<state, task, written, issued, reg, more, faults>>

\* issue_credential is cancelled, or lost in a restart, with the last
\* credential of a registry issued and nothing recorded.
IssuerFails(i) ==
    /\ faults < Faults /\ "active" \in FailAt
    /\ pc[i] \in {"last", "init"}
    /\ Goes(i, "done")
    /\ faults' = faults + 1
    /\ UNCHANGED <<state, task, written, issued, reg, more, left>>

-----------------------------------------------------------------------------
TaskSteps(r) ==
    Generate(r) \/ WriteDef(r) \/ SavePosted(r) \/ WriteEntry(r) \/ SaveActive(r) \/ SetupNext(r)

IssuerSteps(i) ==
    \/ Issue(i) \/ IssueAgain(i) \/ Choose(i) \/ LookPosted(i) \/ InitNext(i)
    \/ CreateCredential(i) \/ SetStateFull(i) \/ InitOne(i) \/ SetOverfull(i) \/ Wake(i)

RolloverNext ==
    \/ \E r \in Registries :
          \/ Generate(r) \/ WriteDef(r) \/ SavePosted(r) \/ WriteEntry(r) \/ SaveActive(r)
          \/ SetupNext(r) \/ TaskFails(r)
    \/ \E i \in Issuers :
          \/ Issue(i) \/ IssueAgain(i) \/ Choose(i) \/ LookPosted(i) \/ InitNext(i)
          \/ CreateCredential(i) \/ SetStateFull(i) \/ InitOne(i) \/ SetOverfull(i) \/ Wake(i)
          \/ IssuerFails(i)

RolloverSpec == RolloverInit /\ [][RolloverNext]_rolloverVars

\* The event loop runs every task, and the controller tries again.
RolloverFairness ==
    /\ \A r \in Registries : WF_rolloverVars(TaskSteps(r))
    /\ \A i \in Issuers : WF_rolloverVars(IssuerSteps(i))

RolloverFairSpec == RolloverSpec /\ RolloverFairness

-----------------------------------------------------------------------------
\* Properties.

\* A credential is issued only from a registry whose definition and first
\* entry are on the ledger: a holder can build the proof of non-revocation.
IssuedOnLedger == \A r \in Registries : issued[r] > 0 => written[r] = 2

\* No registry is given up with room left, and no active one is full unless the
\* call that issued its last credential is about to say so.
FullIsFull ==
    \A r \in Registries :
        /\ state[r] = "full" => issued[r] = Size
        /\ faults = 0 /\ state[r] = "active" /\ issued[r] = Size
              => \E i \in Issuers : pc[i] = "last" /\ reg[i] = r

\* Every call ends with a credential, if the controller tries again.
Served == \A i \in Issuers : pc[i] = "choose" ~> pc[i] = "done"

=============================================================================
