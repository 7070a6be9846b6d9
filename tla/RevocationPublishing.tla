-------------------------- MODULE RevocationPublishing --------------------------
(***************************************************************************)
(* Revocation of issued credentials: revocation/manager.py with the        *)
(* registry records of revocation/models/issuer_rev_reg_record.py.         *)
(*                                                                         *)
(* A credential is marked in the record of its registry, revoked in the    *)
(* wallet when the marks are published, and its mark is cleared once the   *)
(* delta is on the ledger.  Each operation works on copies of the records  *)
(* it reads at its start, saves whole records, and may end anywhere: a     *)
(* wallet or ledger error, a cancelled request, a restart.                 *)
(***************************************************************************)
EXTENDS Naturals, FiniteSets

CONSTANTS
    Creds,      \* issued credentials that can be revoked
    Regs,       \* their revocation registries, all active at first
    Home,       \* the registry of each
    Calls,      \* operations under way
    Settings    \* what may happen, see "setting"

AllKinds == {"mark", "revoke", "publish", "clear", "fill"}

ASSUME RevocationAssumption ==
    /\ Creds # {} /\ Home \in [Creds -> Regs]
    /\ Settings \subseteq [issued : SUBSET Creds, kinds : SUBSET AllKinds,
                            serial : BOOLEAN, failing : BOOLEAN]

VARIABLES
    setting,    \* which credentials there are, and which operations; whether they
                \* run one at a time, and fail, are cancelled or lost in a restart
    pending,    \* pending_pub of each stored registry record
    full,       \* its state: STATE_FULL, or STATE_ACTIVE
    call,       \* the operations
    revoked,    \* revoked in the wallet
    ledger,     \* revoked on the ledger
    asked,      \* somebody asked to revoke it
    marked,     \* marked as pending, and nobody asked to clear the mark
    told,       \* reported as published
    swept       \* dropped by a clear_pending_revocations that does not name their registry

vars == <<setting, pending, full, call, revoked, ledger, asked, marked, told, swept>>

Of(r) == {c \in setting.issued : Home[c] = r}
InUse == {Home[c] : c \in setting.issued}

\* A selection: the registries named, and for each the credentials, or none
\* for all of them.
Selections == UNION {[S -> SUBSET Creds] : S \in SUBSET Regs}
Everything == [r \in {} |-> {}]

Steps == {"idle", "marking", "choosing", "revoking", "sending", "clearing", "purging", "filling"}

\* What an operation holds: its copies of pending_pub and of the state, the
\* credential or selection it was called with, the registries to come, the
\* one it is at, its crids there and those left to revoke, the delta and the
\* failed_crids.
CallType ==
    [kind : AllKinds, at : Steps, pend : [Regs -> SUBSET Creds], isFull : [Regs -> BOOLEAN],
     cred : Creds, sel : Selections, todo : SUBSET Regs, reg : Regs,
     crids : SUBSET Creds, left : SUBSET Creds, delta : SUBSET Creds, failed : SUBSET Creds]

Idle ==
    LET c == CHOOSE c \in Creds : TRUE
    IN  [kind |-> "mark", at |-> "idle", pend |-> [r \in Regs |-> {}],
         isFull |-> [r \in Regs |-> FALSE], cred |-> c, sel |-> Everything,
         todo |-> {}, reg |-> Home[c], crids |-> {}, left |-> {}, delta |-> {}, failed |-> {}]

TypeOK ==
    /\ setting \in Settings
    /\ pending \in [Regs -> SUBSET Creds]
    /\ full \in [Regs -> BOOLEAN]
    /\ call \in [Calls -> CallType]
    /\ revoked \subseteq Creds
    /\ ledger \subseteq Creds
    /\ asked \subseteq Creds
    /\ marked \subseteq Creds
    /\ told \subseteq Creds
    /\ swept \subseteq Creds

Init ==
    /\ setting \in Settings
    /\ pending = [r \in Regs |-> {}]
    /\ full = [r \in Regs |-> FALSE]
    /\ call = [o \in Calls |-> Idle]
    /\ revoked = {} /\ ledger = {} /\ asked = {} /\ marked = {} /\ told = {} /\ swept = {}

-----------------------------------------------------------------------------
MayStart(o, kind) ==
    /\ kind \in setting.kinds
    /\ call[o].at = "idle"
    /\ setting.serial => \A p \in Calls : call[p].at = "idle"

\* An operation that has read the records.
Started(kind, step) == [Idle EXCEPT !.kind = kind, !.at = step, !.pend = pending, !.isFull = full]

\* save() writes the whole record, from the copy.
Save(r, pend, isFull) ==
    /\ pending' = [pending EXCEPT ![r] = pend]
    /\ full' = [full EXCEPT ![r] = isFull]

Returns(o) == call' = [call EXCEPT ![o] = Idle]

\* revoke_credential without publish reads the record
StartMark(o) ==
    /\ MayStart(o, "mark")
    /\ \E c \in setting.issued :
          /\ call' = [call EXCEPT ![o] = [Started("mark", "marking") EXCEPT !.cred = c, !.reg = Home[c]]]
          /\ asked' = asked \cup {c}
    /\ UNCHANGED <<setting, pending, full, revoked, ledger, marked, told, swept>>

\* and mark_pending saves it.
MarkPending(o) ==
    LET k == call[o] IN
    /\ k.at = "marking"
    /\ Save(k.reg, k.pend[k.reg] \cup {k.cred}, k.isFull[k.reg])
    /\ marked' = marked \cup {k.cred}
    /\ swept' = swept \ {k.cred}
    /\ Returns(o)
    /\ UNCHANGED <<setting, revoked, ledger, asked, told>>

\* revoke_credential with publish: all that is pending, and this one.
StartRevoke(o) ==
    /\ MayStart(o, "revoke")
    /\ \E c \in setting.issued :
          /\ call' = [call EXCEPT ![o] =
                        [Started("revoke", "revoking") EXCEPT
                            !.cred = c, !.reg = Home[c], !.crids = pending[Home[c]] \cup {c},
                            !.left = pending[Home[c]] \cup {c}]]
          /\ asked' = asked \cup {c}
    /\ UNCHANGED <<setting, pending, full, revoked, ledger, marked, told, swept>>

\* What publish_pending_revocations takes of a registry's marks.
Selected(sel, r, pend) ==
    IF DOMAIN sel = {} THEN pend
    ELSE IF r \notin DOMAIN sel THEN {}
    ELSE IF sel[r] = {} THEN pend ELSE pend \cap sel[r]

\* Its loop goes over the records query_by_pending found, copies of one moment.
StartPublish(o) ==
    /\ MayStart(o, "publish")
    /\ \E sel \in Selections :
          /\ \A r \in DOMAIN sel : r \in InUse /\ sel[r] \subseteq Of(r)
          /\ call' = [call EXCEPT ![o] =
                        [Started("publish", "choosing") EXCEPT
                            !.sel = sel, !.todo = {r \in Regs : Selected(sel, r, pending[r]) # {}}]]
    /\ UNCHANGED <<setting, pending, full, revoked, ledger, asked, marked, told, swept>>

NextRegistry(o) ==
    LET k == call[o] IN
    /\ k.at = "choosing"
    /\ \/ /\ k.todo = {}
          /\ Returns(o)
       \/ \E r \in k.todo :
             call' = [call EXCEPT ![o] =
                        [k EXCEPT !.at = "revoking", !.todo = k.todo \ {r}, !.reg = r,
                                  !.crids = Selected(k.sel, r, k.pend[r]),
                                  !.left = Selected(k.sel, r, k.pend[r]), !.delta = {}, !.failed = {}]]
    /\ UNCHANGED <<setting, pending, full, revoked, ledger, asked, marked, told, swept>>

\* Mutant: the deltas are not merged, the last one is sent.
RevokeInWalletUnmerged(o) ==
    LET k == call[o] IN
    /\ k.at = "revoking"
    /\ \E c \in k.left :
          \/ /\ c \notin revoked
             /\ revoked' = revoked \cup {c}
             /\ call' = [call EXCEPT ![o] = [k EXCEPT !.left = @ \ {c}, !.delta = {c}]]
          \/ /\ c \in revoked \/ setting.failing
             /\ call' = [call EXCEPT ![o] = [k EXCEPT !.left = @ \ {c}, !.failed = @ \cup {c}]]
             /\ UNCHANGED revoked
    /\ UNCHANGED <<setting, pending, full, ledger, asked, marked, told, swept>>

\* Mutant: after a refusal the loop goes on to the merge.
RevokeInWalletContinues(o) ==
    LET k == call[o] IN
    /\ k.at = "revoking"
    /\ \E c \in k.left :
          /\ revoked' = revoked \cup {c}
          /\ call' = [call EXCEPT ![o] = [k EXCEPT !.left = @ \ {c}, !.delta = @ \cup {c}]]
    /\ UNCHANGED <<setting, pending, full, ledger, asked, marked, told, swept>>

\* Mutant: a credential that was revoked before does not count as failed.
RevokeInWalletPasses(o) ==
    LET k == call[o] IN
    /\ k.at = "revoking"
    /\ \E c \in k.left :
          \/ /\ c \notin revoked
             /\ revoked' = revoked \cup {c}
             /\ call' = [call EXCEPT ![o] = [k EXCEPT !.left = @ \ {c}, !.delta = @ \cup {c}]]
          \/ /\ c \in revoked
             /\ call' = [call EXCEPT ![o] = [k EXCEPT !.left = @ \ {c}]]
             /\ UNCHANGED revoked
          \/ /\ setting.failing
             /\ call' = [call EXCEPT ![o] = [k EXCEPT !.left = @ \ {c}, !.failed = @ \cup {c}]]
             /\ UNCHANGED revoked
    /\ UNCHANGED <<setting, pending, full, ledger, asked, marked, told, swept>>

\* revoke_credentials, one credential: the wallet refuses what it has revoked
\* before, and may fail otherwise.
RevokeInWallet(o) ==
    LET k == call[o] IN
    /\ k.at = "revoking"
    /\ \E c \in k.left :
          \/ /\ c \notin revoked
             /\ revoked' = revoked \cup {c}
             /\ call' = [call EXCEPT ![o] = [k EXCEPT !.left = @ \ {c}, !.delta = @ \cup {c}]]
          \/ /\ c \in revoked \/ setting.failing
             /\ call' = [call EXCEPT ![o] = [k EXCEPT !.left = @ \ {c}, !.failed = @ \cup {c}]]
             /\ UNCHANGED revoked
    /\ UNCHANGED <<setting, pending, full, ledger, asked, marked, told, swept>>

\* Without a delta there is nothing to send: revoke_credential returns, and
\* publish_pending_revocations fails on json.loads(None).
NoDelta(o) ==
    LET k == call[o] IN
    /\ k.at = "revoking" /\ k.left = {} /\ k.delta = {}
    /\ Returns(o)
    /\ UNCHANGED <<setting, pending, full, revoked, ledger, asked, marked, told, swept>>

Send(o) ==
    LET k == call[o] IN
    /\ k.at = "revoking" /\ k.left = {} /\ k.delta # {}
    /\ call' = [call EXCEPT ![o].at = "sending"]
    /\ UNCHANGED <<setting, pending, full, revoked, ledger, asked, marked, told, swept>>

\* published: the crids that are not among the failed_crids
Published(k) == k.crids \ k.failed

\* send_entry: the ledger has written the entry; the answer may be lost (Fail).
Written(o) ==
    LET k == call[o] IN
    /\ k.at = "sending"
    /\ ledger' = ledger \cup k.delta
    /\ \/ /\ call' = [call EXCEPT ![o].at = "clearing"]
          /\ told' = IF k.kind = "publish" THEN told \cup Published(k) ELSE told
       \/ /\ setting.failing
          /\ Returns(o)
          /\ UNCHANGED told
    /\ UNCHANGED <<setting, pending, full, revoked, asked, marked, swept>>

\* Mutant: every mark goes, published or not.
StaysPendingNone(k) == {}

\* What clear_pending leaves: publish_pending_revocations names what it
\* published, revoke_credential names nothing, which clears all.
StaysPending(k) == IF k.kind = "publish" THEN k.pend[k.reg] \ Published(k) ELSE {}

ClearPublished(o) ==
    LET k == call[o] IN
    /\ k.at = "clearing"
    /\ IF k.pend[k.reg] # {} THEN Save(k.reg, StaysPending(k), k.isFull[k.reg])
                             ELSE UNCHANGED <<pending, full>>
    /\ call' = [call EXCEPT ![o].at = "choosing"]
    /\ UNCHANGED <<setting, revoked, ledger, asked, marked, told, swept>>

\* What clear_pending_revocations clears of a registry's marks: of one its map
\* does not name, all of them.
Purged(sel, r, pend) ==
    IF r \in DOMAIN sel /\ sel[r] # {} THEN pend \cap sel[r] ELSE pend

StartClear(o) ==
    /\ MayStart(o, "clear")
    /\ \E sel \in Selections :
          /\ \A r \in DOMAIN sel : r \in InUse /\ sel[r] \subseteq Of(r)
          /\ call' = [call EXCEPT ![o] =
                        [Started("clear", "purging") EXCEPT
                            !.sel = sel, !.todo = {r \in Regs : pending[r] # {}}]]
    /\ UNCHANGED <<setting, pending, full, revoked, ledger, asked, marked, told, swept>>

ClearPending(o) ==
    LET k == call[o] IN
    /\ k.at = "purging"
    /\ \/ /\ k.todo = {}
          /\ Returns(o)
          /\ UNCHANGED <<pending, full, marked, swept>>
       \/ \E r \in k.todo :
             LET gone  == Purged(k.sel, r, k.pend[r])
                 named == Selected(k.sel, r, k.pend[r]) IN
             /\ Save(r, k.pend[r] \ gone, k.isFull[r])
             /\ marked' = marked \ named
             /\ swept' = swept \cup (gone \ named)
             /\ call' = [call EXCEPT ![o].todo = @ \ {r}]
    /\ UNCHANGED <<setting, revoked, ledger, asked, told>>

\* issue_credential reads an active registry
StartFill(o) ==
    /\ MayStart(o, "fill")
    /\ \E r \in InUse :
          /\ ~full[r]
          /\ call' = [call EXCEPT ![o] = [Started("fill", "filling") EXCEPT !.reg = r]]
    /\ UNCHANGED <<setting, pending, full, revoked, ledger, asked, marked, told, swept>>

\* and finds it full: set_state.
SetFull(o) ==
    LET k == call[o] IN
    /\ k.at = "filling"
    /\ Save(k.reg, k.pend[k.reg], TRUE)
    /\ Returns(o)
    /\ UNCHANGED <<setting, revoked, ledger, asked, marked, told, swept>>

\* An error, a cancelled request, a restart: the operation is gone.
Fail(o) ==
    /\ setting.failing
    /\ call[o].at # "idle"
    /\ Returns(o)
    /\ UNCHANGED <<setting, pending, full, revoked, ledger, asked, marked, told, swept>>

-----------------------------------------------------------------------------
Starts(o) == StartMark(o) \/ StartRevoke(o) \/ StartPublish(o) \/ StartClear(o) \/ StartFill(o)

Next ==
    \E o \in Calls :
        \/ StartMark(o) \/ StartRevoke(o) \/ StartPublish(o) \/ StartClear(o) \/ StartFill(o)
        \/ MarkPending(o) \/ NextRegistry(o) \/ RevokeInWallet(o) \/ NoDelta(o) \/ Send(o)
        \/ Written(o) \/ ClearPublished(o) \/ ClearPending(o) \/ SetFull(o) \/ Fail(o)

Spec == Init /\ [][Next]_vars

-----------------------------------------------------------------------------
\* Properties.

\* Nothing is revoked, in the wallet or on the ledger, that nobody asked to
\* revoke, whatever stale copies the operations work on.
OnlyAsked == ledger \subseteq revoked /\ revoked \subseteq asked

\* What publish_pending_revocations reports as published is on the ledger, and
\* no credential is reported twice, though two operations may have taken up
\* the same marks, each from its own copies, and either may fail at any of them.
ToldIsTrue ==
    /\ told \subseteq ledger
    /\ \A o \in Calls : call[o].at = "sending" /\ call[o].kind = "publish" =>
          Published(call[o]) \cap told = {}

\* No credential is in two deltas: the ledger never gets a revocation twice.
OneDelta ==
    \A o \in Calls :
        call[o].at \in {"revoking", "sending"} =>
            /\ call[o].delta \cap ledger = {}
            /\ \A p \in Calls \ {o} :
                  call[p].at \in {"revoking", "sending"} => call[o].delta \cap call[p].delta = {}

\* Unless an operation fails, the ledger has between operations what the wallet
\* has, even if they worked on stale copies of the records.
LedgerFollows == ~setting.failing /\ (\A o \in Calls : call[o].at = "idle") => ledger = revoked

\* Nothing runs beside an operation, and nobody publishes with
\* revoke_credential, which clears what could not be published, too.
InTurn == setting.serial /\ "revoke" \notin setting.kinds

MarksKept == \A c \in marked \ swept : c \in pending[Home[c]] \/ c \in ledger

\* A mark stays until it is published or a clear_pending_revocations is asked
\* to clear it, wherever an operation fails, as long as they take turns.  Left
\* aside are the marks in "swept": by its docstring clear_pending_revocations
\* clears nothing of the registries its map does not name, but it does.
MarkStays == InTurn => MarksKept

=============================================================================
