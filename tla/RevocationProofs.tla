--------------------------- MODULE RevocationProofs ---------------------------
(***************************************************************************)
(* Proofs about revocation:                                                *)
(*   RevocationPublishing, with any number of operations at once, failing  *)
(*     anywhere, over any number of registries;                            *)
(*   RegistryRollover, with any number of issue_credential calls, of       *)
(*     registries and of failures, and registries of any size.             *)
(* The two modules share no state.                                         *)
(***************************************************************************)
EXTENDS RevocationPublishing, RegistryRollover, TLAPS

USE RevocationAssumption, RolloverAssumption

\* Whatever an operation works on was asked for, what it will send is revoked
\* in the wallet, and each credential it took up is still to come, in the delta
\* or among those that failed.
CallsAsked ==
    \A o \in Calls :
        /\ \A r \in Regs : call[o].pend[r] \subseteq asked
        /\ call[o].at = "marking" => call[o].cred \in asked
        /\ call[o].left \subseteq asked
        /\ call[o].at \in {"revoking", "sending"} =>
              /\ call[o].delta \subseteq revoked
              /\ call[o].crids \subseteq call[o].left \cup call[o].delta \cup call[o].failed
        /\ call[o].at = "sending" => call[o].left = {}

ToldOnLedger == told \subseteq ledger

RecordsAsked == \A r \in Regs : pending[r] \subseteq asked

IInv == TypeOK /\ OnlyAsked /\ ToldOnLedger /\ RecordsAsked /\ CallsAsked /\ OneDelta

\* No operation.
LEMMA IdleFacts ==
  /\ Idle \in CallType
  /\ Idle.at = "idle" /\ Idle.left = {} /\ Idle.crids = {} /\ Idle.delta = {} /\ \A r \in Regs : Idle.pend[r] = {}
<1> DEFINE c0 == CHOOSE c \in Creds : TRUE
<1>1. c0 \in Creds /\ Home[c0] \in Regs
  OBVIOUS
<1>2. Everything \in Selections
  <2>1. Everything \in [{} -> SUBSET Creds] /\ {} \in SUBSET Regs
    BY DEF Everything
  <2> QED BY <2>1 DEF Selections
<1>3. Idle = [kind |-> "mark", at |-> "idle", pend |-> [r \in Regs |-> {}],
              isFull |-> [r \in Regs |-> FALSE], cred |-> c0, sel |-> Everything,
              todo |-> {}, reg |-> Home[c0], crids |-> {}, left |-> {}, delta |-> {}, failed |-> {}]
  BY DEF Idle
<1> HIDE DEF c0
<1> QED BY <1>1, <1>2, <1>3 DEF CallType, AllKinds, Steps

\* An operation that starts has what the records hold.
LEMMA StartedFacts ==
  ASSUME TypeOK, NEW kind \in AllKinds, NEW step \in Steps
  PROVE  /\ Started(kind, step) \in CallType
         /\ Started(kind, step).at = step /\ Started(kind, step).pend = pending
         /\ Started(kind, step).left = {} /\ Started(kind, step).delta = {}
  BY IdleFacts DEF Started, TypeOK, CallType

LEMMA SelectedFacts ==
  ASSUME NEW sel, NEW r, NEW pend
  PROVE  Selected(sel, r, pend) \subseteq pend
  BY DEF Selected

\* The credentials and registries of the setting are among those there are.
LEMMA SettingFacts ==
  ASSUME TypeOK
  PROVE  setting.issued \subseteq Creds /\ InUse \subseteq Regs
<1>1. setting.issued \subseteq Creds
  BY DEF TypeOK
<1>2. InUse \subseteq Regs
  BY <1>1 DEF InUse
<1> QED BY <1>1, <1>2

LEMMA InitIInv == Init => IInv
  BY IdleFacts DEF Init, IInv, TypeOK, OnlyAsked, ToldOnLedger, RecordsAsked, CallsAsked, OneDelta

\* What an operation holds has its type.
LEMMA CallFacts ==
  ASSUME TypeOK, NEW o \in Calls
  PROVE  /\ call[o] \in CallType
         /\ call[o].pend \in [Regs -> SUBSET Creds] /\ call[o].isFull \in [Regs -> BOOLEAN]
         /\ call[o].cred \in Creds /\ call[o].reg \in Regs /\ call[o].todo \subseteq Regs
         /\ call[o].left \subseteq Creds /\ call[o].delta \subseteq Creds /\ call[o].crids \subseteq Creds /\ call[o].sel \in Selections
  BY DEF TypeOK, CallType

\* A saved record has its type, and marks that somebody asked for.
LEMMA SaveFacts ==
  ASSUME TypeOK, RecordsAsked, NEW r \in Regs, NEW pend \in SUBSET Creds, NEW isFull \in BOOLEAN,
         pend \subseteq asked, Save(r, pend, isFull)
  PROVE  /\ pending' \in [Regs -> SUBSET Creds] /\ full' \in [Regs -> BOOLEAN]
         /\ \A q \in Regs : pending'[q] \subseteq asked
<1>1. pending' \in [Regs -> SUBSET Creds]
  BY DEF Save, TypeOK
<1>2. full' \in [Regs -> BOOLEAN]
  BY Zenon DEF Save, TypeOK
<1>3. \A q \in Regs : pending'[q] \subseteq asked
  BY DEF Save, TypeOK, RecordsAsked
<1> QED BY <1>1, <1>2, <1>3

\* mark_pending
LEMMA MarkPendingStep == ASSUME IInv, NEW o \in Calls, MarkPending(o) PROVE IInv'
<1>1. \E n \in CallType : call' = [call EXCEPT ![o] = n] /\ n.at = "idle" /\ n.left = {} /\ n.delta = {} /\ \A r \in Regs : n.pend[r] = {}
  BY IdleFacts DEF MarkPending, Returns
<1>saved. /\ pending' \in [Regs -> SUBSET Creds] /\ full' \in [Regs -> BOOLEAN]
      /\ \A q \in Regs : pending'[q] \subseteq asked
  <2>1. Save(call[o].reg, (call[o].pend[call[o].reg] \cup {call[o].cred}), call[o].isFull[call[o].reg])
    BY DEF MarkPending
  <2>2. TypeOK /\ RecordsAsked /\ CallsAsked
    BY DEF IInv
  <2>3. (call[o].pend[call[o].reg] \cup {call[o].cred}) \subseteq Creds /\ (call[o].pend[call[o].reg] \cup {call[o].cred}) \subseteq asked
    BY <2>2, CallFacts DEF CallsAsked, MarkPending
  <2>4. call[o].isFull[call[o].reg] \in BOOLEAN
    BY <2>2, CallFacts
  <2>5. call[o].reg \in Regs
    BY <2>2, CallFacts
  <2> QED BY <2>1, <2>2, <2>3, <2>4, <2>5, SaveFacts
<1>2. TypeOK'
  BY <1>saved, <1>1, CallFacts DEF IInv, TypeOK, MarkPending
<1>3. OnlyAsked' /\ ToldOnLedger'
  BY <1>1 DEF IInv, TypeOK, OnlyAsked, ToldOnLedger, CallsAsked, MarkPending, Published
<1>4. RecordsAsked'
  BY <1>saved DEF IInv, TypeOK, RecordsAsked, CallsAsked, MarkPending
<1>5. CallsAsked'
  BY <1>1 DEF IInv, TypeOK, OnlyAsked, RecordsAsked, CallsAsked, MarkPending
<1>6. OneDelta'
  BY <1>1 DEF IInv, TypeOK, OnlyAsked, CallsAsked, OneDelta, MarkPending
<1> QED BY <1>2, <1>3, <1>4, <1>5, <1>6 DEF IInv

\* set_state
LEMMA SetFullStep == ASSUME IInv, NEW o \in Calls, SetFull(o) PROVE IInv'
<1>1. \E n \in CallType : call' = [call EXCEPT ![o] = n] /\ n.at = "idle" /\ n.left = {} /\ n.delta = {} /\ \A r \in Regs : n.pend[r] = {}
  BY IdleFacts DEF SetFull, Returns
<1>saved. /\ pending' \in [Regs -> SUBSET Creds] /\ full' \in [Regs -> BOOLEAN]
      /\ \A q \in Regs : pending'[q] \subseteq asked
  <2>1. Save(call[o].reg, call[o].pend[call[o].reg], TRUE)
    BY DEF SetFull
  <2>2. TypeOK /\ RecordsAsked /\ CallsAsked
    BY DEF IInv
  <2>3. call[o].pend[call[o].reg] \subseteq Creds /\ call[o].pend[call[o].reg] \subseteq asked
    BY <2>2, CallFacts DEF CallsAsked, SetFull
  <2>4. TRUE \in BOOLEAN
    BY <2>2, CallFacts
  <2>5. call[o].reg \in Regs
    BY <2>2, CallFacts
  <2> QED BY <2>1, <2>2, <2>3, <2>4, <2>5, SaveFacts
<1>2. TypeOK'
  BY <1>saved, <1>1 DEF IInv, TypeOK, SetFull
<1>3. OnlyAsked' /\ ToldOnLedger'
  BY <1>1 DEF IInv, TypeOK, OnlyAsked, ToldOnLedger, CallsAsked, SetFull, Published
<1>4. RecordsAsked'
  BY <1>saved DEF IInv, TypeOK, RecordsAsked, CallsAsked, SetFull
<1>5. CallsAsked'
  BY <1>1 DEF IInv, TypeOK, OnlyAsked, RecordsAsked, CallsAsked, SetFull
<1>6. OneDelta'
  BY <1>1 DEF IInv, TypeOK, OnlyAsked, CallsAsked, OneDelta, SetFull
<1> QED BY <1>2, <1>3, <1>4, <1>5, <1>6 DEF IInv

\* Nothing to send.
LEMMA NoDeltaStep == ASSUME IInv, NEW o \in Calls, NoDelta(o) PROVE IInv'
<1>1. \E n \in CallType : call' = [call EXCEPT ![o] = n] /\ n.at = "idle" /\ n.left = {} /\ n.delta = {} /\ \A r \in Regs : n.pend[r] = {}
  BY IdleFacts DEF NoDelta, Returns
<1>2. TypeOK'
  BY <1>1 DEF IInv, TypeOK, NoDelta
<1>3. OnlyAsked' /\ ToldOnLedger'
  BY <1>1 DEF IInv, TypeOK, OnlyAsked, ToldOnLedger, CallsAsked, NoDelta, Published
<1>4. RecordsAsked'
  BY <1>1 DEF IInv, TypeOK, RecordsAsked, CallsAsked, NoDelta, Save
<1>5. CallsAsked'
  BY <1>1 DEF IInv, TypeOK, OnlyAsked, RecordsAsked, CallsAsked, NoDelta
<1>6. OneDelta'
  BY <1>1 DEF IInv, TypeOK, OnlyAsked, CallsAsked, OneDelta, NoDelta
<1> QED BY <1>2, <1>3, <1>4, <1>5, <1>6 DEF IInv

\* An operation is gone.
LEMMA FailStep == ASSUME IInv, NEW o \in Calls, Fail(o) PROVE IInv'
<1>1. \E n \in CallType : call' = [call EXCEPT ![o] = n] /\ n.at = "idle" /\ n.left = {} /\ n.delta = {} /\ \A r \in Regs : n.pend[r] = {}
  BY IdleFacts DEF Fail, Returns
<1>2. TypeOK'
  BY <1>1 DEF IInv, TypeOK, Fail
<1>3. OnlyAsked' /\ ToldOnLedger'
  BY <1>1 DEF IInv, TypeOK, OnlyAsked, ToldOnLedger, CallsAsked, Fail, Published
<1>4. RecordsAsked'
  BY <1>1 DEF IInv, TypeOK, RecordsAsked, CallsAsked, Fail, Save
<1>5. CallsAsked'
  BY <1>1 DEF IInv, TypeOK, OnlyAsked, RecordsAsked, CallsAsked, Fail
<1>6. OneDelta'
  BY <1>1 DEF IInv, TypeOK, OnlyAsked, CallsAsked, OneDelta, Fail
<1> QED BY <1>2, <1>3, <1>4, <1>5, <1>6 DEF IInv

\* revoke_credential without publish starts
LEMMA StartMarkStep == ASSUME IInv, NEW o \in Calls, StartMark(o) PROVE IInv'
<1>1. \E n \in CallType : call' = [call EXCEPT ![o] = n] /\ n.at = "marking" /\ n.left = {} /\ n.delta = {} /\ n.pend = pending /\ n.cred \in asked'
  <2> DEFINE k == Started("mark", "marking")
  <2>1. k \in CallType /\ k.at = "marking" /\ k.pend = pending /\ k.left = {} /\ k.delta = {}
    BY StartedFacts DEF IInv, AllKinds, Steps
  <2>2. PICK c \in Creds : call' = [call EXCEPT ![o] = [k EXCEPT !.cred = c, !.reg = Home[c]]] /\ asked' = asked \cup {c}
    BY SettingFacts DEF StartMark, IInv
  <2>3. Home[c] \in Regs
    OBVIOUS
  <2> DEFINE m == [k EXCEPT !.cred = c, !.reg = Home[c]]
  <2> HIDE DEF k
  <2>4. m \in CallType
    BY <2>1, <2>2, <2>3 DEF CallType
  <2>5. m.at = "marking" /\ m.left = {} /\ m.delta = {} /\ m.pend = pending /\ m.cred \in asked'
    BY <2>1, <2>2, <2>3 DEF CallType
  <2> HIDE DEF m
  <2> QED BY <2>2, <2>4, <2>5 DEF m
<1>2. TypeOK'
  BY <1>1 DEF IInv, TypeOK, StartMark
<1>3. OnlyAsked' /\ ToldOnLedger'
  BY <1>1 DEF IInv, TypeOK, OnlyAsked, ToldOnLedger, CallsAsked, StartMark, Published
<1>4. RecordsAsked'
  BY <1>1 DEF IInv, TypeOK, RecordsAsked, CallsAsked, StartMark, Save
<1>5. CallsAsked'
  BY <1>1 DEF IInv, TypeOK, OnlyAsked, RecordsAsked, CallsAsked, StartMark
<1>6. OneDelta'
  BY <1>1 DEF IInv, TypeOK, OnlyAsked, CallsAsked, OneDelta, StartMark
<1> QED BY <1>2, <1>3, <1>4, <1>5, <1>6 DEF IInv

\* issue_credential reads a registry record
LEMMA StartFillStep == ASSUME IInv, NEW o \in Calls, StartFill(o) PROVE IInv'
<1>1. \E n \in CallType : call' = [call EXCEPT ![o] = n] /\ n.at = "filling" /\ n.left = {} /\ n.delta = {} /\ n.pend = pending
  <2> DEFINE k == Started("fill", "filling")
  <2>1. k \in CallType /\ k.at = "filling" /\ k.pend = pending /\ k.left = {} /\ k.delta = {}
    BY StartedFacts DEF IInv, AllKinds, Steps
  <2>2. PICK r \in Regs : call' = [call EXCEPT ![o] = [k EXCEPT !.reg = r]]
    BY SettingFacts DEF StartFill, IInv
  <2> DEFINE m == [k EXCEPT !.reg = r]
  <2> HIDE DEF k
  <2>4. m \in CallType
    BY <2>1, <2>2 DEF CallType
  <2>5. m.at = "filling" /\ m.left = {} /\ m.delta = {} /\ m.pend = pending
    BY <2>1, <2>2 DEF CallType
  <2> HIDE DEF m
  <2> QED BY <2>2, <2>4, <2>5 DEF m
<1>2. TypeOK'
  BY <1>1 DEF IInv, TypeOK, StartFill
<1>3. OnlyAsked' /\ ToldOnLedger'
  BY <1>1 DEF IInv, TypeOK, OnlyAsked, ToldOnLedger, CallsAsked, StartFill, Published
<1>4. RecordsAsked'
  BY <1>1 DEF IInv, TypeOK, RecordsAsked, CallsAsked, StartFill, Save
<1>5. CallsAsked'
  BY <1>1 DEF IInv, TypeOK, OnlyAsked, RecordsAsked, CallsAsked, StartFill
<1>6. OneDelta'
  BY <1>1 DEF IInv, TypeOK, OnlyAsked, CallsAsked, OneDelta, StartFill
<1> QED BY <1>2, <1>3, <1>4, <1>5, <1>6 DEF IInv

\* revoke_credential with publish starts
LEMMA StartRevokeStep == ASSUME IInv, NEW o \in Calls, StartRevoke(o) PROVE IInv'
<1>1. \E n \in CallType : call' = [call EXCEPT ![o] = n] /\ n.at = "revoking" /\ n.left \subseteq asked' /\ n.delta = {} /\ n.crids = n.left /\ n.pend = pending
  <2> DEFINE k == Started("revoke", "revoking")
  <2>1. k \in CallType /\ k.at = "revoking" /\ k.pend = pending /\ k.left = {} /\ k.delta = {}
    BY StartedFacts DEF IInv, AllKinds, Steps
  <2>2. PICK c \in Creds : call' = [call EXCEPT ![o] = [k EXCEPT !.cred = c, !.reg = Home[c], !.crids = pending[Home[c]] \cup {c}, !.left = pending[Home[c]] \cup {c}]] /\ asked' = asked \cup {c}
    BY SettingFacts DEF StartRevoke, IInv
  <2>3. /\ Home[c] \in Regs /\ pending[Home[c]] \cup {c} \in SUBSET Creds
        /\ pending[Home[c]] \cup {c} \subseteq asked \cup {c}
    BY DEF IInv, TypeOK, RecordsAsked
  <2> DEFINE m == [k EXCEPT !.cred = c, !.reg = Home[c], !.crids = pending[Home[c]] \cup {c}, !.left = pending[Home[c]] \cup {c}]
  <2> HIDE DEF k
  <2>4. m \in CallType
    BY <2>1, <2>2, <2>3 DEF CallType
  <2>5. m.at = "revoking" /\ m.left \subseteq asked' /\ m.delta = {} /\ m.crids = m.left /\ m.pend = pending
    BY <2>1, <2>2, <2>3 DEF CallType
  <2> HIDE DEF m
  <2> QED BY <2>2, <2>4, <2>5 DEF m
<1>2. TypeOK'
  BY <1>1 DEF IInv, TypeOK, StartRevoke
<1>3. OnlyAsked' /\ ToldOnLedger'
  BY <1>1 DEF IInv, TypeOK, OnlyAsked, ToldOnLedger, CallsAsked, StartRevoke, Published
<1>4. RecordsAsked'
  BY <1>1 DEF IInv, TypeOK, RecordsAsked, CallsAsked, StartRevoke, Save
<1>5. CallsAsked'
  BY <1>1 DEF IInv, TypeOK, OnlyAsked, RecordsAsked, CallsAsked, StartRevoke
<1>6. OneDelta'
  BY <1>1 DEF IInv, TypeOK, OnlyAsked, CallsAsked, OneDelta, StartRevoke
<1> QED BY <1>2, <1>3, <1>4, <1>5, <1>6 DEF IInv

\* publish_pending_revocations starts
LEMMA StartPublishStep == ASSUME IInv, NEW o \in Calls, StartPublish(o) PROVE IInv'
<1>1. \E n \in CallType : call' = [call EXCEPT ![o] = n] /\ n.at = "choosing" /\ n.left = {} /\ n.delta = {} /\ n.pend = pending
  <2> DEFINE k == Started("publish", "choosing")
  <2>1. k \in CallType /\ k.at = "choosing" /\ k.pend = pending /\ k.left = {} /\ k.delta = {}
    BY StartedFacts DEF IInv, AllKinds, Steps
  <2>2. PICK sel \in Selections : call' = [call EXCEPT ![o] = [k EXCEPT !.sel = sel, !.todo = {r \in Regs : Selected(sel, r, pending[r]) # {}}]]
    BY DEF StartPublish
  <2> DEFINE m == [k EXCEPT !.sel = sel, !.todo = {r \in Regs : Selected(sel, r, pending[r]) # {}}]
  <2> HIDE DEF k
  <2>4. m \in CallType
    BY <2>1, <2>2 DEF CallType
  <2>5. m.at = "choosing" /\ m.left = {} /\ m.delta = {} /\ m.pend = pending
    BY <2>1, <2>2 DEF CallType
  <2> HIDE DEF m
  <2> QED BY <2>2, <2>4, <2>5 DEF m
<1>2. TypeOK'
  BY <1>1 DEF IInv, TypeOK, StartPublish
<1>3. OnlyAsked' /\ ToldOnLedger'
  BY <1>1 DEF IInv, TypeOK, OnlyAsked, ToldOnLedger, CallsAsked, StartPublish, Published
<1>4. RecordsAsked'
  BY <1>1 DEF IInv, TypeOK, RecordsAsked, CallsAsked, StartPublish, Save
<1>5. CallsAsked'
  BY <1>1 DEF IInv, TypeOK, OnlyAsked, RecordsAsked, CallsAsked, StartPublish
<1>6. OneDelta'
  BY <1>1 DEF IInv, TypeOK, OnlyAsked, CallsAsked, OneDelta, StartPublish
<1> QED BY <1>2, <1>3, <1>4, <1>5, <1>6 DEF IInv

\* clear_pending_revocations starts
LEMMA StartClearStep == ASSUME IInv, NEW o \in Calls, StartClear(o) PROVE IInv'
<1>1. \E n \in CallType : call' = [call EXCEPT ![o] = n] /\ n.at = "purging" /\ n.left = {} /\ n.delta = {} /\ n.pend = pending
  <2> DEFINE k == Started("clear", "purging")
  <2>1. k \in CallType /\ k.at = "purging" /\ k.pend = pending /\ k.left = {} /\ k.delta = {}
    BY StartedFacts DEF IInv, AllKinds, Steps
  <2>2. PICK sel \in Selections : call' = [call EXCEPT ![o] = [k EXCEPT !.sel = sel, !.todo = {r \in Regs : pending[r] # {}}]]
    BY DEF StartClear
  <2> DEFINE m == [k EXCEPT !.sel = sel, !.todo = {r \in Regs : pending[r] # {}}]
  <2> HIDE DEF k
  <2>4. m \in CallType
    BY <2>1, <2>2 DEF CallType
  <2>5. m.at = "purging" /\ m.left = {} /\ m.delta = {} /\ m.pend = pending
    BY <2>1, <2>2 DEF CallType
  <2> HIDE DEF m
  <2> QED BY <2>2, <2>4, <2>5 DEF m
<1>2. TypeOK'
  BY <1>1 DEF IInv, TypeOK, StartClear
<1>3. OnlyAsked' /\ ToldOnLedger'
  BY <1>1 DEF IInv, TypeOK, OnlyAsked, ToldOnLedger, CallsAsked, StartClear, Published
<1>4. RecordsAsked'
  BY <1>1 DEF IInv, TypeOK, RecordsAsked, CallsAsked, StartClear, Save
<1>5. CallsAsked'
  BY <1>1 DEF IInv, TypeOK, OnlyAsked, RecordsAsked, CallsAsked, StartClear
<1>6. OneDelta'
  BY <1>1 DEF IInv, TypeOK, OnlyAsked, CallsAsked, OneDelta, StartClear
<1> QED BY <1>2, <1>3, <1>4, <1>5, <1>6 DEF IInv

\* publish_pending_revocations goes to the next record
LEMMA NextRegistryStep == ASSUME IInv, NEW o \in Calls, NextRegistry(o) PROVE IInv'
<1>1. \E n \in CallType : call' = [call EXCEPT ![o] = n] /\ n.delta = {} /\ n.at \in {"idle", "revoking"} /\ n.crids = n.left /\ n.left \subseteq asked /\ \A q \in Regs : n.pend[q] \subseteq asked
  <2> DEFINE k == call[o]
  <2>1. k \in CallType /\ k.pend \in [Regs -> SUBSET Creds]
    BY CallFacts DEF IInv
  <2>2. CASE Returns(o)
    BY <2>2, IdleFacts DEF Returns
  <2>3. ASSUME NEW r \in k.todo, call' = [call EXCEPT ![o] = [k EXCEPT !.at = "revoking", !.todo = k.todo \ {r}, !.reg = r, !.crids = Selected(k.sel, r, k.pend[r]), !.left = Selected(k.sel, r, k.pend[r]), !.delta = {}, !.failed = {}]]
        PROVE  \E n \in CallType : call' = [call EXCEPT ![o] = n] /\ n.delta = {} /\ n.at \in {"idle", "revoking"} /\ n.crids = n.left /\ n.left \subseteq asked /\ \A q \in Regs : n.pend[q] \subseteq asked
    <3>1. r \in Regs /\ k.todo \ {r} \in SUBSET Regs
      BY CallFacts DEF IInv
    <3>2. \A q \in Regs : k.pend[q] \subseteq asked
      BY DEF IInv, CallsAsked
    <3>3. Selected(k.sel, r, k.pend[r]) \in SUBSET Creds /\ Selected(k.sel, r, k.pend[r]) \subseteq asked
      BY <2>1, <3>1, <3>2, SelectedFacts
    <3> DEFINE lot == Selected(k.sel, r, k.pend[r])
               todo == k.todo \ {r}
               m == [k EXCEPT !.at = "revoking", !.todo = todo, !.reg = r, !.crids = lot, !.left = lot, !.delta = {}, !.failed = {}]
    <3>4. call' = [call EXCEPT ![o] = m]
      BY <2>3
    <3> HIDE DEF k, lot, todo
    <3>5. m \in CallType
      BY <2>1, <3>1, <3>3 DEF CallType, Steps, lot, todo
    <3>6. m.delta = {} /\ m.at \in {"idle", "revoking"} /\ m.crids = m.left /\ m.left \subseteq asked /\ \A q \in Regs : m.pend[q] \subseteq asked
      BY <2>1, <3>2, <3>3 DEF CallType, lot
    <3> HIDE DEF m
    <3> QED BY <3>4, <3>5, <3>6
  <2> QED BY <2>2, <2>3 DEF NextRegistry
<1>2. TypeOK'
  BY <1>1 DEF IInv, TypeOK, NextRegistry
<1>3. OnlyAsked' /\ ToldOnLedger'
  BY <1>1 DEF IInv, TypeOK, OnlyAsked, ToldOnLedger, CallsAsked, NextRegistry, Published
<1>4. RecordsAsked'
  BY <1>1 DEF IInv, TypeOK, RecordsAsked, CallsAsked, NextRegistry, Save
<1>5. CallsAsked'
  <2>1. PICK n \in CallType :
           /\ call' = [call EXCEPT ![o] = n] /\ n.delta = {} /\ n.at \in {"idle", "revoking"}
           /\ n.crids = n.left /\ n.left \subseteq asked /\ \A q \in Regs : n.pend[q] \subseteq asked
    BY <1>1
  <2>2. \A p \in Calls : call'[p] = IF p = o THEN n ELSE call[p]
    BY <2>1 DEF IInv, TypeOK
  <2>3. asked' = asked /\ revoked' = revoked
    BY DEF NextRegistry
  <2> QED BY <2>1, <2>2, <2>3 DEF IInv, CallsAsked
<1>6. OneDelta'
  <2>1. PICK n \in CallType : call' = [call EXCEPT ![o] = n] /\ n.at \in {"idle", "revoking"} /\ n.delta = {}
    BY <1>1
  <2>2. \A p \in Calls : call'[p] = IF p = o THEN n ELSE call[p]
    BY <2>1 DEF IInv, TypeOK
  <2>3. UNCHANGED <<setting, revoked, ledger>>
    BY DEF NextRegistry
  <2> QED BY <2>1, <2>2, <2>3 DEF IInv, OneDelta
<1> QED BY <1>2, <1>3, <1>4, <1>5, <1>6 DEF IInv

\* The delta is complete.
LEMMA SendStep == ASSUME IInv, NEW o \in Calls, Send(o) PROVE IInv'
<1>1. \E n \in CallType : call' = [call EXCEPT ![o] = n] /\ n.at = "sending" /\ n.pend = call[o].pend /\ n.left = call[o].left /\ n.delta = call[o].delta
  <2> DEFINE k == call[o]
  <2>1. k \in CallType /\ k.pend \in [Regs -> SUBSET Creds]
    BY CallFacts DEF IInv
  <2> DEFINE m == [k EXCEPT !.at = "sending"]
  <2>2. call' = [call EXCEPT ![o] = m]
    BY DEF Send
  <2>3. k.left \subseteq Creds /\ k.todo \subseteq Regs
    BY CallFacts DEF IInv
  <2> HIDE DEF k
  <2>4. m \in CallType
    BY <2>1, <2>3 DEF CallType, Steps
  <2>5. m.at = "sending" /\ m.pend = k.pend /\ m.left = k.left /\ m.delta = k.delta
    BY <2>1 DEF CallType
  <2> HIDE DEF m
  <2> QED BY <2>2, <2>4, <2>5 DEF k
<1>2. TypeOK'
  BY <1>1 DEF IInv, TypeOK, Send
<1>3. OnlyAsked' /\ ToldOnLedger'
  BY <1>1 DEF IInv, TypeOK, OnlyAsked, ToldOnLedger, CallsAsked, Send, Published
<1>4. RecordsAsked'
  BY <1>1 DEF IInv, TypeOK, RecordsAsked, CallsAsked, Send, Save
<1>5. CallsAsked'
  BY <1>1 DEF IInv, TypeOK, OnlyAsked, RecordsAsked, CallsAsked, Send
<1>6. OneDelta'
  BY <1>1 DEF IInv, TypeOK, OnlyAsked, CallsAsked, OneDelta, Send
<1> QED BY <1>2, <1>3, <1>4, <1>5, <1>6 DEF IInv

\* clear_pending after a publication
LEMMA ClearPublishedStep == ASSUME IInv, NEW o \in Calls, ClearPublished(o) PROVE IInv'
<1>1. \E n \in CallType : call' = [call EXCEPT ![o] = n] /\ n.at = "choosing" /\ n.pend = call[o].pend /\ n.left = call[o].left
  <2> DEFINE k == call[o]
  <2>1. k \in CallType /\ k.pend \in [Regs -> SUBSET Creds]
    BY CallFacts DEF IInv
  <2> DEFINE m == [k EXCEPT !.at = "choosing"]
  <2>2. call' = [call EXCEPT ![o] = m]
    BY DEF ClearPublished
  <2>3. k.left \subseteq Creds /\ k.todo \subseteq Regs
    BY CallFacts DEF IInv
  <2> HIDE DEF k
  <2>4. m \in CallType
    BY <2>1, <2>3 DEF CallType, Steps
  <2>5. m.at = "choosing" /\ m.pend = k.pend /\ m.left = k.left
    BY <2>1 DEF CallType
  <2> HIDE DEF m
  <2> QED BY <2>2, <2>4, <2>5 DEF k
<1>saved. /\ pending' \in [Regs -> SUBSET Creds] /\ full' \in [Regs -> BOOLEAN]
      /\ \A q \in Regs : pending'[q] \subseteq asked
  <2>1. TypeOK /\ RecordsAsked /\ CallsAsked
    BY DEF IInv
  <2>2. CASE UNCHANGED <<pending, full>>
    BY <2>1, <2>2 DEF TypeOK, RecordsAsked
  <2>3. CASE Save(call[o].reg, StaysPending(call[o]), call[o].isFull[call[o].reg])
    <3>1. StaysPending(call[o]) \subseteq Creds /\ StaysPending(call[o]) \subseteq asked
      BY <2>1, CallFacts DEF StaysPending, CallsAsked
    <3>2. call[o].isFull[call[o].reg] \in BOOLEAN
      BY <2>1, CallFacts
    <3>3. call[o].reg \in Regs
      BY <2>1, CallFacts
    <3> QED BY <2>1, <2>3, <3>1, <3>2, <3>3, SaveFacts
  <2> QED BY <2>2, <2>3 DEF ClearPublished
<1>2. TypeOK'
  BY <1>saved, <1>1 DEF IInv, TypeOK, ClearPublished
<1>3. OnlyAsked' /\ ToldOnLedger'
  BY <1>1 DEF IInv, TypeOK, OnlyAsked, ToldOnLedger, CallsAsked, ClearPublished, Published
<1>4. RecordsAsked'
  BY <1>saved DEF IInv, TypeOK, RecordsAsked, CallsAsked, ClearPublished
<1>5. CallsAsked'
  BY <1>1 DEF IInv, TypeOK, OnlyAsked, RecordsAsked, CallsAsked, ClearPublished
<1>6. OneDelta'
  BY <1>1 DEF IInv, TypeOK, OnlyAsked, CallsAsked, OneDelta, ClearPublished
<1> QED BY <1>2, <1>3, <1>4, <1>5, <1>6 DEF IInv

\* clear_pending_revocations
LEMMA ClearPendingStep == ASSUME IInv, NEW o \in Calls, ClearPending(o) PROVE IInv'
<1>1. \E n \in CallType : call' = [call EXCEPT ![o] = n] /\ n.at \in {"idle", "purging"} /\ n.left \subseteq asked /\ \A q \in Regs : n.pend[q] \subseteq asked
  <2> DEFINE k == call[o]
  <2>1. k \in CallType /\ k.pend \in [Regs -> SUBSET Creds]
    BY CallFacts DEF IInv
  <2>2. CASE Returns(o)
    BY <2>2, IdleFacts DEF Returns
  <2>3. ASSUME NEW r \in k.todo, call' = [call EXCEPT ![o].todo = @ \ {r}]
        PROVE  \E n \in CallType : call' = [call EXCEPT ![o] = n] /\ n.at \in {"idle", "purging"} /\ n.left \subseteq asked /\ \A q \in Regs : n.pend[q] \subseteq asked
    <3> DEFINE m == [k EXCEPT !.todo = @ \ {r}]
    <3>1. call' = [call EXCEPT ![o] = m]
      BY <2>3
    <3>2. k.at = "purging" /\ k.left \subseteq asked /\ \A q \in Regs : k.pend[q] \subseteq asked
      BY DEF IInv, CallsAsked, ClearPending
    <3> HIDE DEF k
    <3>3. m \in CallType /\ m.at \in {"idle", "purging"} /\ m.left \subseteq asked /\ \A q \in Regs : m.pend[q] \subseteq asked
      BY <2>1, <3>2 DEF CallType
    <3> HIDE DEF m
    <3> QED BY <3>1, <3>3
  <2> QED BY <2>2, <2>3 DEF ClearPending
<1>saved. /\ pending' \in [Regs -> SUBSET Creds] /\ full' \in [Regs -> BOOLEAN]
      /\ \A q \in Regs : pending'[q] \subseteq asked
  <2>1. TypeOK /\ RecordsAsked /\ CallsAsked
    BY DEF IInv
  <2>2. CASE UNCHANGED <<pending, full, marked, swept>>
    BY <2>1, <2>2 DEF TypeOK, RecordsAsked
  <2>3. ASSUME NEW r \in Regs, NEW gone,
               Save(r, call[o].pend[r] \ gone, call[o].isFull[r])
        PROVE  /\ pending' \in [Regs -> SUBSET Creds] /\ full' \in [Regs -> BOOLEAN]
               /\ \A q \in Regs : pending'[q] \subseteq asked
    <3>1. call[o].pend[r] \ gone \in SUBSET Creds /\ call[o].pend[r] \ gone \subseteq asked
      BY <2>1, CallFacts DEF CallsAsked
    <3>2. call[o].isFull[r] \in BOOLEAN
      BY <2>1, CallFacts
    <3> QED BY <2>1, <2>3, <3>1, <3>2, SaveFacts
  <2>4. \/ UNCHANGED <<pending, full, marked, swept>>
        \/ \E r \in call[o].todo, gone \in SUBSET Creds : Save(r, call[o].pend[r] \ gone, call[o].isFull[r])
    <3>1. \A r \in call[o].todo : Purged(call[o].sel, r, call[o].pend[r]) \subseteq Creds
      BY <2>1, CallFacts DEF Purged
    <3> QED BY <3>1 DEF ClearPending
  <2> QED BY <2>1, <2>2, <2>3, <2>4, CallFacts
<1>2. TypeOK'
  <2>1. UNCHANGED <<setting, revoked, ledger, asked, told>>
    BY DEF ClearPending
  <2>2. marked' \subseteq Creds /\ swept' \subseteq Creds
    <3>1. \A r \in call[o].todo : Purged(call[o].sel, r, call[o].pend[r]) \subseteq Creds
      BY CallFacts DEF IInv, Purged
    <3> QED BY <3>1 DEF IInv, TypeOK, ClearPending
  <2> QED BY <1>saved, <1>1, <2>1, <2>2 DEF IInv, TypeOK
<1>3. OnlyAsked' /\ ToldOnLedger'
  BY <1>1 DEF IInv, TypeOK, OnlyAsked, ToldOnLedger, CallsAsked, ClearPending, Published
<1>4. RecordsAsked'
  BY <1>saved DEF IInv, TypeOK, RecordsAsked, CallsAsked, ClearPending
<1>5. CallsAsked'
  BY <1>1 DEF IInv, TypeOK, OnlyAsked, RecordsAsked, CallsAsked, ClearPending
<1>6. OneDelta'
  BY <1>1 DEF IInv, TypeOK, OnlyAsked, CallsAsked, OneDelta, ClearPending
<1> QED BY <1>2, <1>3, <1>4, <1>5, <1>6 DEF IInv

\* revoke_credentials, one credential
LEMMA RevokeInWalletStep == ASSUME IInv, NEW o \in Calls, RevokeInWallet(o) PROVE IInv'
<1> DEFINE k == call[o]
<1>1. PICK c \in k.left :
        \/ /\ c \notin revoked /\ revoked' = revoked \cup {c}
           /\ call' = [call EXCEPT ![o] = [k EXCEPT !.left = @ \ {c}, !.delta = @ \cup {c}]]
        \/ /\ call' = [call EXCEPT ![o] = [k EXCEPT !.left = @ \ {c}, !.failed = @ \cup {c}]]
           /\ UNCHANGED revoked
  BY DEF RevokeInWallet
<1>2. k \in CallType /\ c \in Creds
  BY CallFacts DEF IInv
<1>3. \E n \in CallType :
        /\ call' = [call EXCEPT ![o] = n]
        /\ n.at = "revoking" /\ n.pend = k.pend /\ n.left \subseteq k.left
        /\ k.left \cup k.delta \cup k.failed = n.left \cup n.delta \cup n.failed /\ n.crids = k.crids
        /\ \/ n.delta = k.delta /\ revoked' = revoked
           \/ n.delta = k.delta \cup {c} /\ c \notin revoked /\ revoked' = revoked \cup {c}
  <2> DEFINE good == [k EXCEPT !.left = @ \ {c}, !.delta = @ \cup {c}]
             bad == [k EXCEPT !.left = @ \ {c}, !.failed = @ \cup {c}]
  <2>1. k.at = "revoking"
    BY DEF RevokeInWallet
  <2>2. call' = [call EXCEPT ![o] = good] \/ call' = [call EXCEPT ![o] = bad]
    BY <1>1
  <2> HIDE DEF k
  <2>3. good \in CallType /\ good.at = "revoking" /\ good.pend = k.pend
        /\ good.left = k.left \ {c} /\ good.delta = k.delta \cup {c}
        /\ good.failed = k.failed /\ good.crids = k.crids
    BY <1>2, <2>1 DEF CallType
  <2>4. bad \in CallType /\ bad.at = "revoking" /\ bad.pend = k.pend
        /\ bad.left = k.left \ {c} /\ bad.delta = k.delta
        /\ bad.failed = k.failed \cup {c} /\ bad.crids = k.crids
    BY <1>2, <2>1 DEF CallType
  <2>5. /\ k.left \cup k.delta \cup k.failed = good.left \cup good.delta \cup good.failed
        /\ k.left \cup k.delta \cup k.failed = bad.left \cup bad.delta \cup bad.failed
    BY <2>3, <2>4, c \in k.left
  <2>6. \/ (call' = [call EXCEPT ![o] = good] /\ c \notin revoked /\ revoked' = revoked \cup {c})
        \/ (call' = [call EXCEPT ![o] = bad] /\ revoked' = revoked)
    BY <1>1 DEF k
  <2> HIDE DEF good, bad
  <2> QED BY <2>3, <2>4, <2>5, <2>6
<1>4. UNCHANGED <<setting, pending, full, ledger, asked, marked, told, swept>> /\ k.at = "revoking"
  BY DEF RevokeInWallet
<1>5. TypeOK'
  BY <1>1, <1>2, <1>3, <1>4 DEF IInv, TypeOK
<1>6. OnlyAsked' /\ ToldOnLedger' /\ RecordsAsked'
  BY <1>1, <1>4 DEF IInv, OnlyAsked, ToldOnLedger, RecordsAsked, CallsAsked
<1>7. CallsAsked'
  BY <1>3, <1>4 DEF IInv, TypeOK, CallsAsked
<1>8. OneDelta'
  BY <1>3, <1>4 DEF IInv, TypeOK, OnlyAsked, CallsAsked, OneDelta
<1> QED BY <1>5, <1>6, <1>7, <1>8 DEF IInv

\* The ledger has written the entry.
LEMMA WrittenStep == ASSUME IInv, NEW o \in Calls, Written(o) PROVE IInv'
<1> DEFINE k == call[o]
<1>1. k \in CallType /\ k.at = "sending"
  BY CallFacts DEF IInv, Written
<1>2. \E n \in CallType :
        /\ call' = [call EXCEPT ![o] = n]
        /\ n.at \in {"idle", "clearing"} /\ n.left \subseteq k.left
        /\ \A r \in Regs : n.pend[r] \subseteq k.pend[r]
  <2> DEFINE m == [k EXCEPT !.at = "clearing"]
  <2>1. call' = [call EXCEPT ![o] = m] \/ Returns(o)
    BY DEF Written
  <2> HIDE DEF k
  <2>2. m \in CallType /\ m.at = "clearing" /\ m.left = k.left /\ m.pend = k.pend
    BY <1>1 DEF CallType, Steps
  <2> HIDE DEF m
  <2> QED BY <2>1, <2>2, IdleFacts DEF Returns
<1>3. /\ ledger' = ledger \cup k.delta /\ told' \subseteq told \cup k.delta
      /\ UNCHANGED <<setting, pending, full, revoked, asked, marked, swept>>
  BY <1>1 DEF IInv, CallsAsked, Written, Published
<1>4. k.delta \subseteq revoked
  BY <1>1 DEF IInv, CallsAsked
<1>5. TypeOK'
  BY <1>2, <1>3, <1>4 DEF IInv, TypeOK
<1>6. OnlyAsked' /\ ToldOnLedger' /\ RecordsAsked'
  BY <1>3, <1>4 DEF IInv, OnlyAsked, ToldOnLedger, RecordsAsked
<1>7. CallsAsked'
  BY <1>2, <1>3 DEF IInv, TypeOK, CallsAsked
<1>8. OneDelta'
  BY <1>1, <1>2, <1>3 DEF IInv, TypeOK, OneDelta
<1> QED BY <1>5, <1>6, <1>7, <1>8 DEF IInv

\* Every step keeps the invariant.
LEMMA NextIInv == IInv /\ [Next]_vars => IInv'
<1> SUFFICES ASSUME IInv, [Next]_vars PROVE IInv'
  OBVIOUS
<1>1. CASE UNCHANGED vars
  BY <1>1 DEF vars, IInv, TypeOK, OnlyAsked, ToldOnLedger, RecordsAsked, CallsAsked, OneDelta
<1> QED BY <1>1, StartMarkStep, StartRevokeStep, StartPublishStep, StartClearStep, StartFillStep,
           MarkPendingStep, NextRegistryStep, RevokeInWalletStep, NoDeltaStep, SendStep,
           WrittenStep, ClearPublishedStep, ClearPendingStep, SetFullStep, FailStep DEF Next

\* The inductive invariant holds in every reachable state.
THEOREM Invariance == Spec => []IInv
<1> QED BY InitIInv, NextIInv, PTL DEF Spec

\* Nothing is revoked that nobody asked to revoke.
THEOREM RevokedOnRequest == Spec => []OnlyAsked
<1> QED BY Invariance, PTL DEF IInv

\* What publish_pending_revocations reports as published is on the ledger, and
\* reported once: its crids that did not fail are those of its delta, which no
\* other operation has sent.
THEOREM ReportedIsPublished == Spec => []ToldIsTrue
<1>1. IInv => ToldIsTrue
  <2> SUFFICES ASSUME IInv, NEW o \in Calls, call[o].at = "sending"
               PROVE  Published(call[o]) \cap told = {}
    BY DEF IInv, ToldOnLedger, ToldIsTrue
  <2>1. Published(call[o]) \subseteq call[o].delta
    BY DEF IInv, CallsAsked, Published
  <2>2. call[o].delta \cap ledger = {} /\ told \subseteq ledger
    BY DEF IInv, OneDelta, ToldOnLedger
  <2> QED BY <2>1, <2>2
<1> QED BY <1>1, Invariance, PTL

\* No revocation is in two deltas.
THEOREM PublishedOnce == Spec => []OneDelta
<1> QED BY Invariance, PTL DEF IInv

\* Where nothing fails, what is revoked in the wallet is on the ledger or in the
\* delta of an operation that will send it.
UnderWay(o) == call[o].at \in {"revoking", "sending"}
DeltasCover ==
    ~setting.failing =>
        \A c \in revoked : c \in ledger \/ \E o \in Calls : UnderWay(o) /\ c \in call[o].delta

LInv == IInv /\ DeltasCover

\* The setting never changes.
LEMMA SettingStays == [Next]_vars => setting' = setting
  BY DEF Next, vars, StartMark, StartRevoke, StartPublish, StartClear, StartFill, MarkPending,
         NextRegistry, RevokeInWallet, NoDelta, Send, Written, ClearPublished, ClearPending, SetFull, Fail

\* A step that loses nothing of its delta before the ledger has it.
LEMMA KeepsDelta ==
  ASSUME LInv, NEW o \in Calls, NEW n, call' = [call EXCEPT ![o] = n],
         UNCHANGED setting, ledger \subseteq ledger',
         \A c \in revoked' : c \in revoked \/ (n.at \in {"revoking", "sending"} /\ c \in n.delta),
         UnderWay(o) => \A c \in call[o].delta :
             c \in ledger' \/ (n.at \in {"revoking", "sending"} /\ c \in n.delta)
  PROVE  DeltasCover'
<1> SUFFICES ASSUME ~setting.failing, NEW c \in revoked'
             PROVE  c \in ledger' \/ \E p \in Calls : UnderWay(p)' /\ c \in call'[p].delta
  BY DEF DeltasCover
<1>1. call'[o] = n /\ \A p \in Calls \ {o} : call'[p] = call[p]
  BY DEF LInv, IInv, TypeOK
<1>2. CASE c \in revoked
  <2>1. c \in ledger \/ \E p \in Calls : UnderWay(p) /\ c \in call[p].delta
    BY <1>2 DEF LInv, DeltasCover
  <2> QED BY <2>1, <1>1 DEF UnderWay
<1>3. CASE c \notin revoked
  BY <1>1, <1>3 DEF UnderWay
<1> QED BY <1>2, <1>3

\* An operation that starts has no delta yet.
LEMMA StartsKeep ==
  ASSUME LInv, NEW o \in Calls,
         StartMark(o) \/ StartRevoke(o) \/ StartPublish(o) \/ StartClear(o) \/ StartFill(o)
  PROVE  DeltasCover'
<1>1. PICK n : call' = [call EXCEPT ![o] = n]
  BY DEF StartMark, StartRevoke, StartPublish, StartClear, StartFill
<1>2. ~UnderWay(o) /\ UNCHANGED <<setting, revoked, ledger>>
  BY DEF UnderWay, MayStart, StartMark, StartRevoke, StartPublish, StartClear, StartFill
<1> QED BY <1>1, <1>2, KeepsDelta

\* Nor has one that saves, clears or returns without a delta.
LEMMA OthersKeep ==
  ASSUME LInv, NEW o \in Calls,
         MarkPending(o) \/ NoDelta(o) \/ ClearPublished(o) \/ ClearPending(o) \/ SetFull(o) \/ NextRegistry(o)
  PROVE  DeltasCover'
<1>1. PICK n : call' = [call EXCEPT ![o] = n]
  BY DEF MarkPending, NoDelta, ClearPublished, ClearPending, SetFull, NextRegistry, Returns
<1>2. UNCHANGED <<setting, revoked, ledger>> /\ (UnderWay(o) => call[o].delta = {})
  BY DEF UnderWay, MarkPending, NoDelta, ClearPublished, ClearPending, SetFull, NextRegistry
<1> QED BY <1>1, <1>2, KeepsDelta

\* What the wallet revokes joins the delta.
LEMMA RevokeInWalletKeeps == ASSUME LInv, NEW o \in Calls, RevokeInWallet(o) PROVE DeltasCover'
<1> DEFINE k == call[o]
<1>1. k \in CallType /\ k.at = "revoking" /\ UNCHANGED <<setting, ledger>>
  BY CallFacts DEF LInv, IInv, RevokeInWallet
<1>2. PICK c : \/ /\ revoked' = revoked \cup {c}
                  /\ call' = [call EXCEPT ![o] = [k EXCEPT !.left = @ \ {c}, !.delta = @ \cup {c}]]
               \/ /\ revoked' = revoked
                  /\ call' = [call EXCEPT ![o] = [k EXCEPT !.left = @ \ {c}, !.failed = @ \cup {c}]]
  BY DEF RevokeInWallet
<1> DEFINE good == [k EXCEPT !.left = @ \ {c}, !.delta = @ \cup {c}]
           bad == [k EXCEPT !.left = @ \ {c}, !.failed = @ \cup {c}]
<1>3. \/ revoked' = revoked \cup {c} /\ call' = [call EXCEPT ![o] = good]
      \/ revoked' = revoked /\ call' = [call EXCEPT ![o] = bad]
  BY <1>2
<1> HIDE DEF k
<1>4. good.at = "revoking" /\ good.delta = k.delta \cup {c}
  BY <1>1 DEF CallType
<1>5. bad.at = "revoking" /\ bad.delta = k.delta
  BY <1>1 DEF CallType
<1> HIDE DEF good, bad
<1>6. CASE revoked' = revoked \cup {c} /\ call' = [call EXCEPT ![o] = good]
  BY <1>1, <1>4, <1>6, KeepsDelta DEF k
<1>7. CASE revoked' = revoked /\ call' = [call EXCEPT ![o] = bad]
  BY <1>1, <1>5, <1>7, KeepsDelta DEF k
<1> QED BY <1>3, <1>6, <1>7

LEMMA SendKeeps == ASSUME LInv, NEW o \in Calls, Send(o) PROVE DeltasCover'
<1> DEFINE k == call[o]
           m == [k EXCEPT !.at = "sending"]
<1>1. k \in CallType /\ call' = [call EXCEPT ![o] = m] /\ UNCHANGED <<setting, revoked, ledger>>
  BY CallFacts DEF LInv, IInv, Send
<1> HIDE DEF k
<1>2. m.at = "sending" /\ m.delta = k.delta
  BY <1>1 DEF CallType
<1> HIDE DEF m
<1> QED BY <1>1, <1>2, KeepsDelta DEF k

\* The ledger takes the whole delta.
LEMMA WrittenKeeps == ASSUME LInv, NEW o \in Calls, Written(o) PROVE DeltasCover'
<1>1. PICK n : call' = [call EXCEPT ![o] = n]
  BY DEF Written, Returns
<1>2. UNCHANGED <<setting, revoked>> /\ ledger' = ledger \cup call[o].delta
  BY DEF Written
<1> QED BY <1>1, <1>2, KeepsDelta

LEMMA NextLInv == LInv /\ [Next]_vars => LInv'
<1> SUFFICES ASSUME LInv, [Next]_vars PROVE DeltasCover'
  BY NextIInv DEF LInv
<1>1. CASE UNCHANGED vars
  BY <1>1 DEF vars, LInv, DeltasCover, UnderWay
<1>2. ASSUME NEW o \in Calls, Fail(o) PROVE DeltasCover'
  BY <1>2, SettingStays DEF Fail, DeltasCover
<1> QED BY <1>1, <1>2, StartsKeep, OthersKeep, RevokeInWalletKeeps, SendKeeps, WrittenKeeps DEF Next

\* Between operations, if none fails, the ledger has what the wallet has.
THEOREM LedgerKeepsUp == Spec => []LedgerFollows
<1>1. Init => LInv
  BY InitIInv DEF LInv, DeltasCover, Init
<1>2. LInv => LedgerFollows
  BY DEF LInv, IInv, OnlyAsked, DeltasCover, UnderWay, LedgerFollows
<1> QED BY <1>1, <1>2, NextLInv, PTL DEF Spec

\* One operation at a time.
\* Then an operation's copies are what the records hold, as far as it still
\* saves them, and no mark is lost, whatever fails: provided nobody publishes
\* with revoke_credential, which clears what could not be published, too.
Own(o) ==
    /\ call[o].at = "idle" => call[o].todo = {}
    /\ call[o].at \in {"marking", "filling"} => call[o].pend[call[o].reg] = pending[call[o].reg]
    /\ call[o].at = "marking" => call[o].reg = Home[call[o].cred]
    /\ \A r \in call[o].todo : call[o].pend[r] = pending[r]
    /\ call[o].at \in {"revoking", "sending", "clearing"} =>
          call[o].pend[call[o].reg] = pending[call[o].reg] /\ call[o].reg \notin call[o].todo
    /\ call[o].at \in {"choosing", "revoking", "sending", "clearing"} => call[o].kind = "publish"
    /\ call[o].at = "clearing" => Published(call[o]) \subseteq ledger

Synced ==
    /\ \A o, p \in Calls : call[o].at # "idle" /\ call[p].at # "idle" => o = p
    /\ \A o \in Calls : Own(o)

SInv == IInv /\ Synced /\ MarksKept

LEMMA IdleTodo == Idle.todo = {}
  BY DEF Idle

LEMMA InitSInv == Init => SInv
  BY InitIInv, IdleFacts, IdleTodo DEF Init, SInv, Synced, Own, MarksKept

\* Only one operation moves, so it is the one to look at.
LEMMA OneMoves ==
  ASSUME TypeOK, Synced, NEW o \in Calls, NEW n, call' = [call EXCEPT ![o] = n],
         call[o].at # "idle" \/ \A p \in Calls : call[p].at = "idle", Own(o)'
  PROVE  Synced'
<1>1. \A p \in Calls \ {o} : call'[p] = call[p] /\ call[p].at = "idle"
  BY DEF TypeOK, Synced
<1>2. \A p \in Calls \ {o} : Own(p)'
  BY <1>1 DEF Synced, Own
<1> QED BY <1>1, <1>2 DEF Synced

\* An operation that returns leaves nothing to look at.
LEMMA ReturnsSynced ==
  ASSUME SInv, NEW o \in Calls, call[o].at # "idle", Returns(o)
  PROVE  Synced'
<1>1. call' = [call EXCEPT ![o] = Idle] /\ call'[o] = Idle
  BY DEF SInv, IInv, TypeOK, Returns
<1>2. Own(o)'
  BY <1>1, IdleFacts, IdleTodo DEF Own
<1> QED BY <1>1, <1>2, OneMoves DEF SInv, IInv

\* Marks, records and ledger unchanged, no mark is lost.
LEMMA MarksUnchanged ==
  ASSUME MarksKept, pending' = pending, marked' = marked, swept' = swept, ledger \subseteq ledger'
  PROVE  MarksKept'
  BY DEF MarksKept

LEMMA StartMarkSynced == ASSUME InTurn, SInv, NEW o \in Calls, StartMark(o) PROVE SInv'
<1>1. MarksKept'
  BY MarksUnchanged DEF SInv, StartMark
<1>2. Synced'
  <2> DEFINE k == Started("mark", "marking")
  <2>1. k \in CallType /\ k.at = "marking" /\ k.pend = pending /\ k.kind = "mark" /\ k.todo = {}
    <3>1. k = [Idle EXCEPT !.kind = "mark", !.at = "marking", !.pend = pending, !.isFull = full]
      BY DEF Started
    <3>2. k.kind = "mark" /\ k.todo = {}
      BY <3>1, IdleFacts, IdleTodo DEF CallType
    <3> QED BY <3>2, StartedFacts DEF SInv, IInv, AllKinds, Steps
  <2>2. PICK c \in Creds : call' = [call EXCEPT ![o] = [k EXCEPT !.cred = c, !.reg = Home[c]]]
    BY SettingFacts DEF StartMark, IInv, SInv
  <2> DEFINE m == [k EXCEPT !.cred = c, !.reg = Home[c]]
  <2>3. call'[o] = m
    BY <2>2 DEF SInv, IInv, TypeOK
  <2>4. UNCHANGED <<pending, ledger>> /\ \A p \in Calls : call[p].at = "idle"
    BY DEF StartMark, MayStart, InTurn
  <2> HIDE DEF k
  <2>5. m.at = "marking" /\ m.pend = pending /\ m.todo = {} /\ m.reg = Home[m.cred]
    BY <2>1 DEF CallType
  <2> HIDE DEF m
  <2>6. Own(o)'
    BY <2>3, <2>4, <2>5 DEF Own
  <2> QED BY <2>2, <2>4, <2>6, OneMoves DEF SInv, IInv, m
<1> QED BY <1>1, <1>2, StartMarkStep DEF SInv

LEMMA StartFillSynced == ASSUME InTurn, SInv, NEW o \in Calls, StartFill(o) PROVE SInv'
<1>1. MarksKept'
  BY MarksUnchanged DEF SInv, StartFill
<1>2. Synced'
  <2> DEFINE k == Started("fill", "filling")
  <2>1. k \in CallType /\ k.at = "filling" /\ k.pend = pending /\ k.kind = "fill" /\ k.todo = {}
    <3>1. k = [Idle EXCEPT !.kind = "fill", !.at = "filling", !.pend = pending, !.isFull = full]
      BY DEF Started
    <3>2. k.kind = "fill" /\ k.todo = {}
      BY <3>1, IdleFacts, IdleTodo DEF CallType
    <3> QED BY <3>2, StartedFacts DEF SInv, IInv, AllKinds, Steps
  <2>2. PICK r \in Regs : call' = [call EXCEPT ![o] = [k EXCEPT !.reg = r]]
    BY SettingFacts DEF StartFill, IInv, SInv
  <2> DEFINE m == [k EXCEPT !.reg = r]
  <2>3. call'[o] = m
    BY <2>2 DEF SInv, IInv, TypeOK
  <2>4. UNCHANGED <<pending, ledger>> /\ \A p \in Calls : call[p].at = "idle"
    BY DEF StartFill, MayStart, InTurn
  <2> HIDE DEF k
  <2>5. m.at = "filling" /\ m.pend = pending /\ m.todo = {}
    BY <2>1 DEF CallType
  <2> HIDE DEF m
  <2>6. Own(o)'
    BY <2>3, <2>4, <2>5 DEF Own
  <2> QED BY <2>2, <2>4, <2>6, OneMoves DEF SInv, IInv, m
<1> QED BY <1>1, <1>2, StartFillStep DEF SInv

LEMMA StartPublishSynced == ASSUME InTurn, SInv, NEW o \in Calls, StartPublish(o) PROVE SInv'
<1>1. MarksKept'
  BY MarksUnchanged DEF SInv, StartPublish
<1>2. Synced'
  <2> DEFINE k == Started("publish", "choosing")
  <2>1. k \in CallType /\ k.at = "choosing" /\ k.pend = pending /\ k.kind = "publish" /\ k.todo = {}
    <3>1. k = [Idle EXCEPT !.kind = "publish", !.at = "choosing", !.pend = pending, !.isFull = full]
      BY DEF Started
    <3>2. k.kind = "publish" /\ k.todo = {}
      BY <3>1, IdleFacts, IdleTodo DEF CallType
    <3> QED BY <3>2, StartedFacts DEF SInv, IInv, AllKinds, Steps
  <2>2. PICK sel \in Selections : call' = [call EXCEPT ![o] = [k EXCEPT !.sel = sel, !.todo = {r \in Regs : Selected(sel, r, pending[r]) # {}}]]
    BY DEF StartPublish
  <2> DEFINE m == [k EXCEPT !.sel = sel, !.todo = {r \in Regs : Selected(sel, r, pending[r]) # {}}]
  <2>3. call'[o] = m
    BY <2>2 DEF SInv, IInv, TypeOK
  <2>4. UNCHANGED <<pending, ledger>> /\ \A p \in Calls : call[p].at = "idle"
    BY DEF StartPublish, MayStart, InTurn
  <2> HIDE DEF k
  <2>5. m.at = "choosing" /\ m.pend = pending /\ m.kind = "publish"
    BY <2>1 DEF CallType
  <2> HIDE DEF m
  <2>6. Own(o)'
    BY <2>3, <2>4, <2>5 DEF Own
  <2> QED BY <2>2, <2>4, <2>6, OneMoves DEF SInv, IInv, m
<1> QED BY <1>1, <1>2, StartPublishStep DEF SInv

LEMMA StartClearSynced == ASSUME InTurn, SInv, NEW o \in Calls, StartClear(o) PROVE SInv'
<1>1. MarksKept'
  BY MarksUnchanged DEF SInv, StartClear
<1>2. Synced'
  <2> DEFINE k == Started("clear", "purging")
  <2>1. k \in CallType /\ k.at = "purging" /\ k.pend = pending /\ k.kind = "clear" /\ k.todo = {}
    <3>1. k = [Idle EXCEPT !.kind = "clear", !.at = "purging", !.pend = pending, !.isFull = full]
      BY DEF Started
    <3>2. k.kind = "clear" /\ k.todo = {}
      BY <3>1, IdleFacts, IdleTodo DEF CallType
    <3> QED BY <3>2, StartedFacts DEF SInv, IInv, AllKinds, Steps
  <2>2. PICK sel \in Selections : call' = [call EXCEPT ![o] = [k EXCEPT !.sel = sel, !.todo = {r \in Regs : pending[r] # {}}]]
    BY DEF StartClear
  <2> DEFINE m == [k EXCEPT !.sel = sel, !.todo = {r \in Regs : pending[r] # {}}]
  <2>3. call'[o] = m
    BY <2>2 DEF SInv, IInv, TypeOK
  <2>4. UNCHANGED <<pending, ledger>> /\ \A p \in Calls : call[p].at = "idle"
    BY DEF StartClear, MayStart, InTurn
  <2> HIDE DEF k
  <2>5. m.at = "purging" /\ m.pend = pending
    BY <2>1 DEF CallType
  <2> HIDE DEF m
  <2>6. Own(o)'
    BY <2>3, <2>4, <2>5 DEF Own
  <2> QED BY <2>2, <2>4, <2>6, OneMoves DEF SInv, IInv, m
<1> QED BY <1>1, <1>2, StartClearStep DEF SInv

LEMMA NoDeltaSynced == ASSUME SInv, NEW o \in Calls, NoDelta(o) PROVE SInv'
  BY NoDeltaStep, ReturnsSynced, MarksUnchanged DEF SInv, NoDelta

LEMMA FailSynced == ASSUME SInv, NEW o \in Calls, Fail(o) PROVE SInv'
  BY FailStep, ReturnsSynced, MarksUnchanged DEF SInv, Fail

\* mark_pending adds to the record what its copy and the record have.
LEMMA MarkPendingSynced == ASSUME SInv, NEW o \in Calls, MarkPending(o) PROVE SInv'
<1>1. Synced'
  BY ReturnsSynced DEF MarkPending
<1>2. call[o].reg = Home[call[o].cred] /\ call[o].pend[call[o].reg] = pending[call[o].reg]
  BY DEF SInv, Synced, Own, MarkPending
<1>3. \A r \in Regs : pending'[r] = IF r = Home[call[o].cred] THEN pending[r] \cup {call[o].cred} ELSE pending[r]
  BY <1>2 DEF SInv, IInv, TypeOK, MarkPending, Save
<1>4. MarksKept'
  <2>1. marked \subseteq Creds /\ call[o].cred \in Creds
    BY CallFacts DEF SInv, IInv, TypeOK
  <2>2. /\ marked' = marked \cup {call[o].cred} /\ ledger' = ledger
        /\ swept' = swept \ {call[o].cred}
    BY DEF MarkPending
  <2>3. \A c \in marked' : Home[c] \in Regs
    BY <2>1, <2>2
  <2> QED BY <1>3, <2>2, <2>3 DEF SInv, MarksKept
<1> QED BY <1>1, <1>4, MarkPendingStep DEF SInv

\* set_state
LEMMA SetFullSynced == ASSUME SInv, NEW o \in Calls, SetFull(o) PROVE SInv'
<1>1. Synced'
  BY ReturnsSynced DEF SetFull
<1>2. call[o].pend[call[o].reg] = pending[call[o].reg]
  BY DEF SInv, Synced, Own, SetFull
<1>3. pending' = pending
  BY <1>2 DEF SInv, IInv, TypeOK, SetFull, Save
<1>4. MarksKept'
  BY <1>3, MarksUnchanged DEF SInv, SetFull
<1> QED BY <1>1, <1>4, SetFullStep DEF SInv

\* publish_pending_revocations goes to the next record
LEMMA NextRegistrySynced == ASSUME SInv, NEW o \in Calls, NextRegistry(o) PROVE SInv'
<1> DEFINE k == call[o]
<1>1. MarksKept'
  BY MarksUnchanged DEF SInv, NextRegistry
<1>2. CASE Returns(o)
  BY <1>1, <1>2, ReturnsSynced, NextRegistryStep DEF SInv, NextRegistry
<1>3. ASSUME NEW r \in k.todo,
             call' = [call EXCEPT ![o] =
                        [k EXCEPT !.at = "revoking", !.todo = k.todo \ {r}, !.reg = r,
                                  !.crids = Selected(k.sel, r, k.pend[r]),
                                  !.left = Selected(k.sel, r, k.pend[r]), !.delta = {}, !.failed = {}]]
      PROVE  SInv'
  <2> DEFINE lot == Selected(k.sel, r, k.pend[r])
             todo == k.todo \ {r}
             m == [k EXCEPT !.at = "revoking", !.todo = todo, !.reg = r, !.crids = lot, !.left = lot, !.delta = {}, !.failed = {}]
  <2>1. call' = [call EXCEPT ![o] = m] /\ call'[o] = m
    BY <1>3 DEF SInv, IInv, TypeOK
  <2>2. k \in CallType
    BY CallFacts DEF SInv, IInv
  <2>3. k.at = "choosing" /\ k.kind = "publish" /\ UNCHANGED <<pending, ledger>>
        /\ \A q \in k.todo : k.pend[q] = pending[q]
    BY DEF NextRegistry, SInv, Synced, Own
  <2> HIDE DEF k, lot, todo
  <2>4. m.at = "revoking" /\ m.kind = k.kind /\ m.reg = r /\ m.pend = k.pend /\ m.todo = todo
    BY <2>2 DEF CallType
  <2>5. todo = k.todo \ {r} /\ r \in k.todo
    BY <1>3 DEF todo
  <2> HIDE DEF m
  <2>6. Own(o)'
    BY <2>1, <2>3, <2>4, <2>5 DEF Own
  <2>7. Synced'
    BY <2>1, <2>3, <2>6, OneMoves DEF SInv, IInv, k
  <2> QED BY <1>1, <2>7, NextRegistryStep DEF SInv
<1> QED BY <1>2, <1>3 DEF NextRegistry

\* revoke_credentials, one credential
LEMMA RevokeInWalletSynced == ASSUME SInv, NEW o \in Calls, RevokeInWallet(o) PROVE SInv'
<1> DEFINE k == call[o]
<1>1. MarksKept'
  BY MarksUnchanged DEF SInv, RevokeInWallet
<1>2. k \in CallType /\ Own(o) /\ k.at = "revoking" /\ UNCHANGED <<pending, ledger>>
  BY CallFacts DEF SInv, IInv, Synced, RevokeInWallet
<1>3. PICK c : \/ call' = [call EXCEPT ![o] = [k EXCEPT !.left = @ \ {c}, !.delta = @ \cup {c}]]
               \/ call' = [call EXCEPT ![o] = [k EXCEPT !.left = @ \ {c}, !.failed = @ \cup {c}]]
  BY DEF RevokeInWallet
<1> DEFINE good == [k EXCEPT !.left = @ \ {c}, !.delta = @ \cup {c}]
           bad == [k EXCEPT !.left = @ \ {c}, !.failed = @ \cup {c}]
<1>4. \E n : /\ call' = [call EXCEPT ![o] = n] /\ call'[o] = n
             /\ n.at = k.at /\ n.kind = k.kind /\ n.reg = k.reg /\ n.pend = k.pend /\ n.todo = k.todo
  <2>1. call' = [call EXCEPT ![o] = good] \/ call' = [call EXCEPT ![o] = bad]
    BY <1>3
  <2>4. call \in [Calls -> CallType]
    BY DEF SInv, IInv, TypeOK
  <2> HIDE DEF k
  <2>2. good.at = k.at /\ good.kind = k.kind /\ good.reg = k.reg /\ good.pend = k.pend /\ good.todo = k.todo
    BY <1>2 DEF CallType
  <2>3. bad.at = k.at /\ bad.kind = k.kind /\ bad.reg = k.reg /\ bad.pend = k.pend /\ bad.todo = k.todo
    BY <1>2 DEF CallType
  <2> HIDE DEF good, bad
  <2> QED BY <2>1, <2>2, <2>3, <2>4
<1>5. Synced'
  <2>1. Own(o)'
    BY <1>2, <1>4 DEF Own
  <2> QED BY <1>2, <1>4, <2>1, OneMoves DEF SInv, IInv
<1> QED BY <1>1, <1>5, RevokeInWalletStep DEF SInv

\* The delta is complete.
LEMMA SendSynced == ASSUME SInv, NEW o \in Calls, Send(o) PROVE SInv'
<1> DEFINE k == call[o]
           m == [k EXCEPT !.at = "sending"]
<1>1. MarksKept'
  BY MarksUnchanged DEF SInv, Send
<1>2. k \in CallType /\ Own(o) /\ k.at = "revoking" /\ UNCHANGED <<pending, ledger>>
  BY CallFacts DEF SInv, IInv, Synced, Send
<1>3. call' = [call EXCEPT ![o] = m] /\ call'[o] = m
  BY DEF SInv, IInv, TypeOK, Send
<1> HIDE DEF k
<1>4. m.at = "sending" /\ m.kind = k.kind /\ m.reg = k.reg /\ m.pend = k.pend /\ m.todo = k.todo
  BY <1>2 DEF CallType
<1> HIDE DEF m
<1>5. Synced'
  <2>1. Own(o)'
    BY <1>2, <1>3, <1>4 DEF Own, k
  <2> QED BY <1>2, <1>3, <2>1, OneMoves DEF SInv, IInv, k
<1> QED BY <1>1, <1>5, SendStep DEF SInv

\* The ledger has written the entry.
LEMMA WrittenSynced == ASSUME SInv, NEW o \in Calls, Written(o) PROVE SInv'
<1> DEFINE k == call[o]
           m == [k EXCEPT !.at = "clearing"]
<1>1. MarksKept'
  BY MarksUnchanged DEF SInv, Written
<1>2. k \in CallType /\ Own(o) /\ k.at = "sending" /\ pending' = pending /\ ledger' = ledger \cup k.delta
  BY CallFacts DEF SInv, IInv, Synced, Written
<1>3. Returns(o) => SInv'
  BY <1>1, <1>2, ReturnsSynced, WrittenStep DEF SInv
<1>4. CASE call' = [call EXCEPT ![o] = m]
  <2>1. call'[o] = m
    BY <1>4 DEF SInv, IInv, TypeOK
  <2> HIDE DEF k
  <2>2. m.at = "clearing" /\ m.kind = k.kind /\ m.reg = k.reg /\ m.pend = k.pend /\ m.todo = k.todo
        /\ m.crids = k.crids /\ m.failed = k.failed
    BY <1>2 DEF CallType
  <2> HIDE DEF m
  <2>5. Published(k) \subseteq k.delta
    BY <1>2 DEF SInv, IInv, CallsAsked, Published, k
  <2>3. Own(o)'
    BY <1>2, <2>1, <2>2, <2>5 DEF Own, Published, k
  <2>4. Synced'
    BY <1>2, <1>4, <2>3, OneMoves DEF SInv, IInv, k
  <2> QED BY <1>1, <2>4, WrittenStep DEF SInv
<1> QED BY <1>3, <1>4 DEF Written

\* clear_pending takes away what is on the ledger.
LEMMA ClearPublishedSynced == ASSUME SInv, NEW o \in Calls, ClearPublished(o) PROVE SInv'
<1> DEFINE k == call[o]
           m == [k EXCEPT !.at = "choosing"]
<1>1. /\ k \in CallType /\ k.reg \in Regs /\ Own(o) /\ k.at = "clearing" /\ k.kind = "publish"
      /\ marked' = marked /\ swept' = swept /\ ledger' = ledger
  BY CallFacts DEF SInv, IInv, Synced, Own, ClearPublished
<1>2. Published(k) \subseteq ledger /\ k.pend[k.reg] = pending[k.reg] /\ k.reg \notin k.todo
  BY <1>1 DEF Own
<1>3. \A r \in Regs : /\ pending[r] \ Published(k) \subseteq pending'[r]
                      /\ r # k.reg => pending'[r] = pending[r]
  BY <1>1, <1>2 DEF SInv, IInv, TypeOK, ClearPublished, Save, StaysPending
<1>4. MarksKept'
  <2>1. \A c \in marked : Home[c] \in Regs
    BY DEF SInv, IInv, TypeOK
  <2> QED BY <1>1, <1>2, <1>3, <2>1 DEF SInv, MarksKept
<1>5. Synced'
  <2>1. call' = [call EXCEPT ![o] = m] /\ call'[o] = m
    BY DEF SInv, IInv, TypeOK, ClearPublished
  <2>2. \A r \in k.todo : k.pend[r] = pending'[r]
    BY <1>1, <1>2, <1>3, CallFacts DEF Own, SInv, IInv
  <2> HIDE DEF k
  <2>3. m.at = "choosing" /\ m.kind = k.kind /\ m.pend = k.pend /\ m.todo = k.todo
    BY <1>1 DEF CallType
  <2> HIDE DEF m
  <2>4. Own(o)'
    BY <1>1, <2>1, <2>2, <2>3 DEF Own
  <2> QED BY <1>1, <2>1, <2>4, OneMoves DEF SInv, IInv, k
<1> QED BY <1>4, <1>5, ClearPublishedStep DEF SInv

\* clear_pending_revocations
LEMMA ClearPendingSynced == ASSUME SInv, NEW o \in Calls, ClearPending(o) PROVE SInv'
<1> DEFINE k == call[o]
<1>1. /\ k \in CallType /\ k.todo \subseteq Regs /\ Own(o) /\ k.at = "purging" /\ ledger' = ledger
  BY CallFacts DEF SInv, IInv, Synced, ClearPending
<1>2. CASE Returns(o) /\ UNCHANGED <<pending, full, marked, swept>>
  BY <1>1, <1>2, ReturnsSynced, MarksUnchanged, ClearPendingStep DEF SInv
<1>3. ASSUME NEW r \in k.todo, NEW gone, NEW named, Save(r, k.pend[r] \ gone, k.isFull[r]),
             marked' = marked \ named, swept' = swept \cup (gone \ named), call' = [call EXCEPT ![o].todo = @ \ {r}]
      PROVE  SInv'
  <2> DEFINE m == [k EXCEPT !.todo = @ \ {r}]
  <2>1. \A q \in Regs : pending'[q] = IF q = r THEN pending[q] \ gone ELSE pending[q]
    BY <1>1, <1>3 DEF SInv, IInv, TypeOK, Save, Own
  <2>2. MarksKept'
    <3>1. \A c \in marked' \ swept' : Home[c] \in Regs /\ c \in marked \ swept /\ c \notin gone
      BY <1>3 DEF SInv, IInv, TypeOK
    <3> QED BY <1>1, <2>1, <3>1 DEF SInv, MarksKept
  <2>3. call' = [call EXCEPT ![o] = m] /\ call'[o] = m
    BY <1>3 DEF SInv, IInv, TypeOK
  <2>4. \A q \in k.todo \ {r} : k.pend[q] = pending'[q]
    BY <1>1, <2>1 DEF Own
  <2> HIDE DEF k
  <2>5. m.at = k.at /\ m.pend = k.pend /\ m.todo = k.todo \ {r}
    BY <1>1 DEF CallType
  <2> HIDE DEF m
  <2>6. Own(o)'
    BY <1>1, <2>3, <2>4, <2>5 DEF Own
  <2>7. Synced'
    BY <1>1, <2>3, <2>6, OneMoves DEF SInv, IInv, k
  <2> QED BY <2>2, <2>7, ClearPendingStep DEF SInv
<1> QED BY <1>2, <1>3 DEF ClearPending

LEMMA NextSInv == SInv /\ InTurn /\ [Next]_vars => SInv'
<1> SUFFICES ASSUME SInv, InTurn, [Next]_vars PROVE SInv'
  OBVIOUS
<1>1. CASE UNCHANGED vars
  BY <1>1, NextIInv DEF vars, SInv, Synced, Own, MarksKept
<1>2. ASSUME NEW o \in Calls, StartRevoke(o) PROVE FALSE
  BY <1>2 DEF StartRevoke, MayStart, InTurn
<1> QED BY <1>1, <1>2, StartMarkSynced, StartPublishSynced, StartClearSynced, StartFillSynced,
           MarkPendingSynced, NextRegistrySynced, RevokeInWalletSynced, NoDeltaSynced, SendSynced,
           WrittenSynced, ClearPublishedSynced, ClearPendingSynced, SetFullSynced, FailSynced DEF Next

\* A mark stays until it is published or cleared, although any operation may
\* fail at any point, where operations take turns.
THEOREM MarksStayInTurn == Spec => []MarkStays
<1> DEFINE J == InTurn => SInv
<1>1. Init => J
  BY InitSInv
<1>2. J /\ [Next]_vars => J'
  BY NextSInv, SettingStays DEF InTurn
<1>3. J => MarkStays
  BY DEF SInv, MarkStays
<1> HIDE DEF J
<1> QED BY <1>1, <1>2, <1>3, PTL DEF Spec

-----------------------------------------------------------------------------
\* The registries of a credential definition.

\* A record is ahead of the ledger in no state.
Staged ==
    \A r \in Registries :
        /\ state[r] \in {"active", "full"} => written[r] = 2
        /\ state[r] = "posted" => written[r] >= 1
        /\ state[r] \notin {"active", "full"} => issued[r] = 0

\* What a call holds about its registry stays true while others use it.
Chosen ==
    \A i \in Issuers :
        /\ pc[i] \in {"create", "last", "overfull"} => state[reg[i]] \in {"active", "full"}
        /\ pc[i] \in {"last", "overfull"} => issued[reg[i]] = Size
        /\ pc[i] = "initNext" => more[i] \in 1..2
        /\ pc[i] = "sleep" => left[i] > 0

RolloverInv == RolloverTypeOK /\ Staged /\ Chosen /\ FullIsFull

LEMMA InitRollover == RolloverInit => RolloverInv
  BY DEF RolloverInit, RolloverInv, RolloverTypeOK, Staged, Chosen, FullIsFull, Registries, States, Places

LEMMA GenerateRollover == ASSUME RolloverInv, NEW r \in Registries, Generate(r) PROVE RolloverInv'
<1> USE DEF RolloverInv
<1>1. RolloverTypeOK'
  BY DEF Generate, Busy, RolloverTypeOK, Chosen, States, Places
<1>2. Staged'
  BY DEF Generate, Busy, Staged, Chosen, RolloverTypeOK
<1>3. Chosen'
  BY DEF Generate, Busy, Chosen, Staged, RolloverTypeOK
<1>4. FullIsFull'
  BY DEF Generate, Busy, FullIsFull, Chosen, Staged, RolloverTypeOK
<1> QED BY <1>1, <1>2, <1>3, <1>4

LEMMA WriteDefRollover == ASSUME RolloverInv, NEW r \in Registries, WriteDef(r) PROVE RolloverInv'
<1> USE DEF RolloverInv
<1>1. RolloverTypeOK'
  BY DEF WriteDef, Busy, RolloverTypeOK, Chosen, States, Places
<1>2. Staged'
  BY DEF WriteDef, Busy, Staged, Chosen, RolloverTypeOK
<1>3. Chosen'
  BY DEF WriteDef, Busy, Chosen, Staged, RolloverTypeOK
<1>4. FullIsFull'
  BY DEF WriteDef, Busy, FullIsFull, Chosen, Staged, RolloverTypeOK
<1> QED BY <1>1, <1>2, <1>3, <1>4

LEMMA SavePostedRollover == ASSUME RolloverInv, NEW r \in Registries, SavePosted(r) PROVE RolloverInv'
<1> USE DEF RolloverInv
<1>1. RolloverTypeOK'
  BY DEF SavePosted, Busy, RolloverTypeOK, Chosen, States, Places
<1>2. Staged'
  BY DEF SavePosted, Busy, Staged, Chosen, RolloverTypeOK
<1>3. Chosen'
  BY DEF SavePosted, Busy, Chosen, Staged, RolloverTypeOK
<1>4. FullIsFull'
  BY DEF SavePosted, Busy, FullIsFull, Chosen, Staged, RolloverTypeOK
<1> QED BY <1>1, <1>2, <1>3, <1>4

LEMMA WriteEntryRollover == ASSUME RolloverInv, NEW r \in Registries, WriteEntry(r) PROVE RolloverInv'
<1> USE DEF RolloverInv
<1>1. RolloverTypeOK'
  BY DEF WriteEntry, Busy, RolloverTypeOK, Chosen, States, Places
<1>2. Staged'
  BY DEF WriteEntry, Busy, Staged, Chosen, RolloverTypeOK
<1>3. Chosen'
  BY DEF WriteEntry, Busy, Chosen, Staged, RolloverTypeOK
<1>4. FullIsFull'
  BY DEF WriteEntry, Busy, FullIsFull, Chosen, Staged, RolloverTypeOK
<1> QED BY <1>1, <1>2, <1>3, <1>4

LEMMA SaveActiveRollover == ASSUME RolloverInv, NEW r \in Registries, SaveActive(r) PROVE RolloverInv'
<1> USE DEF RolloverInv
<1>1. RolloverTypeOK'
  BY DEF SaveActive, Busy, RolloverTypeOK, Chosen, States, Places
<1>2. Staged'
  BY DEF SaveActive, Busy, Staged, Chosen, RolloverTypeOK
<1>3. Chosen'
  BY DEF SaveActive, Busy, Chosen, Staged, RolloverTypeOK
<1>4. FullIsFull'
  BY DEF SaveActive, Busy, FullIsFull, Chosen, Staged, RolloverTypeOK
<1> QED BY <1>1, <1>2, <1>3, <1>4

LEMMA SetupNextRollover == ASSUME RolloverInv, NEW r \in Registries, SetupNext(r) PROVE RolloverInv'
<1> USE DEF RolloverInv
<1>1. RolloverTypeOK'
  BY DEF SetupNext, In, RolloverTypeOK, Chosen, States, Places
<1>2. Staged'
  BY DEF SetupNext, In, Staged, Chosen, RolloverTypeOK
<1>3. Chosen'
  BY DEF SetupNext, In, Chosen, Staged, RolloverTypeOK
<1>4. FullIsFull'
  BY DEF SetupNext, In, FullIsFull, Chosen, Staged, RolloverTypeOK
<1> QED BY <1>1, <1>2, <1>3, <1>4

LEMMA TaskFailsRollover == ASSUME RolloverInv, NEW r \in Registries, TaskFails(r) PROVE RolloverInv'
<1> USE DEF RolloverInv
<1>1. RolloverTypeOK'
  BY DEF TaskFails, RolloverTypeOK, Chosen, States, Places
<1>2. Staged'
  BY DEF TaskFails, Staged, Chosen, RolloverTypeOK
<1>3. Chosen'
  BY DEF TaskFails, Chosen, Staged, RolloverTypeOK
<1>4. FullIsFull'
  BY DEF TaskFails, FullIsFull, Chosen, Staged, RolloverTypeOK
<1> QED BY <1>1, <1>2, <1>3, <1>4

LEMMA IssueRollover == ASSUME RolloverInv, NEW i \in Issuers, Issue(i) PROVE RolloverInv'
<1> USE DEF RolloverInv
<1>1. RolloverTypeOK'
  BY DEF Issue, Goes, RolloverTypeOK, Chosen, States, Places
<1>2. Staged'
  BY DEF Issue, Goes, Staged, Chosen, RolloverTypeOK
<1>3. Chosen'
  BY DEF Issue, Goes, Chosen, Staged, RolloverTypeOK
<1>4. FullIsFull'
  BY DEF Issue, Goes, FullIsFull, Chosen, Staged, RolloverTypeOK
<1> QED BY <1>1, <1>2, <1>3, <1>4

LEMMA IssueAgainRollover == ASSUME RolloverInv, NEW i \in Issuers, IssueAgain(i) PROVE RolloverInv'
<1> USE DEF RolloverInv
<1>1. RolloverTypeOK'
  BY DEF IssueAgain, Goes, RolloverTypeOK, Chosen, States, Places
<1>2. Staged'
  BY DEF IssueAgain, Goes, Staged, Chosen, RolloverTypeOK
<1>3. Chosen'
  BY DEF IssueAgain, Goes, Chosen, Staged, RolloverTypeOK
<1>4. FullIsFull'
  BY DEF IssueAgain, Goes, FullIsFull, Chosen, Staged, RolloverTypeOK
<1> QED BY <1>1, <1>2, <1>3, <1>4

LEMMA ChooseRollover == ASSUME RolloverInv, NEW i \in Issuers, Choose(i) PROVE RolloverInv'
<1> USE DEF RolloverInv
<1>1. RolloverTypeOK'
  BY DEF Choose, Goes, In, RolloverTypeOK, Chosen, States, Places
<1>2. Staged'
  BY DEF Choose, Goes, In, Staged, Chosen, RolloverTypeOK
<1>3. Chosen'
  BY DEF Choose, Goes, In, Chosen, Staged, RolloverTypeOK
<1>4. FullIsFull'
  BY DEF Choose, Goes, In, FullIsFull, Chosen, Staged, RolloverTypeOK
<1> QED BY <1>1, <1>2, <1>3, <1>4

LEMMA LookPostedRollover == ASSUME RolloverInv, NEW i \in Issuers, LookPosted(i) PROVE RolloverInv'
<1> USE DEF RolloverInv
<1>1. RolloverTypeOK'
  BY DEF LookPosted, Goes, In, RetriesOrFails, RolloverTypeOK, Chosen, States, Places
<1>2. Staged'
  BY DEF LookPosted, Goes, In, RetriesOrFails, Staged, Chosen, RolloverTypeOK
<1>3. Chosen'
  BY DEF LookPosted, Goes, In, RetriesOrFails, Chosen, Staged, RolloverTypeOK
<1>4. FullIsFull'
  BY DEF LookPosted, Goes, In, RetriesOrFails, FullIsFull, Chosen, Staged, RolloverTypeOK
<1> QED BY <1>1, <1>2, <1>3, <1>4

LEMMA InitNextRollover == ASSUME RolloverInv, NEW i \in Issuers, InitNext(i) PROVE RolloverInv'
<1> USE DEF RolloverInv
<1>1. RolloverTypeOK'
  BY DEF InitNext, NewRegistry, In, Goes, RetriesOrFails, RolloverTypeOK, Chosen, States, Places
<1>2. Staged'
  BY DEF InitNext, NewRegistry, In, Goes, RetriesOrFails, Staged, Chosen, RolloverTypeOK
<1>3. Chosen'
  BY DEF InitNext, NewRegistry, In, Goes, RetriesOrFails, Chosen, Staged, RolloverTypeOK
<1>4. FullIsFull'
  BY DEF InitNext, NewRegistry, In, Goes, RetriesOrFails, FullIsFull, Chosen, Staged, RolloverTypeOK
<1> QED BY <1>1, <1>2, <1>3, <1>4

LEMMA CreateCredentialRollover == ASSUME RolloverInv, NEW i \in Issuers, CreateCredential(i) PROVE RolloverInv'
<1> USE DEF RolloverInv
<1>1. RolloverTypeOK'
  BY DEF CreateCredential, Goes, IsLast, RolloverTypeOK, Chosen, States, Places
<1>2. Staged'
  BY DEF CreateCredential, Goes, IsLast, Staged, Chosen, RolloverTypeOK
<1>3. Chosen'
  BY DEF CreateCredential, Goes, IsLast, Chosen, Staged, RolloverTypeOK
<1>4. FullIsFull'
  BY DEF CreateCredential, Goes, IsLast, FullIsFull, Chosen, Staged, RolloverTypeOK
<1> QED BY <1>1, <1>2, <1>3, <1>4

LEMMA SetFullRollover == ASSUME RolloverInv, NEW i \in Issuers, SetStateFull(i) PROVE RolloverInv'
<1> USE DEF RolloverInv
<1>1. RolloverTypeOK'
  BY DEF SetStateFull, Goes, RolloverTypeOK, Chosen, States, Places
<1>2. Staged'
  BY DEF SetStateFull, Goes, Staged, Chosen, RolloverTypeOK
<1>3. Chosen'
  BY DEF SetStateFull, Goes, Chosen, Staged, RolloverTypeOK
<1>4. FullIsFull'
  BY DEF SetStateFull, Goes, FullIsFull, Chosen, Staged, RolloverTypeOK
<1> QED BY <1>1, <1>2, <1>3, <1>4

LEMMA InitOneRollover == ASSUME RolloverInv, NEW i \in Issuers, InitOne(i) PROVE RolloverInv'
<1> USE DEF RolloverInv
<1>1. RolloverTypeOK'
  BY DEF InitOne, NewRegistry, In, Goes, RolloverTypeOK, Chosen, States, Places
<1>2. Staged'
  BY DEF InitOne, NewRegistry, In, Goes, Staged, Chosen, RolloverTypeOK
<1>3. Chosen'
  BY DEF InitOne, NewRegistry, In, Goes, Chosen, Staged, RolloverTypeOK
<1>4. FullIsFull'
  BY DEF InitOne, NewRegistry, In, Goes, FullIsFull, Chosen, Staged, RolloverTypeOK
<1> QED BY <1>1, <1>2, <1>3, <1>4

LEMMA SetOverfullRollover == ASSUME RolloverInv, NEW i \in Issuers, SetOverfull(i) PROVE RolloverInv'
<1> USE DEF RolloverInv
<1>1. RolloverTypeOK'
  BY DEF SetOverfull, Goes, RetriesOrFails, RolloverTypeOK, Chosen, States, Places
<1>2. Staged'
  BY DEF SetOverfull, Goes, RetriesOrFails, Staged, Chosen, RolloverTypeOK
<1>3. Chosen'
  BY DEF SetOverfull, Goes, RetriesOrFails, Chosen, Staged, RolloverTypeOK
<1>4. FullIsFull'
  BY DEF SetOverfull, Goes, RetriesOrFails, FullIsFull, Chosen, Staged, RolloverTypeOK
<1> QED BY <1>1, <1>2, <1>3, <1>4

LEMMA WakeRollover == ASSUME RolloverInv, NEW i \in Issuers, Wake(i) PROVE RolloverInv'
<1> USE DEF RolloverInv
<1>1. RolloverTypeOK'
  BY DEF Wake, Goes, Busy, RolloverTypeOK, Chosen, States, Places
<1>2. Staged'
  BY DEF Wake, Goes, Busy, Staged, Chosen, RolloverTypeOK
<1>3. Chosen'
  BY DEF Wake, Goes, Busy, Chosen, Staged, RolloverTypeOK
<1>4. FullIsFull'
  BY DEF Wake, Goes, Busy, FullIsFull, Chosen, Staged, RolloverTypeOK
<1> QED BY <1>1, <1>2, <1>3, <1>4

LEMMA IssuerFailsRollover == ASSUME RolloverInv, NEW i \in Issuers, IssuerFails(i) PROVE RolloverInv'
<1> USE DEF RolloverInv
<1>1. RolloverTypeOK'
  BY DEF IssuerFails, Goes, RolloverTypeOK, Chosen, States, Places
<1>2. Staged'
  BY DEF IssuerFails, Goes, Staged, Chosen, RolloverTypeOK
<1>3. Chosen'
  BY DEF IssuerFails, Goes, Chosen, Staged, RolloverTypeOK
<1>4. FullIsFull'
  BY DEF IssuerFails, Goes, FullIsFull, Chosen, Staged, RolloverTypeOK
<1> QED BY <1>1, <1>2, <1>3, <1>4

LEMMA StutterRollover == ASSUME RolloverInv, UNCHANGED rolloverVars PROVE RolloverInv'
  BY DEF RolloverInv, rolloverVars, RolloverTypeOK, Staged, Chosen, FullIsFull

LEMMA NextRollover == RolloverInv /\ [RolloverNext]_rolloverVars => RolloverInv'
<1> SUFFICES ASSUME RolloverInv, [RolloverNext]_rolloverVars PROVE RolloverInv'
  OBVIOUS
<1>1. ASSUME NEW r \in Registries, Generate(r) PROVE RolloverInv'
  BY <1>1, GenerateRollover
<1>2. ASSUME NEW r \in Registries, WriteDef(r) PROVE RolloverInv'
  BY <1>2, WriteDefRollover
<1>3. ASSUME NEW r \in Registries, SavePosted(r) PROVE RolloverInv'
  BY <1>3, SavePostedRollover
<1>4. ASSUME NEW r \in Registries, WriteEntry(r) PROVE RolloverInv'
  BY <1>4, WriteEntryRollover
<1>5. ASSUME NEW r \in Registries, SaveActive(r) PROVE RolloverInv'
  BY <1>5, SaveActiveRollover
<1>6. ASSUME NEW r \in Registries, SetupNext(r) PROVE RolloverInv'
  BY <1>6, SetupNextRollover
<1>7. ASSUME NEW r \in Registries, TaskFails(r) PROVE RolloverInv'
  BY <1>7, TaskFailsRollover
<1>8. ASSUME NEW i \in Issuers, Issue(i) PROVE RolloverInv'
  BY <1>8, IssueRollover
<1>9. ASSUME NEW i \in Issuers, IssueAgain(i) PROVE RolloverInv'
  BY <1>9, IssueAgainRollover
<1>10. ASSUME NEW i \in Issuers, Choose(i) PROVE RolloverInv'
  BY <1>10, ChooseRollover
<1>11. ASSUME NEW i \in Issuers, LookPosted(i) PROVE RolloverInv'
  BY <1>11, LookPostedRollover
<1>12. ASSUME NEW i \in Issuers, InitNext(i) PROVE RolloverInv'
  BY <1>12, InitNextRollover
<1>13. ASSUME NEW i \in Issuers, CreateCredential(i) PROVE RolloverInv'
  BY <1>13, CreateCredentialRollover
<1>14. ASSUME NEW i \in Issuers, SetStateFull(i) PROVE RolloverInv'
  BY <1>14, SetFullRollover
<1>15. ASSUME NEW i \in Issuers, InitOne(i) PROVE RolloverInv'
  BY <1>15, InitOneRollover
<1>16. ASSUME NEW i \in Issuers, SetOverfull(i) PROVE RolloverInv'
  BY <1>16, SetOverfullRollover
<1>17. ASSUME NEW i \in Issuers, Wake(i) PROVE RolloverInv'
  BY <1>17, WakeRollover
<1>18. ASSUME NEW i \in Issuers, IssuerFails(i) PROVE RolloverInv'
  BY <1>18, IssuerFailsRollover
<1>19. ASSUME UNCHANGED rolloverVars PROVE RolloverInv'
  BY <1>19, StutterRollover
<1> QED BY <1>1, <1>2, <1>3, <1>4, <1>5, <1>6, <1>7, <1>8, <1>9, <1>10, <1>11, <1>12, <1>13, <1>14, <1>15, <1>16, <1>17, <1>18, <1>19 DEF RolloverNext

\* The types, Staged, Chosen and FullIsFull hold in every behaviour.
THEOREM RolloverInvariance == RolloverSpec => []RolloverInv
  BY InitRollover, NextRollover, PTL DEF RolloverSpec

\* IssuedOnLedger: create_credential is given a registry whose definition and
\* first entry are on the ledger (manager.py:513, issuer_rev_reg_record.py:279).
THEOREM IssuedIsOnLedger == RolloverSpec => []IssuedOnLedger
<1>1. RolloverInv => IssuedOnLedger
  BY DEF RolloverInv, Staged, IssuedOnLedger
<1> QED BY <1>1, RolloverInvariance, PTL

\* FullIsFull: STATE_FULL is saved for a registry that has no credential left,
\* and missed for one only when a call fails (manager.py:594, 614).
THEOREM GivenUpWhenFull == RolloverSpec => []FullIsFull
<1>1. RolloverInv => FullIsFull
  BY DEF RolloverInv
<1> QED BY <1>1, RolloverInvariance, PTL

=============================================================================
