----------------------------- MODULE MCConnection -----------------------------
(***************************************************************************)
(* Two invitees with the same invitation, and an inviter that handles two  *)
(* things at a time.                                                       *)
(***************************************************************************)
EXTENDS Connection

CONSTANTS i1, i2, t1, t2

TwoInvitees == {i1, i2}
TwoTasks == {t1, t2}

Setting(didx0, multi0, auto0, serial0, invited, faults0) ==
    [didx |-> didx0, multi |-> multi0, auto |-> auto0, serial |-> serial0,
     invited |-> invited, faults |-> faults0]

\* One thing at a time: in every way to invite and to accept.  Overlapping handlers,
\* where each has a record of its own: DID exchange with both invitees and no
\* fault, or with one invitee and two faults, and connections 1.0.
Chosen ==
    {Setting(d, m, a, TRUE, TwoInvitees, 1) : d \in BOOLEAN, m \in BOOLEAN, a \in BOOLEAN}
    \cup {Setting(TRUE, TRUE, TRUE, FALSE, TwoInvitees, 0),
          Setting(TRUE, TRUE, TRUE, FALSE, {i1}, 2),
          Setting(FALSE, TRUE, TRUE, FALSE, TwoInvitees, 1),
          Setting(FALSE, TRUE, FALSE, FALSE, {i1}, 2)}
=============================================================================
