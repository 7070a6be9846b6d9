---------------------------- MODULE MCPresentProof ----------------------------
(***************************************************************************)
(* One exchange, begun by either side, in agents that do two things at a   *)
(* time or one.                                                            *)
(***************************************************************************)
EXTENDS PresentProof

CONSTANTS t1, t2

TwoTasks == {t1, t2}

Setting(a, s, f, d) == [auto |-> a, serial |-> s, faults |-> f, dups |-> d]

\* One thing at a time, with a fault and an answer that comes twice; overlapping
\* handlers without admins, with a fault or two answers that come twice; and
\* overlapping calls of the admins.
Chosen ==
    {Setting(TRUE, TRUE, 1, 1), Setting(FALSE, TRUE, 1, 1),
     Setting(TRUE, FALSE, 1, 0), Setting(TRUE, FALSE, 0, 2),
     Setting(FALSE, FALSE, 0, 0)}
=============================================================================
