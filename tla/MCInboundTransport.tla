--------------------------- MODULE MCInboundTransport ---------------------------
(***************************************************************************)
(* A request and a WebSocket of the same peer, and two messages for it, of *)
(* different threads, the second one forwarded and packed already.         *)
(***************************************************************************)
EXTENDS InboundTransport, TLC

CONSTANTS h1, w1, k1, t1, t2, m1, m2

MCHttps == {h1}
MCSockets == {w1}
MCKeys == {k1}
MCThreads == {t1, t2}
MCMsgs == {m1, m2}
MCTo == (m1 :> k1) @@ (m2 :> k1)
MCThread == (m1 :> t1) @@ (m2 :> t2)
MCPacked == {m2}
MCModes == {"none", "all", "thread"}
=============================================================================
