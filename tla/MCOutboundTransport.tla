-------------------------- MODULE MCOutboundTransport --------------------------
EXTENDS OutboundTransport

CONSTANTS m1, e1, w1

MCMessages == {m1}
MCEncoded == {e1}
MCWebhooks == {w1}
NoMessages == {}
=============================================================================
