--------------------------- MODULE MCProxyStreams ---------------------------
(* Two browser addresses and two exit Nodes.                               *)
EXTENDS ProxyStreams

CONSTANTS b1, b2, x1, x2
=============================================================================
