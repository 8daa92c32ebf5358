-------------------------- MODULE MCSniffOperation --------------------------
(* SniffOperation under arbitrary packets, on a small number space.         *)
EXTENDS SniffOperation

CONSTANTS me, peer, t, n

\* No payload, a line of text with its line end, a bare line end.  Sent by this
\* host, the text t is a request; sent to it, it is a line of a response.
MCPayloads == {<<>>, <<t, n>>, <<n>>}

=============================================================================
