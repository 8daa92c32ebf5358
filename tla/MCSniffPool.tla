---------------------------- MODULE MCSniffPool -----------------------------
(* SniffPool with named interfaces.                                         *)
EXTENDS SniffPool

CONSTANTS en0, en1

=============================================================================
