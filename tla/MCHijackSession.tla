-------------------------- MODULE MCHijackSession ---------------------------
(* HijackSession with small budgets.                                        *)
EXTENDS HijackSession

=============================================================================
