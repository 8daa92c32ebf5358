---------------------------- MODULE MCURLFinder -----------------------------
(* URLFinder with every exchange it can tell apart.                         *)
EXTENDS URLFinder

=============================================================================
