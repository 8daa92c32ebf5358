--------------------------- MODULE MCToolInstall ----------------------------
(* ToolInstall with named versions.                                         *)
EXTENDS ToolInstall

=============================================================================
