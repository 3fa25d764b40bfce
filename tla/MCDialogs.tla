------------------------------ MODULE MCDialogs ------------------------------
(* Two messages that wait for the next stage, as in the code, four that    *)
(* follow each other and the last one.                                     *)
EXTENDS Dialogs

=============================================================================
