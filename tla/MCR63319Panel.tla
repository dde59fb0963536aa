------------------------------ MODULE MCR63319Panel ------------------------------
(* Small instances of R63319Panel.                                         *)
EXTENDS R63319Panel

(* The parameter may be written at any time.                               *)
MCInheritValues == BOOLEAN
==============================================================================
