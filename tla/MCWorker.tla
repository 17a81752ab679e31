------------------------------- MODULE MCWorker -------------------------------
(***************************************************************************)
(* The connections of the checked instances of Worker.                     *)
(***************************************************************************)
EXTENDS Worker

CONSTANTS c1, c2
===============================================================================
