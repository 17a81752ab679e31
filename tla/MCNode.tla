-------------------------------- MODULE MCNode --------------------------------
(***************************************************************************)
(* The connections of the checked instances of Node: c1 from another node, *)
(* t1 and t2 of its own user.                                              *)
(***************************************************************************)
EXTENDS Node

CONSTANTS c1, t1, t2
===============================================================================
