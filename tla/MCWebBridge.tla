------------------------------ MODULE MCWebBridge ------------------------------
(***************************************************************************)
(* The browser sessions and file names of the checked instance.            *)
(***************************************************************************)
EXTENDS WebBridge

CONSTANTS s1, s2, f1
===============================================================================
