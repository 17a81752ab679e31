----------------------------- MODULE MCDispatcher -----------------------------
(***************************************************************************)
(* The peers of the checked instances of Dispatcher, and what they report. *)
(***************************************************************************)
EXTENDS Dispatcher

CONSTANTS self, p1, p2, t1, t2

Report(load1, cores, active) == [load1 |-> load1, cores |-> cores, active |-> active]

\* Busy on one core; half as busy again on four, with a task; overloaded, with a task.
SomeReports == {Report(100, 1, 0), Report(150, 4, 1), Report(900, 2, 1)}
===============================================================================
