------------------------------ MODULE TaskSession ------------------------------
(***************************************************************************)
(* What a worker promises to a dispatcher about one connection, as         *)
(* receive_output (dispatcher.c) relies on it: output buffers, the         *)
(* compiler's before the program's, then at most one verdict, nothing      *)
(* after the verdict and nothing after the connection is closed.           *)
(***************************************************************************)
EXTENDS Sequences

CONSTANTS Conns, CompilerOutputs, ProgramOutputs, Verdicts

VARIABLES
    stream, \* the messages delivered on each connection
    closed  \* whether the worker is done with it

Delivered(c, kind) == \E i \in DOMAIN stream[c] : stream[c][i] \in kind

Deliver(c, kind) ==
    /\ ~ closed[c] /\ ~ Delivered(c, Verdicts)
    /\ \E m \in kind : stream' = [stream EXCEPT ![c] = Append(@, m)]
    /\ UNCHANGED closed

Compiler(c) == ~ Delivered(c, ProgramOutputs) /\ Deliver(c, CompilerOutputs)
Program(c) == Deliver(c, ProgramOutputs)
Answer(c) == Deliver(c, Verdicts)

Close(c) ==
    /\ ~ closed[c]
    /\ closed' = [closed EXCEPT ![c] = TRUE]
    /\ UNCHANGED stream

Init == stream = [c \in Conns |-> <<>>] /\ closed = [c \in Conns |-> FALSE]
Next == \E c \in Conns : Compiler(c) \/ Program(c) \/ Answer(c) \/ Close(c)
Spec == Init /\ [][Next]_<<stream, closed>>
===============================================================================
