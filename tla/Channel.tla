-------------------------------- MODULE Channel --------------------------------
(***************************************************************************)
(* What send_msg and recv_msg (net_utils.c) make of one direction of a TCP *)
(* connection: the messages offered are delivered whole, in order, each at *)
(* most once, up to some point at which the receiver gives up.             *)
(***************************************************************************)
EXTENDS Naturals, Sequences

CONSTANT Messages

VARIABLES
    offered,    \* the messages the sender has begun to send
    delivered,  \* those recv_msg has returned
    over        \* recv_msg has failed

Offer == \E m \in Messages : offered' = Append(offered, m) /\ UNCHANGED <<delivered, over>>

Deliver ==
    /\ ~ over /\ Len(delivered) < Len(offered)
    /\ delivered' = Append(delivered, offered[Len(delivered) + 1])
    /\ UNCHANGED <<offered, over>>

GiveUp == over' = TRUE /\ UNCHANGED <<offered, delivered>>

Init == offered = <<>> /\ delivered = <<>> /\ over = FALSE
Next == Offer \/ Deliver \/ GiveUp
Spec == Init /\ [][Next]_<<offered, delivered, over>>
===============================================================================
