------------------------------- MODULE Outbox -------------------------------
(***************************************************************************)
(* The promise of a queue that hands messages on in the order in which it  *)
(* got them, each once, until it is cut; from then on nothing more comes   *)
(* out, so that the other end never sees a gap.  CSession::doWrite makes   *)
(* it for the packets to a client, the Redis client for the commands it is *)
(* given and the calls of their handlers.                                  *)
(***************************************************************************)
EXTENDS Naturals, Sequences

CONSTANT Messages

VARIABLES
    accepted,   \* the messages handed over, in order
    arrived,    \* the messages that have come out, in order
    open        \* the queue is not cut

vars == <<accepted, arrived, open>>

Init == accepted = <<>> /\ arrived = <<>> /\ open = TRUE

Accept ==
    /\ \E m \in Messages : accepted' = Append(accepted, m)
    /\ UNCHANGED <<arrived, open>>

Arrive ==
    /\ open /\ Len(arrived) < Len(accepted)
    /\ arrived' = Append(arrived, accepted[Len(arrived) + 1])
    /\ UNCHANGED <<accepted, open>>

Cut ==
    /\ open
    /\ open' = FALSE
    /\ UNCHANGED <<accepted, arrived>>

Next == Accept \/ Arrive \/ Cut

Spec == Init /\ [][Next]_vars
=============================================================================
