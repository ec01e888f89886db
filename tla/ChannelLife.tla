----------------------------- MODULE ChannelLife ----------------------------
(***************************************************************************)
(* What the control plane and the relay rely on in each other: the life of *)
(* one channel, without maps, notices, sockets or coroutines.  A channel   *)
(* is made, then started or given up; once started it is stopped by a      *)
(* stop() that a session posted, or stops itself after it lost an end, and *)
(* never runs again.                                                       *)
(***************************************************************************)

CONSTANT Ends       \* the two ends of the channel

VARIABLES
    life,       \* "made", "running", "stopped" or "given_up"
    asked,      \* the ends whose session has posted a stop() that is not yet run
    lost        \* the ends that are closed

vars == <<life, asked, lost>>

Init == life = "made" /\ asked = {} /\ lost = {}

Start ==
    /\ life = "made"
    /\ life' = "running"
    /\ UNCHANGED <<asked, lost>>

GiveUp ==
    /\ life = "made"
    /\ life' = "given_up" /\ lost' = Ends
    /\ UNCHANGED asked

\* A stop() may be posted at any time, before the channel is started too.
Ask(e) ==
    /\ asked' = asked \cup {e}
    /\ UNCHANGED <<life, lost>>

\* A stop() that was posted has its turn; it only stops a channel that runs.
Grant(e) ==
    /\ e \in asked
    /\ asked' = asked \ {e}
    /\ \/ life = "running" /\ life' = "stopped" /\ lost' = Ends
       \/ life # "running" /\ UNCHANGED <<life, lost>>

Lose(e) ==
    /\ life \in {"made", "running"}
    /\ lost' = lost \cup {e}
    /\ UNCHANGED <<life, asked>>

\* The channel stops without being asked, but not while both ends are there.
Abort ==
    /\ life = "running" /\ lost # {}
    /\ life' = "stopped" /\ lost' = Ends
    /\ UNCHANGED asked

Next == Start \/ GiveUp \/ Abort \/ \E e \in Ends : Ask(e) \/ Grant(e) \/ Lose(e)

Spec == Init /\ [][Next]_vars
=============================================================================
