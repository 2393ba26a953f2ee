-------------------------------- MODULE MCUdp -------------------------------
(***************************************************************************)
(* Small instances of the udp transport.                                   *)
(***************************************************************************)
EXTENDS Udp, TLC

CONSTANTS r1, r2

\* One remote that expires, one that sends, one that connects twice, and two
\* remotes for one place.
UdpIdle == [dials |-> {}, strangers |-> {}, dialMax |-> 1, listenMax |-> 0, dups |-> 0,
            talk |-> FALSE, ages |-> FALSE, hangup |-> FALSE, gens |-> 1, cap |-> 2]
UdpScenarios ==
    {[UdpIdle EXCEPT !.dials = {r1}, !.ages = TRUE, !.hangup = TRUE],
     [UdpIdle EXCEPT !.dials = {r1}, !.talk = TRUE],
     [UdpIdle EXCEPT !.dials = {r1}, !.hangup = TRUE, !.gens = 2, !.dups = 1],
     [UdpIdle EXCEPT !.dials = {r1, r2}, !.cap = 1],
     [UdpIdle EXCEPT !.dials = {r2}, !.strangers = {r2}, !.cap = 1]}

Spec == UdpInit /\ [][UdpNext]_uvars /\ UdpFairness
=============================================================================
