---------------------------- MODULE MCTransport -----------------------------
(***************************************************************************)
(* Small instances of the stream transports and of inproc.  A scenario     *)
(* uses one of the two families; the other stays as it is.                 *)
(***************************************************************************)
EXTENDS Stream, Inproc, TLC

CONSTANTS c1, c2, l1, l2, k1, k2

VARIABLE family     \* the transports that the scenario uses

tvars == <<family, svars, ivars>>

\* Two connections through every stream transport: a peer that is silent, with
\* and without a limit of time, or bad, accepts that fail, a dialer beside the
\* listener, and the ways to listen.
StreamBase == [tran |-> "tcp", side |-> c1 :> "listener" @@ c2 :> "listener",
               peers |-> c1 :> "good" @@ c2 :> "silent", timed |-> FALSE, breaks |-> FALSE,
               config |-> TRUE, fds |-> FALSE, paths |-> {"none"}]
Over(ts) == {[StreamBase EXCEPT !.tran = t] : t \in ts}
StreamScenarios ==
    Over({"tcp", "tls", "unix", "winpipe", "socket", "ws"})
    \cup {[s EXCEPT !.timed = TRUE] : s \in Over({"tcp", "tls", "socket"})}
    \cup {[s EXCEPT !.timed = TRUE, !.breaks = TRUE, !.peers[c2] = "bad"] : s \in Over({"tcp", "tls", "ws"})}
    \cup {[s EXCEPT !.timed = TRUE, !.side[c2] = "dialer", !.peers[c2] = "good"] : s \in Over({"tcp", "winpipe"})}
    \cup {[s EXCEPT !.timed = TRUE, !.side[c2] = "dialer"] : s \in Over({"tls", "ws"})}
    \cup {[s EXCEPT !.side[c1] = "dialer", !.fds = TRUE, !.paths = {"none", "stale", "live", "file"}] :
              s \in Over({"tcp", "tls", "unix", "ws"})}
    \cup {[s EXCEPT !.config = FALSE] : s \in Over({"tls", "ws"})}

\* Two dials of one listener, two listeners that want the same address, and a
\* pair of pipes that carries messages.
InprocIdle == [doors |-> {}, clients |-> {}, strangers |-> {}, talk |-> FALSE]
InprocScenarios ==
    {InprocIdle,
     [InprocIdle EXCEPT !.doors = {l1}, !.clients = {k1, k2}],
     [InprocIdle EXCEPT !.doors = {l1, l2}, !.clients = {k1, k2}, !.strangers = {k2}],
     [InprocIdle EXCEPT !.doors = {l1}, !.clients = {k1}, !.talk = TRUE]}

Init ==
    /\ family \in {"stream", "inproc"}
    /\ StreamInit /\ InprocInit
    /\ family # "stream" => conf = StreamBase
    /\ part = InprocIdle <=> family # "inproc"

Next ==
    \/ family = "stream" /\ StreamNext /\ UNCHANGED <<family, ivars>>
    \/ InprocNext /\ UNCHANGED <<family, svars>>

Spec == Init /\ [][Next]_tvars /\ StreamFairness /\ InprocFairness
=============================================================================
