------------------------------- MODULE MCRaw --------------------------------
(* Raw for TLC: small scenarios of every raw protocol. *)
EXTENDS Raw, TLC

CONSTANTS p1, p2, a, b

Plain == [best |-> FALSE, sexp |-> FALSE, rexp |-> FALSE, fnp |-> FALSE, discard |-> FALSE,
          ttl |-> MaxTTL, sqlen |-> 1]
Arrival(dev) == [hdr |-> "ok", dev |-> dev]
Short == [hdr |-> "short", dev |-> 0]

\* Thread a sends, thread b receives.
Both == a :> "send" @@ b :> "recv"
Base == [proto |-> "xpub", cooked |-> FALSE, role |-> Both, opt |-> Plain, hdrs |-> {"none"},
         kinds |-> {Arrival(0)}, loop |-> FALSE, npipes |-> 2, qlens |-> {}, rqlen |-> 1,
         fields |-> {}, sends |-> 0, arrivals |-> 0, sets |-> 0]
Of(name) == [Base EXCEPT !.proto = name]

\* Two messages out, while pipes come and go.
Sends(name) == [Of(name) EXCEPT !.sends = 2]
Replies(name) == [Sends(name) EXCEPT !.hdrs = Pipes \cup {"none"}]
Cooked(name) == [Sends(name) EXCEPT !.cooked = TRUE]
\* Two messages in, while the queue is resized.
Receives(name) == [Of(name) EXCEPT !.arrivals = 2, !.sets = 1, !.qlens = {1}]
\* Any option changes while a message goes out and one comes in.
Options(name) == [Of(name) EXCEPT !.sends = 1, !.arrivals = 1, !.npipes = 1, !.sets = 1,
                                  !.fields = DOMAIN Plain, !.qlens = {2}, !.hdrs = Pipes \cup {"hop"}]
\* Messages that passed none, the allowed number or too many devices, or are garbled.
Hops(name) == [Of(name) EXCEPT !.arrivals = 2, !.npipes = 1, !.kinds =
                 {Arrival(0), Arrival(MaxTTL), Arrival(MaxTTL + 1), Short}]
\* A device between the socket and itself, and one on a loop of the topology.
Devices(name) == [Of(name) EXCEPT !.role = a :> "device" @@ b :> "off", !.arrivals = 2]
Loops(name) == [Devices(name) EXCEPT !.loop = TRUE, !.arrivals = 1, !.npipes = 1]
StarLoop == [Cooked("xstar") EXCEPT !.loop = TRUE, !.sends = 1, !.role[b] = "off"]
Rejected == {[Devices("xbus") EXCEPT !.cooked = TRUE, !.npipes = 0],
             [Devices("xrep") EXCEPT !.npipes = 0]}
\* XPUSH with two sending threads, failing without peers, or losing its queue.
Pushes == {[Sends("xpush") EXCEPT !.role[b] = "send", !.npipes = 1],
           [Sends("xpush") EXCEPT !.opt.fnp = TRUE],
           [Sends("xpush") EXCEPT !.sets = 1, !.qlens = {0, 1}, !.npipes = 1]}

Senders == {"xpub", "xpair", "xreq", "xpush"}
Shared == {"xsub", "xbus", "xpull"}
Limited == {"xstar", "xpair1", "xrep", "xrespondent"}
All == {"xsurveyor"} \cup Senders \cup Shared \cup Limited
OnePipe(c) == [c EXCEPT !.npipes = 1]

Safe == {Sends(n) : n \in Senders} \cup {[Sends("xpair") EXCEPT !.opt.sqlen = 2]}
        \cup {Replies("xrep"), OnePipe(Replies("xrespondent"))}
        \cup {Cooked(n) : n \in {"xbus", "xpair1"}}
        \cup {Receives(n) : n \in Shared}
        \cup {OnePipe(Receives(n)) : n \in {"xsurveyor", "xpair", "xpair1", "xrep", "xrespondent", "xreq"}}
        \cup {[Receives(n) EXCEPT !.arrivals = 1] : n \in {"xstar", "xpair"}}
        \cup {Options(n) : n \in All \ {"xreq", "xpair"}}
        \cup {[Options(n) EXCEPT !.arrivals = 0] : n \in {"xreq", "xpair"}}
        \cup {Hops(n) : n \in Limited \cup {"xsurveyor", "xreq"}}
        \cup {Devices("xbus"), OnePipe(Devices("xpair"))}
        \cup {Loops(n) : n \in {"xbus", "xpair1"}}
        \cup {StarLoop} \cup Rejected \cup Pushes

\* For liveness: one pipe, with one resize where a queue can be resized.
Lively(name) == [OnePipe(Of(name)) EXCEPT !.sends = 1, !.arrivals = 1, !.hdrs = Pipes \cup {"hop"}]
Live1 == {Lively(n) : n \in All}
         \cup {[Lively(n) EXCEPT !.sends = 0, !.sets = 1, !.qlens = {1}]
                 : n \in {"xsub", "xsurveyor", "xbus", "xpair", "xpull", "xrep"}}
         \cup {[Lively("xpush") EXCEPT !.sends = 2, !.arrivals = 0]}

Symmetry == Permutations(Pipes)
=============================================================================
