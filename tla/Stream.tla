------------------------------- MODULE Stream -------------------------------
(***************************************************************************)
(* The connection-oriented transports below the core: tcp, tls+tcp, unix,  *)
(* winpipe, socket and ws, with the handshaker the first five share.  One  *)
(* listener, its accept loop, the goroutines that negotiate, the core's    *)
(* serve loop that calls Accept, Close, and one dialer with a handshaker   *)
(* of its own.  Bytes are abstracted to what a peer does during            *)
(* negotiation; the operating system's side of a socket is open or closed. *)
(***************************************************************************)
EXTENDS Naturals, FiniteSets, Sequences, Functions

CONSTANTS
    Streams,        \* connections (net.Conn)
    StreamRuns,     \* the scenarios to explore
    NoStream

\* The stages of a connection, con[c].st: "tls" and "tlshs": before and during the
\* TLS handshake; "made": a pipe that nobody negotiates on yet; "work" to "bad":
\* its handshake; "queued": ready for Accept; "given": returned by Accept or Dial.
VARIABLES
    conf,           \* the scenario; it never changes
    con,            \* every connection and the goroutine that negotiates on it
    lpc,            \* the call of listener.Listen
    cpc,            \* the call of listener.Close
    loop,           \* the accept loop: "off", "run" or the connection it holds
    acc,            \* the core's serve goroutine, in Accept
    dpc,            \* the dialer's Dial
    closeq,         \* listener.closeq closed, or listener.closed
    osl,            \* the listening socket
    act,            \* the socket given with OptionListenFD, not yet in use
    running,        \* ws: listener.running
    noserve,        \* ws: listener.noserve
    pend,           \* listener.pending
    hsclosed,       \* connHandshaker.closed of the listener's handshaker
    workq,          \* connHandshaker.workq, of both handshakers
    doneq           \* connHandshaker.doneq of each handshaker

svars == <<conf, con, lpc, cpc, loop, acc, dpc, closeq, osl, act, running, noserve, pend,
           hsclosed, workq, doneq>>

Tran == conf.tran
Handshaken == {"tcp", "tls", "unix", "winpipe", "socket"}
Looping == {"tcp", "tls", "unix", "winpipe"}
\* The transports whose Listen looks at "closed" before it takes the lock.
Unlocked == {"tcp", "tls", "ws"}
Sides == {"listener", "dialer"}
Mine(s) == {c \in Streams : conf.side[c] = s}
Peer(c) == conf.peers[c]

\* A connection is on one side, and no connection is a state of a goroutine.
ASSUME StreamAssumption ==
    /\ NoStream \notin Streams
    /\ Streams \cap {"off", "run", "idle", "check", "asleep", "over"} = {}
    /\ \A r \in StreamRuns : r.tran \in Handshaken \cup {"ws"} /\ r.side \in [Streams -> Sides]

StreamInit ==
    /\ conf \in StreamRuns
    /\ con = [c \in Streams |-> [st |-> "none", sock |-> TRUE, pcl |-> FALSE, bye |-> FALSE]]
    /\ lpc = "idle" /\ cpc = "idle" /\ loop = "off" /\ acc = "idle" /\ dpc = "idle"
    /\ closeq = FALSE /\ osl = "none" /\ act = "none"
    /\ running = FALSE /\ noserve = FALSE /\ pend = <<>>
    /\ hsclosed = FALSE /\ workq = {} /\ doneq = [s \in Sides |-> <<>>]

\* Close of the pipe: it marks the pipe and closes the connection.
Closed(r) == [r EXCEPT !.pcl = TRUE, !.sock = FALSE]
CloseConns(cs, st) == [c \in Streams |-> IF c \in cs THEN Closed([con[c] EXCEPT !.st = st]) ELSE con[c]]
Stage(c, st) == con' = [con EXCEPT ![c].st = st]
Fail(c) == con' = CloseConns({c}, "failed")
SockClosed(s) == IF s = "open" THEN "closed" ELSE s

UnchL == UNCHANGED <<lpc, loop, osl, act, running, noserve>>
UnchH == UNCHANGED <<hsclosed, workq, doneq>>
UnchC == UNCHANGED <<cpc, closeq>>
UnchA == UNCHANGED <<acc, dpc>>

(***************************************************************************)
(* The handshaker.                                                         *)
(***************************************************************************)
\* Start does not look at "closed": a late pipe is closed by its worker.
hsStart(c) ==
    /\ con[c].st = "made"
    /\ Stage(c, "work")
    /\ workq' = workq \cup {c}

\* The peer's header arrives, and is the one expected.
hsRead(c) ==
    /\ con[c].st = "work" /\ con[c].sock /\ Peer(c) = "good"
    /\ Stage(c, "read")
    /\ UNCHANGED <<conf, pend>> /\ UnchL /\ UnchH /\ UnchC /\ UnchA

\* A bad header, a connection that breaks or was closed.
hsReadFails(c) ==
    /\ con[c].st = "work" /\ (Peer(c) = "bad" \/ ~con[c].sock \/ conf.breaks)
    /\ con' = [con EXCEPT ![c].st = "bad", ![c].sock = FALSE]
    /\ UNCHANGED <<conf, pend>> /\ UnchL /\ UnchH /\ UnchC /\ UnchA

\* The deadline of the handshake passes.
hsTimeout(c) ==
    /\ con[c].st = "work" /\ Peer(c) = "silent" /\ conf.timed
    /\ con' = [con EXCEPT ![c].st = "bad", ![c].sock = FALSE]
    /\ UNCHANGED <<conf, pend>> /\ UnchL /\ UnchH /\ UnchC /\ UnchA

\* With the header verified, the pipe opens unless it was closed meanwhile.
hsFinish(c) ==
    /\ con[c].st = "read"
    /\ Stage(c, IF con[c].pcl THEN "bad" ELSE "ok")
    /\ UNCHANGED <<conf, pend>> /\ UnchL /\ UnchH /\ UnchC /\ UnchA

Woken(w) == IF w = "asleep" THEN "check" ELSE w
Broadcast(s) ==
    /\ acc' = IF s = "listener" THEN Woken(acc) ELSE acc
    /\ dpc' = IF s = "dialer" THEN Woken(dpc) ELSE dpc

\* The worker queues its result.
Publish(c, item) == doneq' = [doneq EXCEPT ![conf.side[c]] = Append(@, item)]
hsWorker_KeepsWork(c) ==
    /\ con[c].st \in {"ok", "bad"}
    /\ UNCHANGED workq
    /\ \/ con[c].st = "bad" /\ Fail(c) /\ Publish(c, [c |-> NoStream, e |-> "err"])
       \/ /\ con[c].st = "ok" /\ conf.side[c] = "listener" /\ hsclosed
          /\ con' = CloseConns({c}, "queued") /\ Publish(c, [c |-> c, e |-> "closed"])
       \/ /\ con[c].st = "ok" /\ ~(conf.side[c] = "listener" /\ hsclosed)
          /\ Stage(c, "queued") /\ Publish(c, [c |-> c, e |-> "nil"])
    /\ Broadcast(conf.side[c])
    /\ UNCHANGED <<conf, pend, hsclosed>> /\ UnchL /\ UnchC
hsWorker(c) ==
    /\ con[c].st \in {"ok", "bad"}
    /\ workq' = workq \ {c}
    /\ \/ con[c].st = "bad" /\ Fail(c) /\ Publish(c, [c |-> NoStream, e |-> "err"])
       \/ /\ con[c].st = "ok" /\ conf.side[c] = "listener" /\ hsclosed
          /\ con' = CloseConns({c}, "queued") /\ Publish(c, [c |-> c, e |-> "closed"])
       \/ /\ con[c].st = "ok" /\ ~(conf.side[c] = "listener" /\ hsclosed)
          /\ Stage(c, "queued") /\ Publish(c, [c |-> c, e |-> "nil"])
    /\ Broadcast(conf.side[c])
    /\ UNCHANGED <<conf, pend, hsclosed>> /\ UnchL /\ UnchC

\* Wait of handshaker s, called where the caller's state w is "check"; next
\* is the state it ends in.  A failed item's pipe is not handed out.
hsWait(s, w, next) ==
    /\ w = "check"
    /\ \/ s = "listener" /\ hsclosed /\ next = "over" /\ UNCHANGED <<con, doneq>>
       \/ ~(s = "listener" /\ hsclosed) /\ doneq[s] = <<>> /\ next = "asleep" /\ UNCHANGED <<con, doneq>>
       \/ /\ ~(s = "listener" /\ hsclosed) /\ doneq[s] # <<>> /\ next = "idle"
          /\ doneq' = [doneq EXCEPT ![s] = Tail(@)]
          /\ LET i == Head(doneq[s]) IN
                IF i.e = "nil" THEN Stage(i.c, "given") ELSE UNCHANGED con

\* Close of the handshaker: what is being negotiated, and what is queued, closes.
hsClose_Silent ==
    LET queued == {i.c : i \in Range(doneq["listener"])} \ {NoStream}
        work == workq \cap Mine("listener")
    IN  /\ hsclosed' = TRUE
        /\ con' = [c \in Streams |-> IF c \in queued THEN Closed([con[c] EXCEPT !.st = "failed"])
                                     ELSE IF c \in work THEN Closed(con[c]) ELSE con[c]]
        /\ doneq' = [doneq EXCEPT !["listener"] = <<>>]
        /\ UNCHANGED <<workq, acc, dpc>>
hsClose ==
    LET queued == {i.c : i \in Range(doneq["listener"])} \ {NoStream}
        work == workq \cap Mine("listener")
    IN  /\ hsclosed' = TRUE
        /\ con' = [c \in Streams |-> IF c \in queued THEN Closed([con[c] EXCEPT !.st = "failed"])
                                     ELSE IF c \in work THEN Closed(con[c]) ELSE con[c]]
        /\ doneq' = [doneq EXCEPT !["listener"] = <<>>]
        /\ Broadcast("listener")
        /\ UNCHANGED workq

(***************************************************************************)
(* Listen.  The core calls it once; an error ends the listener.            *)
(***************************************************************************)
\* Listen finds the listener closed.
listenClosed ==
    /\ lpc = "idle" /\ closeq /\ (Tran \in Unlocked \/ cpc \in {"idle", "done"})
    /\ lpc' = "failed"
    /\ UNCHANGED <<conf, con, loop, osl, act, running, noserve, pend>> /\ UnchH /\ UnchC /\ UnchA

\* The test of "closed" that tcp, tls+tcp and ws make without the lock.
listenCheck ==
    /\ Tran \in Unlocked /\ lpc = "idle" /\ ~closeq
    /\ lpc' = "checked"
    /\ UNCHANGED <<conf, con, loop, osl, act, running, noserve, pend>> /\ UnchH /\ UnchC /\ UnchA

\* The socket that was passed in, or one of the system's, which may refuse.
Bind(ok) ==
    IF ok
    THEN /\ lpc' = "done" /\ osl' = "open" /\ loop' = IF Tran \in Looping THEN "run" ELSE loop
         /\ act' = IF act = "open" THEN "none" ELSE act
    ELSE act # "open" /\ lpc' = "failed" /\ UNCHANGED <<osl, loop, act>>
UnchBind == UNCHANGED <<conf, con, running, noserve, pend>> /\ UnchH /\ UnchC /\ UnchA

\* Close holds the listener's lock while it closes the socket: one step.
tcpListen == Tran = "tcp" /\ lpc = "checked" /\ (\E ok \in BOOLEAN : Bind(ok)) /\ UnchBind
tlsListen ==
    /\ Tran = "tls" /\ lpc = "checked"
    /\ IF conf.config THEN \E ok \in BOOLEAN : Bind(ok) ELSE lpc' = "failed" /\ UNCHANGED <<osl, loop, act>>
    /\ UnchBind
\* unix holds the lock from its test to the end; a path that another process
\* listens on, or that is no socket, is left alone, a stale one is replaced.
removeStaleSocket(path) == IF path = "stale" THEN "none" ELSE path
unixListen ==
    /\ Tran = "unix" /\ lpc = "idle" /\ ~closeq /\ cpc \in {"idle", "done"}
    /\ \E path \in conf.paths : Bind(act = "open" \/ removeStaleSocket(path) = "none")
    /\ UnchBind
winpipeListen ==
    /\ Tran = "winpipe" /\ lpc = "idle" /\ ~closeq /\ cpc \in {"idle", "done"}
    /\ (\E ok \in BOOLEAN : Bind(ok)) /\ UnchBind
\* The descriptors that were passed in before are negotiated on now.
socketListen ==
    /\ Tran = "socket" /\ lpc = "idle" /\ ~closeq
    /\ lpc' = "done" /\ pend' = <<>>
    /\ con' = [c \in Streams |-> IF c \in Range(pend) THEN [con[c] EXCEPT !.st = "made"] ELSE con[c]]
    /\ UNCHANGED <<conf, loop, osl, act, running, noserve>> /\ UnchH /\ UnchC /\ UnchA
wsListen ==
    /\ Tran = "ws" /\ lpc = "checked"
    /\ \/ noserve /\ lpc' = "done" /\ UNCHANGED <<osl, loop, act, running, pend>>
       \/ ~noserve /\ ~conf.config /\ lpc' = "failed" /\ UNCHANGED <<osl, loop, act, running, pend>>
       \/ /\ ~noserve /\ conf.config
          /\ \E ok \in BOOLEAN : /\ Bind(ok)
                                  /\ running' = (running \/ ok) /\ pend' = IF ok THEN <<>> ELSE pend
    /\ UNCHANGED <<conf, con, noserve>> /\ UnchH /\ UnchC /\ UnchA

\* SetOption(OptionListenFD): a socket that is already bound, to listen on.
setListenFD ==
    /\ Tran \in {"tcp", "tls", "unix"} /\ conf.fds
    /\ ~closeq /\ cpc \in {"idle", "done"} /\ osl = "none" /\ act = "none"
    /\ act' = "open"
    /\ UNCHANGED <<conf, con, lpc, loop, osl, running, noserve, pend>> /\ UnchH /\ UnchC /\ UnchA

\* GetOption(OptionWebSocketHandler): the application serves HTTP itself.
wsUseHandler ==
    /\ Tran = "ws" /\ conf.fds /\ lpc = "idle" /\ ~noserve
    /\ running' = TRUE /\ noserve' = TRUE
    /\ UNCHANGED <<conf, con, lpc, loop, osl, act, pend>> /\ UnchH /\ UnchC /\ UnchA

(***************************************************************************)
(* Connections reach the listener.                                         *)
(***************************************************************************)
Arrives(c) == con[c].st = "none" /\ c \in Mine("listener")

\* Accept on the listening socket.  tls+tcp starts a goroutine that negotiates
\* TLS; the others make the pipe in the loop.
loopAccept(c) ==
    /\ Tran \in Looping /\ loop = "run" /\ osl = "open" /\ Arrives(c)
    /\ IF Tran = "tls" THEN Stage(c, "tls") /\ UNCHANGED loop ELSE Stage(c, "made") /\ loop' = c
    /\ UNCHANGED <<conf, lpc, osl, act, running, noserve, pend>> /\ UnchH /\ UnchC /\ UnchA
loopStart_Serial ==
    /\ loop \in Streams /\ workq = {}
    /\ hsStart(loop)
    /\ loop' = "run"
    /\ UNCHANGED <<conf, lpc, osl, act, running, noserve, pend, hsclosed, doneq>> /\ UnchC /\ UnchA
loopStart ==
    /\ loop \in Streams
    /\ hsStart(loop)
    /\ loop' = "run"
    /\ UNCHANGED <<conf, lpc, osl, act, running, noserve, pend, hsclosed, doneq>> /\ UnchC /\ UnchA
\* Accept fails: the loop ends if the listener is closed, else it tries again.
loopEnds ==
    /\ Tran \in Looping /\ loop = "run" /\ osl = "closed" /\ closeq
    /\ loop' = "off"
    /\ UNCHANGED <<conf, con, lpc, osl, act, running, noserve, pend>> /\ UnchH /\ UnchC /\ UnchA

\* The goroutine of a tls+tcp connection, up to the handshaker.
tlsStart(c) ==
    /\ con[c].st = "tls" /\ c \in Mine("listener")
    /\ IF closeq THEN Fail(c) /\ UNCHANGED pend ELSE Stage(c, "tlshs") /\ pend' = Append(pend, c)
    /\ UNCHANGED conf /\ UnchL /\ UnchH /\ UnchC /\ UnchA
tlsHandshake(c) ==
    /\ con[c].st = "tlshs" /\ con[c].sock /\ Peer(c) # "silent"
    /\ Stage(c, "made")
    /\ UNCHANGED <<conf, pend>> /\ UnchL /\ UnchH /\ UnchC /\ UnchA
tlsHandshakeFails(c) ==
    /\ con[c].st = "tlshs" /\ (~con[c].sock \/ conf.breaks \/ (Peer(c) = "silent" /\ conf.timed))
    /\ Fail(c)
    /\ pend' = SelectSeq(pend, LAMBDA x : x # c)
    /\ UNCHANGED conf /\ UnchL /\ UnchH /\ UnchC /\ UnchA
tlsHandOver(c) ==
    /\ Tran = "tls" /\ c \in Mine("listener")
    /\ hsStart(c)
    /\ UNCHANGED <<conf, pend, hsclosed, doneq>> /\ UnchL /\ UnchC /\ UnchA
\* The deferred removal from pending, after the pipe was handed over.
tlsForget(c) ==
    /\ c \in Range(pend) /\ Tran = "tls" /\ con[c].st \notin {"tls", "tlshs", "made"}
    /\ pend' = SelectSeq(pend, LAMBDA x : x # c)
    /\ UNCHANGED <<conf, con>> /\ UnchL /\ UnchH /\ UnchC /\ UnchA

\* SetOption(OptionSocketFD): a connected socket is passed in.
setSocketFD(c) ==
    /\ Tran = "socket" /\ Arrives(c)
    /\ \/ closeq /\ Fail(c) /\ UNCHANGED pend
       \/ ~closeq /\ lpc # "done" /\ Stage(c, "fd") /\ pend' = Append(pend, c)
       \/ ~closeq /\ lpc = "done" /\ Stage(c, "made") /\ UNCHANGED pend
    /\ UNCHANGED conf /\ UnchL /\ UnchH /\ UnchC /\ UnchA
socketStart(c) ==
    /\ Tran = "socket" /\ con[c].st = "made" /\ c \in Mine("listener")
    /\ IF closeq THEN Fail(c) /\ UNCHANGED workq ELSE hsStart(c)
    /\ UNCHANGED <<conf, pend, hsclosed, doneq>> /\ UnchL /\ UnchC /\ UnchA

\* ServeHTTP: the subprotocol and "running" are looked at, then the request
\* is upgraded, without the lock.
wsServeHTTP(c) ==
    /\ Tran = "ws" /\ Arrives(c) /\ (osl = "open" \/ noserve) /\ Peer(c) # "silent"
    /\ IF Peer(c) = "good" /\ running THEN Stage(c, "made") ELSE Fail(c)
    /\ UNCHANGED <<conf, pend>> /\ UnchL /\ UnchH /\ UnchC /\ UnchA
wsUpgradeFails(c) ==
    /\ Tran = "ws" /\ con[c].st = "made" /\ conf.breaks
    /\ Fail(c)
    /\ UNCHANGED <<conf, pend>> /\ UnchL /\ UnchH /\ UnchC /\ UnchA
wsHandler(c) ==
    /\ Tran = "ws" /\ con[c].st = "made"
    /\ Stage(c, "queued")
    /\ pend' = Append(pend, c)
    /\ Broadcast("listener")
    /\ UNCHANGED conf /\ UnchL /\ UnchH /\ UnchC

(***************************************************************************)
(* Accept, in the core's serve loop, which first looks at core's "closed". *)
(***************************************************************************)
serve ==
    /\ acc = "idle" /\ lpc = "done"
    /\ acc' = IF cpc = "idle" THEN "check" ELSE "over"
    /\ UNCHANGED <<conf, con, pend, dpc>> /\ UnchL /\ UnchH /\ UnchC
acceptPipe ==
    /\ Tran \in Handshaken
    /\ hsWait("listener", acc, acc')
    /\ UNCHANGED <<conf, pend, dpc, hsclosed, workq>> /\ UnchL /\ UnchC
\* ws hands out the latest connection first.
wsAccept_PendingFirst ==
    /\ Tran = "ws" /\ acc = "check"
    /\ \/ pend = <<>> /\ ~running /\ acc' = "over" /\ UNCHANGED <<con, pend>>
       \/ pend = <<>> /\ running /\ acc' = "asleep" /\ UNCHANGED <<con, pend>>
       \/ pend # <<>> /\ acc' = "idle" /\ Stage(pend[Len(pend)], "given") /\ pend' = SubSeq(pend, 1, Len(pend) - 1)
    /\ UNCHANGED <<conf, dpc>> /\ UnchL /\ UnchH /\ UnchC
wsAccept ==
    /\ Tran = "ws" /\ acc = "check"
    /\ \/ ~running /\ acc' = "over" /\ UNCHANGED <<con, pend>>
       \/ running /\ pend = <<>> /\ acc' = "asleep" /\ UNCHANGED <<con, pend>>
       \/ running /\ pend # <<>> /\ acc' = "idle" /\ Stage(pend[Len(pend)], "given") /\ pend' = SubSeq(pend, 1, Len(pend) - 1)
    /\ UNCHANGED <<conf, dpc>> /\ UnchL /\ UnchH /\ UnchC

\* The owner of a pipe closes it.
pipeClose(c) ==
    /\ con[c].st = "given" /\ con[c].sock
    /\ con' = [con EXCEPT ![c] = [Closed(@) EXCEPT !.bye = TRUE]]
    /\ UNCHANGED <<conf, pend>> /\ UnchL /\ UnchH /\ UnchC /\ UnchA

(***************************************************************************)
(* Close of the listener.                                                  *)
(***************************************************************************)
CloseSockets == osl' = SockClosed(osl) /\ act' = SockClosed(act)
tcpClose ==
    /\ Tran = "tcp" /\ cpc = "idle" /\ cpc' = "sock"
    /\ closeq' = TRUE /\ CloseSockets
    /\ UNCHANGED <<conf, con, pend, lpc, loop, running, noserve>> /\ UnchH /\ UnchA
tlsClose ==
    /\ Tran = "tls" /\ cpc = "idle" /\ cpc' = "q"
    /\ closeq' = TRUE
    /\ UNCHANGED <<conf, con, pend>> /\ UnchL /\ UnchH /\ UnchA
tlsCloseConns ==
    /\ Tran = "tls" /\ cpc = "q" /\ cpc' = "sock"
    /\ CloseSockets
    /\ con' = [c \in Streams |-> [con[c] EXCEPT !.sock = @ /\ c \notin Range(pend)]]
    /\ UNCHANGED <<conf, pend, closeq, lpc, loop, running, noserve>> /\ UnchH /\ UnchA
\* unix and winpipe hold the lock until the handshaker is closed.
unixClose ==
    /\ Tran = "unix" /\ cpc = "idle" /\ cpc' = "sock"
    /\ CloseSockets
    /\ UNCHANGED <<conf, con, pend, closeq, lpc, loop, running, noserve>> /\ UnchH /\ UnchA
unixCloseq ==
    /\ Tran = "unix" /\ cpc = "hs" /\ cpc' = "done"
    /\ closeq' = TRUE
    /\ UNCHANGED <<conf, con, pend>> /\ UnchL /\ UnchH /\ UnchA
winpipeClose ==
    /\ Tran = "winpipe" /\ cpc = "idle" /\ cpc' = "sock"
    /\ closeq' = TRUE /\ CloseSockets
    /\ UNCHANGED <<conf, con, pend, lpc, loop, running, noserve>> /\ UnchH /\ UnchA
socketClose ==
    /\ Tran = "socket" /\ cpc = "idle" /\ cpc' = "sock"
    /\ closeq' = TRUE
    /\ con' = CloseConns(Range(pend), "failed") /\ pend' = <<>>
    /\ UNCHANGED conf /\ UnchL /\ UnchH /\ UnchA
closeHandshaker ==
    /\ Tran \in Handshaken /\ cpc = "sock"
    /\ cpc' = IF Tran = "unix" THEN "hs" ELSE "done"
    /\ hsClose
    /\ UNCHANGED <<conf, pend, closeq>> /\ UnchL
wsClose ==
    /\ Tran = "ws" /\ cpc = "idle" /\ cpc' = "done"
    /\ closeq' = TRUE /\ running' = FALSE
    /\ CloseSockets
    /\ con' = CloseConns(Range(pend), "failed") /\ pend' = <<>>
    /\ Broadcast("listener")
    /\ UNCHANGED <<conf, lpc, loop, noserve>> /\ UnchH

(***************************************************************************)
(* Dial: connect, negotiate TLS, hand over, wait for the own handshaker.   *)
(***************************************************************************)
UnchDial == UNCHANGED <<conf, pend, acc, hsclosed>> /\ UnchL /\ UnchC
Connect(c, st) ==
    /\ dpc = "idle" /\ con[c].st = "none" /\ c \in Mine("dialer")
    /\ Stage(c, st) /\ dpc' = c
    /\ UNCHANGED <<workq, doneq>> /\ UnchDial
Negotiate(c) == dpc = c /\ hsStart(c) /\ dpc' = "check" /\ UNCHANGED doneq /\ UnchDial
AwaitOwn == hsWait("dialer", dpc, dpc') /\ UNCHANGED workq /\ UnchDial
tcpDial(c) == Tran = "tcp" /\ (Connect(c, "made") \/ Negotiate(c) \/ AwaitOwn)
unixDial(c) == Tran = "unix" /\ (Connect(c, "made") \/ Negotiate(c) \/ AwaitOwn)
winpipeDial(c) == Tran = "winpipe" /\ (Connect(c, "made") \/ Negotiate(c) \/ AwaitOwn)
tlsDial(c) ==
    /\ Tran = "tls"
    /\ \/ Connect(c, "tls") \/ Negotiate(c) \/ AwaitOwn
       \/ /\ dpc = c /\ con[c].st = "tls"
          /\ \/ Peer(c) # "silent" /\ Stage(c, "made") /\ UNCHANGED dpc
             \/ (conf.breaks \/ (Peer(c) = "silent" /\ conf.timed)) /\ Fail(c) /\ dpc' = "idle"
          /\ UNCHANGED <<workq, doneq>> /\ UnchDial
wsDial(c) ==
    /\ Tran = "ws" /\ con[c].st = "none" /\ c \in Mine("dialer")
    /\ \/ Peer(c) = "good" /\ Stage(c, "given")
       \/ (Peer(c) = "bad" \/ conf.breaks) /\ Fail(c)
    /\ UNCHANGED <<dpc, workq, doneq>> /\ UnchDial

(***************************************************************************)
(* The specification.                                                      *)
(***************************************************************************)
Dialing == \E c \in Streams : tcpDial(c) \/ unixDial(c) \/ winpipeDial(c) \/ tlsDial(c) \/ wsDial(c)
Handshake(c) == hsRead(c) \/ hsReadFails(c) \/ hsTimeout(c) \/ hsFinish(c) \/ hsWorker(c)
Worker(c) ==
    \/ Handshake(c) \/ socketStart(c) \/ wsUpgradeFails(c) \/ wsHandler(c)
    \/ tlsStart(c) \/ tlsHandshake(c) \/ tlsHandshakeFails(c) \/ tlsHandOver(c)
Listening == tcpListen \/ tlsListen \/ wsListen
Accepting == serve \/ acceptPipe \/ wsAccept
Looping1 == loopStart \/ loopEnds
CloseBegins == tcpClose \/ tlsClose \/ unixClose \/ winpipeClose \/ socketClose \/ wsClose
CloseGoesOn == tlsCloseConns \/ closeHandshaker \/ unixCloseq

StreamNext ==
    \/ \E c \in Streams : \/ Worker(c) \/ tlsForget(c) \/ loopAccept(c) \/ setSocketFD(c)
                          \/ wsServeHTTP(c) \/ pipeClose(c)
    \/ Dialing \/ Listening \/ Accepting \/ Looping1 \/ CloseBegins \/ CloseGoesOn
    \/ listenClosed \/ listenCheck \/ unixListen \/ winpipeListen \/ socketListen
    \/ setListenFD \/ wsUseHandler

\* As long as a goroutine can run, a timer fire or a call that has begun go on,
\* one of them does.  (Weaker than fairness to each, and enough: the
\* connections are finitely many.)
StreamProgress ==
    \/ \E c \in Streams : Worker(c) \/ tlsForget(c)
    \/ Listening \/ Accepting \/ Looping1 \/ CloseGoesOn \/ (dpc # "idle" /\ Dialing)
StreamFairness == WF_svars(StreamProgress)

(***************************************************************************)
(* Properties.                                                             *)
(***************************************************************************)

\* Established connections are unaffected by the Close of the listener: only
\* the owner of a pipe that was handed out closes it.  (tls+tcp is left out:
\* its Close may still find such a connection in pending.)
EstablishedUnaffected ==
    \A c \in Streams : Tran # "tls" /\ con[c].st = "given" => con[c].sock \/ con[c].bye

\* A peer that never sends its header, or never completes TLS, does not hold
\* up the others: a compatible connection reaches Accept although no
\* handshake ever times out, unless it breaks or the listener is closed.
SlowPeerHoldsUpNobody ==
    \A c \in Streams :
        (Peer(c) = "good" /\ lpc = "done" /\ con[c].st \notin {"none", "fd", "failed"}) ~>
            (con[c].st \in {"given", "failed"} \/ cpc # "idle")

\* After Close the accept loop and the core's serve loop come to an end, and
\* no listening socket is left open, neither the bound one nor the one that
\* was passed in: Listen and Close exclude each other (unix, winpipe, socket;
\* for tcp, tls+tcp and ws see the README).
LoopsEnd ==
    (cpc = "done" /\ Tran \notin Unlocked) ~>
        (loop = "off" /\ (lpc = "done" => acc = "over") /\ osl # "open" /\ act # "open")

\* Every transport implements the contract of TranListener.  A connection
\* counts as accepted when Accept returns it and as gone when it is closed
\* for good; a descriptor passed to a socket listener arrives with Listen.
\* A silent peer is dropped only by the deadline of its handshake; and ws
\* may keep a connection that was upgraded while the listener closed.
StreamShut == IF hsclosed \/ (Tran = "ws" /\ closeq) THEN {"listener"} ELSE {}
StreamFate(c) ==
    IF con[c].st \in {"none", "fd"} THEN "none"
    ELSE IF con[c].st = "given" THEN "accepted"
    ELSE IF con[c].st = "failed" \/ (hsclosed /\ ~con[c].sock) THEN "gone" ELSE "pending"
StreamEndpoint == INSTANCE Endpoint WITH
    Listeners <- {"listener"}, Conns <- Streams, Of <- [c \in Streams |-> "listener"],
    shut <- StreamShut,
    conns <- [c \in Streams |-> IF c \in Mine("listener") THEN StreamFate(c) ELSE "none"]
StreamIsEndpoint ==
    /\ StreamEndpoint!EndpointSafety
    /\ (Tran # "ws" /\ conf.timed) => StreamEndpoint!Settles

(***************************************************************************)
(* What the proofs need besides.                                           *)
(***************************************************************************)
StreamSpec == StreamInit /\ [][StreamNext]_svars

InWork == {"work", "read", "ok", "bad"}
Alive == {"none", "fd", "made", "work", "read", "ok", "queued"}
ConState ==
    [st : Alive \cup {"tls", "tlshs", "bad", "given", "failed"},
     sock : BOOLEAN, pcl : BOOLEAN, bye : BOOLEAN]
Result == [c : Streams \cup {NoStream}, e : {"nil", "err", "closed"}]

StreamTypeOK ==
    /\ conf \in StreamRuns
    /\ con \in [Streams -> ConState]
    /\ closeq \in BOOLEAN /\ hsclosed \in BOOLEAN /\ running \in BOOLEAN
    /\ workq \in SUBSET Streams
    /\ doneq \in [Sides -> Seq(Result)]

\* What holds of the state r of a connection c; h: the handshaker is closed.
\* Nothing else closes a connection before it is handed out, but a failure.
ConOK(c, r, h) ==
    /\ r.st \in {"tls", "tlshs"} => Tran = "tls"
    /\ Tran = "ws" => r.st \in {"none", "made", "queued", "given", "failed"}
    /\ Tran # "tls" /\ r.st \in Alive /\ ~r.sock => h /\ conf.side[c] = "listener"
    /\ Tran # "tls" /\ r.st = "given" => r.sock \/ r.bye

\* The handshakers hold connections that are not handed out, on their side, once.
Handshaking ==
    /\ \A c \in workq : con[c].st \in InWork
    /\ \A s \in Sides : \A i \in DOMAIN doneq[s] :
           LET c == doneq[s][i].c IN
           /\ doneq[s][i].e = "nil" => c # NoStream
           /\ c # NoStream => con[c].st = "queued" /\ conf.side[c] = s
           /\ \A j \in DOMAIN doneq[s] : c # NoStream /\ c = doneq[s][j].c => i = j
    /\ Tran = "ws" => ~hsclosed /\ loop = "off" /\ \A s \in Sides : doneq[s] = <<>>

\* The same of the connections a socket or ws listener keeps itself.
Pending ==
    Tran \in {"socket", "ws"} =>
        /\ pend \in Seq(Streams)
        /\ \A i \in DOMAIN pend : /\ con[pend[i]].st = IF Tran = "ws" THEN "queued" ELSE "fd"
                                  /\ \A j \in DOMAIN pend : pend[i] = pend[j] => i = j

\* A ws listener whose Close was called does not hand out what it upgraded.
AcceptOK ==
    /\ closeq => cpc # "idle"
    /\ acc \in {"check", "asleep"} => lpc = "done" /\ (Tran = "ws" /\ closeq => ~running)

StreamInv ==
    /\ StreamTypeOK
    /\ \A c \in Streams : ConOK(c, con[c], hsclosed)
    /\ Handshaking /\ Pending /\ AcceptOK
=============================================================================
