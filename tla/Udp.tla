-------------------------------- MODULE Udp ---------------------------------
(***************************************************************************)
(* The udp transport: dialers and one listener over a network that loses,  *)
(* duplicates and reorders packets.  Connections are made by CREQ and CACK,*)
(* kept alive by refreshing CREQs, ended by DISC (which may be lost) or by *)
(* expiry; all pipes of the listener share its socket, which stays open    *)
(* after Close until the last of them is gone.                             *)
(*                                                                         *)
(* Time is the flag "fresh" of a pipe, cleared when the time it expires    *)
(* has passed; a size is a number up to MaxPayload.                        *)
(***************************************************************************)
EXTENDS Naturals, FiniteSets, Sequences, Functions

CONSTANTS
    Remotes,        \* Dial calls, each with a socket and an address of its own
    UdpRuns,        \* scenarios
    Gens,           \* bound: pipes the listener makes for one remote address
    MaxPayload,     \* udpMaxPayload
    MaxPeers,       \* udpMaxPeers
    AcceptCap,      \* the capacity of acceptq
    RecvCap,        \* the capacity of recvq
    NoUdp

ASSUME UdpCaps == {Gens, MaxPayload, MaxPeers, AcceptCap, RecvCap} \subseteq Nat \ {0}

UdpConf == [dials : SUBSET Remotes, strangers : SUBSET Remotes, dialMax : Nat, listenMax : Nat, dups : Nat,
            talk : BOOLEAN, ages : BOOLEAN, hangup : BOOLEAN, gens : Nat, cap : Nat]

VARIABLES
    ucf,            \* the scenario; ucf.cap bounds the packets in flight (the
                    \* network loses what is more), ucf.gens is at most Gens
    net,            \* packets in flight
    dups,           \* duplicates the network may still make
    dial,           \* every Dial call
    ul,             \* the listener: conn, closed, the pipes Close has drained
    pipes,          \* listener.pipes, by remote address
    upipe,          \* every pipe, of a dialer or of the listener
    acceptq,
    hand,           \* readLoop of the listener, and the pipe it works on
    reap,           \* the pipes reapExpired has found expired
    uacc,           \* Accept of the core's serve loop, and the pipe it received
    ugiven          \* pipes that Accept returned

uvars == <<ucf, net, dups, dial, ul, pipes, upipe, acceptq, hand, reap, uacc, ugiven>>

Accepted == Remotes \X (1 .. Gens)      \* the pipes of the listener
UdpPipes == Remotes \cup Accepted
Sizes == 1 .. MaxPayload

\* The pipes of dialers and listener are different things.
ASSUME UdpAssumption == /\ UdpRuns \subseteq UdpConf
                        /\ NoUdp \notin Accepted /\ Remotes \cap Accepted = {}

\* A packet [way, at, op, len] is on its way "up" to the listener or "down" to a
\* dialer.  A CREQ or CACK carries the limit of its sender, a DATA packet its length.

\* OptionMaxRecvSize: zero, or more than fits, is the maximum.
setMaxRecv(v) == IF v = 0 \/ v > MaxPayload THEN MaxPayload ELSE v
\* The options are set before Listen and Dial.
MaxRecv(p) == setMaxRecv(IF p \in Remotes THEN ucf.dialMax ELSE ucf.listenMax)

newPipe == [st |-> "none", fresh |-> TRUE, sendMax |-> MaxPayload, recvq |-> 0]

UdpInit ==
    /\ ucf \in UdpRuns
    /\ net = {} /\ dups = ucf.dups
    /\ dial = [d \in Remotes |-> "idle"]
    /\ ul = [conn |-> FALSE, closed |-> FALSE, late |-> {}]
    /\ pipes = [d \in Remotes |-> NoUdp]
    /\ upipe = [p \in UdpPipes |-> newPipe]
    /\ acceptq = <<>>
    /\ hand = [at |-> "read", pipe |-> NoUdp]
    /\ reap = {} /\ ugiven = {}
    /\ uacc = [at |-> "off", pipe |-> NoUdp]

(***************************************************************************)
(* Packets.                                                                *)
(***************************************************************************)
Up(d, op, n) == [way |-> "up", at |-> d, op |-> op, len |-> n]
Down(d, op, n) == [way |-> "down", at |-> d, op |-> op, len |-> n]
\* A packet sent by a pipe.
From(p, op, n) == IF p \in Remotes THEN Up(p, op, n) ELSE Down(p[1], op, n)
Disc(p) == From(p, "disc", 1)
sendCReq(d) == Up(d, "creq", MaxRecv(d))
sendCAck(p) == From(p, "cack", MaxRecv(p))

\* The network takes a packet, delivers one, and may deliver it again.
Holding(ks, sent) == IF Cardinality(ks \cup sent) <= ucf.cap THEN ks \cup sent ELSE ks
Sends(sent) == net' = Holding(net, sent)
Delivers(k, sent) ==
    /\ k \in net
    /\ \/ net' = Holding(net \ {k}, sent) /\ UNCHANGED dups
       \/ dups > 0 /\ Sends(sent) /\ dups' = dups - 1
udpLose(k) ==
    /\ k \in net /\ net' = net \ {k}
    /\ UNCHANGED <<ucf, dups, dial, ul, pipes, upipe, acceptq, hand, reap, uacc, ugiven>>

(***************************************************************************)
(* Pipes.                                                                  *)
(***************************************************************************)
\* pipe.Close, first part: it takes effect (its clock and limit no longer
\* matter), and a DISC is sent.
Closing(p) == upipe' = [upipe EXCEPT ![p].st = "closing", ![p].fresh = TRUE, ![p].sendMax = MaxPayload]
\* Second part: listener.remove, or the close of the dialer's own socket.
\* The listener's socket is closed with its last pipe once it is closed.
Bound_Kept(ps) == ul.conn
Bound(ps) == ul.conn /\ ~(ul.closed /\ \A d \in Remotes : ps[d] = NoUdp)
udpRemove(p) ==
    /\ upipe[p].st = "closing"
    /\ upipe' = [upipe EXCEPT ![p].st = "closed"]
    /\ \/ /\ p \in Remotes /\ UNCHANGED <<pipes, ul, hand>>
       \/ /\ p \in Accepted
          /\ pipes' = IF pipes[p[1]] = p THEN [pipes EXCEPT ![p[1]] = NoUdp] ELSE pipes
          /\ ul' = [ul EXCEPT !.conn = Bound(pipes')]
          /\ hand' = IF hand.pipe = p /\ hand.at = "remove" THEN [at |-> "read", pipe |-> NoUdp] ELSE hand
    /\ UNCHANGED <<ucf, net, dups, dial, acceptq, reap, uacc, ugiven>>

\* Close by the core, of a pipe it was given.
Given(p) == IF p \in Remotes THEN dial[p] = "done" ELSE p \in ugiven
udpPipeClose(p) ==
    /\ ucf.hangup /\ Given(p) /\ upipe[p].st = "open"
    /\ Closing(p)
    /\ Sends({Disc(p)})
    /\ UNCHANGED <<ucf, dups, dial, ul, pipes, acceptq, hand, reap, uacc, ugiven>>

\* Send drops what is longer than the peer receives.
udpSend(p, n) ==
    /\ ucf.talk /\ Given(p) /\ upipe[p].st = "open" /\ n <= upipe[p].sendMax
    /\ Sends({From(p, "data", n)})
    /\ UNCHANGED <<ucf, dups, dial, ul, pipes, upipe, acceptq, hand, reap, uacc, ugiven>>
udpRecv(p) ==
    /\ Given(p) /\ upipe[p].recvq > 0
    /\ upipe' = [upipe EXCEPT ![p].recvq = @ - 1]
    /\ UNCHANGED <<ucf, net, dups, dial, ul, pipes, acceptq, hand, reap, uacc, ugiven>>

\* Nothing can reach the pipe any more: its peer is gone, and no packet to it
\* is in flight.
Silent(p) ==
    IF p \in Remotes THEN /\ ul.closed /\ pipes[p] = NoUdp
                          /\ \A k \in net : k.way = "down" => k.at # p
    ELSE /\ upipe[p[1]].st = "closed"
         /\ \A k \in net : k.way = "up" => k.at # p[1]

\* The time at which the pipe expires has passed: for want of packets, or, in
\* a scenario that ages, because enough of them were lost.
udpAge(p) ==
    /\ (ucf.ages \/ Silent(p)) /\ upipe[p].st = "open" /\ upipe[p].fresh
    /\ upipe' = [upipe EXCEPT ![p].fresh = FALSE]
    /\ UNCHANGED <<ucf, net, dups, dial, ul, pipes, acceptq, hand, reap, uacc, ugiven>>

\* handleData: a message too long closes the pipe; one that finds recvq full
\* is dropped.
TooLong(p, k) == k.len > MaxRecv(p)
handleData(p, k) ==
    /\ upipe[p].st = "open" /\ ~TooLong(p, k)
    /\ upipe' = [upipe EXCEPT ![p].fresh = TRUE, ![p].recvq = IF @ < RecvCap THEN @ + 1 ELSE @]
touch(p) == upipe' = [upipe EXCEPT ![p].fresh = TRUE]

(***************************************************************************)
(* The dialer.                                                             *)
(***************************************************************************)
\* Dial makes a socket and sends a CREQ, every fifth of a second again.
udpDial(d) ==
    /\ d \in ucf.dials /\ dial[d] = "idle"
    /\ dial' = [dial EXCEPT ![d] = "wait"]
    /\ upipe' = [upipe EXCEPT ![d].st = "open"]
    /\ Sends({sendCReq(d)})
    /\ UNCHANGED <<ucf, dups, ul, pipes, acceptq, hand, reap, uacc, ugiven>>
udpDialRetry(d) ==
    /\ dial[d] = "wait"
    /\ Sends({sendCReq(d)})
    /\ UNCHANGED <<ucf, dups, dial, ul, pipes, upipe, acceptq, hand, reap, uacc, ugiven>>
\* The deadline has passed, or the peer's host refused the packet.
udpDialFails(d) ==
    /\ dial[d] = "wait"
    /\ dial' = [dial EXCEPT ![d] = "failed"]
    /\ Closing(d)
    /\ Sends({Disc(d)})
    /\ UNCHANGED <<ucf, dups, ul, pipes, acceptq, hand, reap, uacc, ugiven>>
\* While it waits, only a CACK is taken.
udpDialReads(d, k) ==
    /\ dial[d] = "wait" /\ k.way = "down" /\ k.at = d
    /\ Delivers(k, {})
    /\ \/ /\ k.op = "cack"
          /\ dial' = [dial EXCEPT ![d] = "done"]
          /\ upipe' = [upipe EXCEPT ![d].sendMax = k.len, ![d].fresh = TRUE]
       \/ k.op # "cack" /\ UNCHANGED <<dial, upipe>>
    /\ UNCHANGED <<ucf, ul, pipes, acceptq, hand, reap, uacc, ugiven>>

\* The reader of a connected dialer.
readConnected(d, k) ==
    /\ dial[d] = "done" /\ upipe[d].st = "open" /\ k.way = "down" /\ k.at = d
    /\ \/ k.op = "data" /\ handleData(d, k) /\ Delivers(k, {})
       \/ k.op = "data" /\ TooLong(d, k) /\ Closing(d) /\ Delivers(k, {Disc(d)})
       \/ k.op = "cack" /\ Delivers(k, {}) /\ upipe' = [upipe EXCEPT ![d].sendMax = k.len, ![d].fresh = TRUE]
       \/ k.op = "disc" /\ Closing(d) /\ Delivers(k, {Disc(d)})
    /\ UNCHANGED <<ucf, dial, ul, pipes, acceptq, hand, reap, uacc, ugiven>>
\* Its read fails when the port of the listener is closed.
udpRefused(d) ==
    /\ dial[d] = "done" /\ upipe[d].st = "open" /\ ~ul.conn
    /\ Closing(d)
    /\ Sends({Disc(d)})
    /\ UNCHANGED <<ucf, dups, dial, ul, pipes, acceptq, hand, reap, uacc, ugiven>>

\* The timer: a pipe that has expired is closed, the others send a CREQ.
refreshDialer(d) ==
    /\ dial[d] = "done" /\ upipe[d].st = "open"
    /\ \/ ~upipe[d].fresh /\ Closing(d) /\ Sends({Disc(d)})
       \/ upipe[d].fresh /\ Sends({sendCReq(d)}) /\ UNCHANGED upipe
    /\ UNCHANGED <<ucf, dups, dial, ul, pipes, acceptq, hand, reap, uacc, ugiven>>

(***************************************************************************)
(* The listener.                                                           *)
(***************************************************************************)
udpListen ==
    /\ ucf.dials # {} /\ ~ul.closed /\ ~ul.conn
    /\ ul' = [ul EXCEPT !.conn = TRUE]
    /\ uacc' = [uacc EXCEPT !.at = "idle"]
    /\ UNCHANGED <<ucf, net, dups, dial, pipes, upipe, acceptq, hand, reap, ugiven>>

\* handlePacket.  A packet without a pipe is dropped after Close; a CREQ of
\* the right protocol makes a pipe, or is turned down at the limit of peers.
Peers == {d \in Remotes : pipes[d] # NoUdp}
NextGen(p) == p[2] <= ucf.gens /\ upipe[p].st = "none" /\ \A g \in 1 .. p[2] - 1 : upipe[<<p[1], g>>].st # "none"
Matches(d) == d \notin ucf.strangers

handleCReq(k) ==
    /\ k.op = "creq" /\ pipes[k.at] = NoUdp /\ ~ul.closed /\ Matches(k.at)
    /\ \/ /\ Cardinality(Peers) >= MaxPeers
          /\ Delivers(k, {Down(k.at, "disc", 1)}) /\ UNCHANGED <<upipe, pipes, hand>>
       \/ /\ Cardinality(Peers) < MaxPeers
          /\ \E p \in Accepted :
                /\ p[1] = k.at /\ NextGen(p)
                /\ upipe' = [upipe EXCEPT ![p].st = "open", ![p].sendMax = k.len]
                /\ pipes' = [pipes EXCEPT ![k.at] = p]
                /\ hand' = [at |-> "push", pipe |-> p]
                /\ Delivers(k, {sendCAck(p)})
\* A packet for a pipe.
HandCloses(p) == Closing(p) /\ hand' = [at |-> "remove", pipe |-> p]
handlePipe(p, k) ==
    \/ k.op = "data" /\ handleData(p, k) /\ Delivers(k, {}) /\ UNCHANGED hand
    \/ k.op = "data" /\ upipe[p].st = "open" /\ TooLong(p, k) /\ HandCloses(p) /\ Delivers(k, {Disc(p)})
    \/ k.op = "creq" /\ Delivers(k, IF upipe[p].st = "open" THEN {sendCAck(p)} ELSE {})
       /\ touch(p) /\ UNCHANGED hand
    \/ k.op = "disc" /\ upipe[p].st = "open" /\ HandCloses(p) /\ Delivers(k, {Disc(p)})
    \/ k.op \in {"data", "disc"} /\ upipe[p].st # "open" /\ Delivers(k, {}) /\ UNCHANGED <<upipe, hand>>
handlePacket(k) ==
    /\ ul.conn /\ hand.at = "read" /\ k.way = "up"
    /\ \/ handleCReq(k)
       \/ /\ pipes[k.at] = NoUdp /\ (k.op # "creq" \/ ul.closed \/ ~Matches(k.at))
          /\ Delivers(k, {}) /\ UNCHANGED <<upipe, pipes, hand>>
       \/ /\ pipes[k.at] # NoUdp /\ handlePipe(pipes[k.at], k) /\ UNCHANGED pipes
    /\ UNCHANGED <<ucf, dial, ul, acceptq, reap, uacc, ugiven>>

\* Then it waits for room in acceptq, or for Close: either, when both.
udpPush(p) ==
    /\ hand = [at |-> "push", pipe |-> p]
    /\ \/ /\ Len(acceptq) < AcceptCap
          /\ acceptq' = Append(acceptq, p)
          /\ hand' = [at |-> "read", pipe |-> NoUdp]
          /\ UNCHANGED <<upipe, net>>
       \/ /\ ul.closed /\ upipe[p].st = "open"
          /\ HandCloses(p) /\ Sends({Disc(p)})
          /\ UNCHANGED acceptq
       \/ /\ ul.closed /\ upipe[p].st # "open"
          /\ hand' = [at |-> "read", pipe |-> NoUdp]
          /\ UNCHANGED <<upipe, net, acceptq>>
    /\ UNCHANGED <<ucf, dups, dial, ul, pipes, reap, uacc, ugiven>>

\* Accept: after it took a pipe it looks again whether the listener is closed.
udpAcceptCall ==
    /\ uacc.at = "idle"
    /\ uacc' = [uacc EXCEPT !.at = IF ul.closed THEN "over" ELSE "select"]
    /\ UNCHANGED <<ucf, net, dups, dial, ul, pipes, upipe, acceptq, hand, reap, ugiven>>
udpAcceptSelect ==
    /\ uacc.at = "select"
    /\ \/ /\ acceptq # <<>>
          /\ uacc' = [at |-> "check", pipe |-> Head(acceptq)]
          /\ acceptq' = Tail(acceptq)
       \/ ul.closed /\ uacc' = [uacc EXCEPT !.at = "over"] /\ UNCHANGED acceptq
    /\ UNCHANGED <<ucf, net, dups, dial, ul, pipes, upipe, hand, reap, ugiven>>
udpAcceptCheck_None ==
    /\ uacc.at = "check"
    /\ uacc' = [uacc EXCEPT !.at = "idle"]
    /\ ugiven' = ugiven \cup {uacc.pipe}
    /\ UNCHANGED <<ucf, net, dups, dial, ul, pipes, upipe, acceptq, hand, reap>>
udpAcceptCheck ==
    /\ uacc.at = "check"
    /\ \/ /\ ul.closed
          /\ uacc' = [uacc EXCEPT !.at = "over"]
          /\ IF upipe[uacc.pipe].st = "open" THEN Closing(uacc.pipe) /\ Sends({Disc(uacc.pipe)})
                                             ELSE UNCHANGED <<upipe, net>>
          /\ UNCHANGED ugiven
       \/ /\ ~ul.closed
          /\ uacc' = [uacc EXCEPT !.at = "idle"]
          /\ ugiven' = ugiven \cup {uacc.pipe}
          /\ UNCHANGED <<upipe, net>>
    /\ UNCHANGED <<ucf, dups, dial, ul, pipes, acceptq, hand, reap>>

\* Close drains acceptq, and closes the socket at once when there is no pipe.
udpClose ==
    /\ ucf.dials # {} /\ ~ul.closed
    /\ ul' = [conn |-> ul.conn /\ Peers # {}, closed |-> TRUE, late |-> Range(acceptq)]
    /\ acceptq' = <<>>
    /\ UNCHANGED <<ucf, net, dups, dial, pipes, upipe, hand, reap, uacc, ugiven>>
\* The drained pipes, and those that reapExpired found, are closed one by one
\* without the lock.
UdpCloses(p) ==
    IF upipe[p].st = "open" THEN Closing(p) /\ Sends({Disc(p)}) ELSE UNCHANGED <<upipe, net>>
udpCloseLate(p) ==
    /\ p \in ul.late /\ UdpCloses(p)
    /\ ul' = [ul EXCEPT !.late = @ \ {p}]
    /\ UNCHANGED <<ucf, dups, dial, pipes, acceptq, hand, reap, uacc, ugiven>>
reapExpired_WhileOpen ==
    /\ ul.conn /\ ~ul.closed /\ reap = {}
    /\ reap' = {p \in Accepted : pipes[p[1]] = p /\ upipe[p].st = "open" /\ ~upipe[p].fresh}
    /\ reap' # {}
    /\ UNCHANGED <<ucf, net, dups, dial, ul, pipes, upipe, acceptq, hand, uacc, ugiven>>
reapExpired ==
    /\ ul.conn /\ reap = {}
    /\ reap' = {p \in Accepted : pipes[p[1]] = p /\ upipe[p].st = "open" /\ ~upipe[p].fresh}
    /\ reap' # {}
    /\ UNCHANGED <<ucf, net, dups, dial, ul, pipes, upipe, acceptq, hand, uacc, ugiven>>
reapClose(p) ==
    /\ p \in reap /\ UdpCloses(p)
    /\ reap' = reap \ {p}
    /\ UNCHANGED <<ucf, dups, dial, ul, pipes, acceptq, hand, uacc, ugiven>>

UdpNext ==
    \/ \E k \in net : udpLose(k) \/ handlePacket(k) \/ udpDialReads(k.at, k) \/ readConnected(k.at, k)
    \/ \E p \in UdpPipes : \/ udpRemove(p) \/ udpPipeClose(p) \/ udpRecv(p) \/ udpAge(p)
                           \/ \E n \in Sizes : udpSend(p, n)
    \/ \E d \in Remotes : \/ udpDial(d) \/ udpDialRetry(d) \/ udpDialFails(d)
                          \/ udpRefused(d) \/ refreshDialer(d)
    \/ \E p \in Accepted : udpPush(p) \/ udpCloseLate(p) \/ reapClose(p)
    \/ udpListen \/ udpAcceptCall \/ udpAcceptSelect \/ udpAcceptCheck \/ udpClose \/ reapExpired

UdpSpec == UdpInit /\ [][UdpNext]_uvars

\* Goroutines that can run do, a connect deadline and the expiry of a pipe
\* that nothing reaches come, and a packet does not stay in flight for ever.
UdpFairness ==
    /\ \A p \in UdpPipes : WF_uvars(udpRemove(p)) /\ WF_uvars(udpAge(p) /\ Silent(p))
    /\ \A d \in Remotes, way \in {"up", "down"} :
          WF_uvars(\E k \in net : k.way = way /\ k.at = d /\ udpLose(k))
    /\ \A d \in Remotes : WF_uvars(udpDialFails(d)) /\ WF_uvars(refreshDialer(d) /\ ~upipe[d].fresh)
    /\ WF_uvars(\E p \in Accepted : udpPush(p))
    /\ WF_uvars(udpAcceptCall \/ udpAcceptSelect \/ udpAcceptCheck)
    /\ WF_uvars(\E p \in Accepted : udpCloseLate(p))
    /\ WF_uvars(reapExpired \/ \E p \in Accepted : reapClose(p))

(***************************************************************************)
(* Properties.                                                             *)
(***************************************************************************)

\* The table of the listener has exactly its live pipes, so a remote address
\* never has two, however often its CREQs are repeated or duplicated; and the
\* socket is open exactly as long as somebody needs it: until Close, and after
\* Close until the last pipe is gone (handlePacket, Close, remove,
\* closeConnLocked).
SocketFollowsPipes ==
    /\ \A p \in Accepted : upipe[p].st \in {"open", "closing"} <=> pipes[p[1]] = p
    /\ ul.closed => (ul.conn <=> Peers # {})

\* A pipe whose peer is gone does not outlive it for ever, even if the DISC is
\* lost or a late CREQ makes a new pipe for a remote that has gone: a dialer
\* notices when it refreshes, the listener when it reaps, and it goes on
\* reaping after Close (refreshDialer, reapExpired).
SilenceEndsPipe ==
    /\ \A d \in Remotes :
          (upipe[d].st = "open" /\ ul.closed /\ pipes[d] = NoUdp) ~> upipe[d].st # "open"
    /\ \A p \in Accepted :
          (upipe[p].st = "open" /\ upipe[p[1]].st = "closed") ~> upipe[p].st # "open"

\* The udp listener implements the contract of TranListener; a pipe waits for
\* Accept from the CREQ that made it, also when its peer has gone before.
\* (After Close one may be left in acceptq, because udpPush may still choose
\* the queue: it ends with its peer.)
Queued(p) == hand = [at |-> "push", pipe |-> p] \/ p \in Range(acceptq) \/ uacc = [at |-> "check", pipe |-> p]
UdpEndpoint == INSTANCE Endpoint WITH
    Listeners <- {"udp"}, Conns <- Accepted, Of <- [p \in Accepted |-> "udp"],
    shut <- IF ul.closed THEN {"udp"} ELSE {},
    conns <- [p \in Accepted |-> IF upipe[p].st = "none" THEN "none"
                                 ELSE IF p \in ugiven THEN "accepted"
                                 ELSE IF upipe[p].st = "open" \/ Queued(p) THEN "pending"
                                 ELSE "gone"]
UdpIsEndpoint ==
    /\ UdpEndpoint!EndpointSafety
    /\ \A p \in Accepted :
          (upipe[p].st = "open" /\ p \notin ugiven) ~> (upipe[p].st # "open" \/ p \in ugiven \/ ul.closed)

(***************************************************************************)
(* What the proofs need besides.                                           *)
(***************************************************************************)
Packet == [way : {"up", "down"}, at : Remotes, op : {"creq", "cack", "data", "disc"}, len : Nat]
PipeState == [st : {"none", "open", "closing", "closed"}, fresh : BOOLEAN, sendMax : Nat, recvq : Nat]
ListenerState == [conn : BOOLEAN, closed : BOOLEAN, late : SUBSET Accepted]
HandState == [at : {"read", "push", "remove"}, pipe : Accepted \cup {NoUdp}]
AcceptState == [at : {"off", "idle", "select", "check", "over"}, pipe : Accepted \cup {NoUdp}]
UdpTypeOK ==
    /\ ucf \in UdpConf
    /\ net \subseteq Packet
    /\ ul \in ListenerState
    /\ pipes \in [Remotes -> Accepted \cup {NoUdp}]
    /\ upipe \in [UdpPipes -> PipeState]
    /\ acceptq \in Seq(Accepted)
    /\ hand \in HandState
    /\ reap \subseteq Accepted
    /\ uacc \in AcceptState
    /\ ugiven \subseteq Accepted

\* Already before Close the listener has its socket while it has pipes.
SocketHeld == Peers # {} => ul.conn

\* A pipe waits for Accept in one place, once, before it is given.
QueuedOnce ==
    /\ hand.at = "push" => hand.pipe \in Accepted \ Range(acceptq)
    /\ uacc.at = "check" => uacc.pipe \in Accepted \ Range(acceptq)
    /\ hand.at = "push" /\ uacc.at = "check" => hand.pipe # uacc.pipe
    /\ \A i, j \in DOMAIN acceptq : acceptq[i] = acceptq[j] => i = j
    /\ \A p \in Accepted : Queued(p) => upipe[p].st # "none" /\ p \notin ugiven
    /\ \A p \in ugiven : upipe[p].st # "none"

UdpInv == UdpTypeOK /\ SocketFollowsPipes /\ SocketHeld /\ QueuedOnce
=============================================================================
