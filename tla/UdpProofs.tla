----------------------------- MODULE UdpProofs ------------------------------
(***************************************************************************)
(* Proofs about the udp transport: its table of pipes and its socket are   *)
(* exact, and its listener implements the safety part of the contract of   *)
(* TranListener, for any number of remotes, pipes and packets.             *)
(***************************************************************************)
EXTENDS Udp, TLAPS

(***************************************************************************)
(* What an update of a pipe, of the listener or of a packet does.          *)
(***************************************************************************)

\* The pipes are as before as far as the table is concerned.
SameLife(p) ==
    /\ upipe'[p].st = "none" <=> upipe[p].st = "none"
    /\ upipe'[p].st \in {"open", "closing"} <=> upipe[p].st \in {"open", "closing"}
    /\ upipe'[p].st = "open" => upipe[p].st = "open"
PipesKept == upipe' \in [UdpPipes -> PipeState] /\ \A p \in Accepted : SameLife(p)

LEMMA AcceptedPipe ==
  ASSUME NEW p \in Accepted
  PROVE  p \in UdpPipes /\ p \notin Remotes /\ p[1] \in Remotes /\ p # NoUdp
  BY UdpAssumption DEF Accepted, UdpPipes

LEMMA LimitIsNat ==
  ASSUME ucf \in UdpConf, NEW p
  PROVE  MaxRecv(p) \in Nat
  BY UdpCaps DEF UdpConf, MaxRecv, setMaxRecv

\* One pipe is updated: one of the listener stays as it is, or is closed.
LEMMA OnePipe ==
  ASSUME upipe \in [UdpPipes -> PipeState], NEW p \in UdpPipes, NEW q \in PipeState,
         upipe' = [upipe EXCEPT ![p] = q],
         \/ p \in Remotes
         \/ q.st = upipe[p].st
         \/ upipe[p].st = "open" /\ q.st = "closing"
  PROVE  PipesKept
  <1>1. upipe' \in [UdpPipes -> PipeState]
    OBVIOUS
  <1>2. \A r \in Accepted : SameLife(r)
    BY AcceptedPipe DEF SameLife
  <1> QED
    BY <1>1, <1>2 DEF PipesKept

LEMMA ClosingKeeps ==
  ASSUME upipe \in [UdpPipes -> PipeState], NEW p \in UdpPipes, Closing(p),
         p \in Remotes \/ upipe[p].st = "open"
  PROVE  PipesKept
  <1>1. upipe' = [upipe EXCEPT ![p] = [@ EXCEPT !.st = "closing", !.fresh = TRUE, !.sendMax = MaxPayload]]
    BY DEF Closing
  <1>2. PICK q \in PipeState : q = [upipe[p] EXCEPT !.st = "closing", !.fresh = TRUE, !.sendMax = MaxPayload]
    BY UdpCaps DEF PipeState
  <1>3. q.st = "closing" /\ upipe' = [upipe EXCEPT ![p] = q]
    BY <1>1, <1>2 DEF PipeState
  <1> QED
    BY <1>3, OnePipe

LEMMA DialKeeps ==
  ASSUME upipe \in [UdpPipes -> PipeState], NEW d \in Remotes, NEW st \in {"open", "closed"},
         upipe' = [upipe EXCEPT ![d].st = st]
  PROVE  PipesKept
  <1>1. d \in UdpPipes
    BY DEF UdpPipes
  <1>2. PICK q \in PipeState : q = [upipe[d] EXCEPT !.st = st]
    BY <1>1 DEF PipeState
  <1>3. upipe' = [upipe EXCEPT ![d] = q]
    BY <1>2
  <1> QED
    BY <1>1, <1>3, OnePipe

LEMMA TouchKeeps ==
  ASSUME upipe \in [UdpPipes -> PipeState], NEW p \in UdpPipes, NEW b \in BOOLEAN,
         upipe' = [upipe EXCEPT ![p].fresh = b]
  PROVE  PipesKept
  <1>1. PICK q \in PipeState : q = [upipe[p] EXCEPT !.fresh = b]
    BY DEF PipeState
  <1>2. q.st = upipe[p].st /\ upipe' = [upipe EXCEPT ![p] = q]
    BY <1>1 DEF PipeState
  <1> QED
    BY <1>2, OnePipe

LEMMA LimitKeeps ==
  ASSUME upipe \in [UdpPipes -> PipeState], NEW p \in UdpPipes, NEW n \in Nat,
         upipe' = [upipe EXCEPT ![p].sendMax = n, ![p].fresh = TRUE]
  PROVE  PipesKept
  <1>1. PICK q \in PipeState : q = [upipe[p] EXCEPT !.sendMax = n, !.fresh = TRUE]
    BY DEF PipeState
  <1>2. q.st = upipe[p].st /\ upipe' = [upipe EXCEPT ![p] = q]
    BY <1>1 DEF PipeState
  <1> QED
    BY <1>2, OnePipe

LEMMA DataKeeps ==
  ASSUME upipe \in [UdpPipes -> PipeState], NEW p \in UdpPipes, NEW k, handleData(p, k)
  PROVE  PipesKept
  <1>1. PICK n \in Nat : n = IF upipe[p].recvq < RecvCap THEN upipe[p].recvq + 1 ELSE upipe[p].recvq
    BY DEF PipeState
  <1>2. upipe' = [upipe EXCEPT ![p].fresh = TRUE, ![p].recvq = n]
    BY <1>1 DEF handleData
  <1>3. PICK q \in PipeState : q = [upipe[p] EXCEPT !.fresh = TRUE, !.recvq = n]
    BY DEF PipeState
  <1>4. q.st = upipe[p].st /\ upipe' = [upipe EXCEPT ![p] = q]
    BY <1>2, <1>3 DEF PipeState
  <1> QED
    BY <1>4, OnePipe

LEMMA RecvKeeps ==
  ASSUME upipe \in [UdpPipes -> PipeState], NEW p \in UdpPipes, udpRecv(p)
  PROVE  PipesKept
  <1>1. PICK n \in Nat : n = upipe[p].recvq - 1
    BY DEF PipeState, udpRecv
  <1>2. upipe' = [upipe EXCEPT ![p].recvq = n]
    BY <1>1 DEF udpRecv
  <1>3. PICK q \in PipeState : q = [upipe[p] EXCEPT !.recvq = n]
    BY DEF PipeState
  <1>4. q.st = upipe[p].st /\ upipe' = [upipe EXCEPT ![p] = q]
    BY <1>2, <1>3 DEF PipeState
  <1> QED
    BY <1>4, OnePipe

LEMMA SameKeeps ==
  ASSUME upipe \in [UdpPipes -> PipeState], upipe' = upipe
  PROVE  PipesKept
  BY DEF PipesKept, SameLife

\* What is sent is a packet.
LEMMA SentPackets ==
  ASSUME ucf \in UdpConf, NEW p \in UdpPipes
  PROVE  /\ Disc(p) \in Packet
         /\ \A n \in Nat : From(p, "data", n) \in Packet
         /\ p \in Remotes => sendCReq(p) \in Packet
         /\ sendCAck(p) \in Packet
  <1>1. MaxRecv(p) \in Nat
    BY LimitIsNat
  <1>2. p \in Remotes \/ p[1] \in Remotes
    BY DEF UdpPipes, Accepted
  <1> QED
    BY <1>1, <1>2 DEF Disc, From, sendCReq, sendCAck, Up, Down, Packet

LEMMA NetTyped ==
  ASSUME net \subseteq Packet, NEW sent \in SUBSET Packet,
         Sends(sent) \/ \E k \in Packet : Delivers(k, sent)
  PROVE  net' \subseteq Packet
  BY DEF Sends, Delivers, Holding

(***************************************************************************)
(* Steps that leave the table and the queue alone.                         *)
(***************************************************************************)
Quiet ==
    /\ ucf' = ucf /\ pipes' = pipes /\ acceptq' = acceptq /\ ugiven' = ugiven
    /\ net' \subseteq Packet /\ reap' \subseteq Accepted
    /\ ul' \in ListenerState /\ ul'.conn = ul.conn /\ ul'.closed = ul.closed
    /\ hand' \in HandState /\ (hand'.at = "push" => hand' = hand)
    /\ uacc' \in AcceptState /\ (uacc'.at = "check" => uacc' = uacc)
    /\ PipesKept

LEMMA TableFrame ==
  ASSUME SocketFollowsPipes, SocketHeld, Quiet
  PROVE  SocketFollowsPipes' /\ SocketHeld'
  <1>1. Peers' = Peers
    BY DEF Peers, Quiet
  <1> QED
    BY <1>1 DEF SocketFollowsPipes, SocketHeld, PipesKept, SameLife, Quiet

LEMMA QueueFrame ==
  ASSUME QueuedOnce, ugiven \subseteq Accepted, Quiet
  PROVE  QueuedOnce'
  <1>1. \A p \in Accepted : Queued(p)' => Queued(p)
    BY DEF Quiet, Queued
  <1>2. \A p \in Accepted : upipe'[p].st = "none" <=> upipe[p].st = "none"
    BY DEF Quiet, PipesKept, SameLife
  <1> QED
    BY <1>1, <1>2 DEF QueuedOnce, Quiet

LEMMA QuietInv ==
  ASSUME UdpInv, Quiet
  PROVE  UdpInv'
  <1>1. UdpTypeOK /\ SocketFollowsPipes /\ SocketHeld /\ QueuedOnce
    BY DEF UdpInv
  <1>2. UdpTypeOK'
    BY <1>1 DEF UdpTypeOK, Quiet, PipesKept
  <1>3. QueuedOnce'
    BY <1>1, QueueFrame DEF UdpTypeOK
  <1> QED
    BY <1>1, <1>2, <1>3, TableFrame DEF UdpInv

\* A step that changes at most pipes and packets.
LEMMA OnlyPipes ==
  ASSUME UdpTypeOK, PipesKept, net' \subseteq Packet,
         UNCHANGED <<ucf, ul, pipes, acceptq, hand, reap, uacc, ugiven>>
  PROVE  Quiet
  BY DEF UdpTypeOK, Quiet

\* The dialers.
LEMMA DialersQuiet ==
  ASSUME UdpTypeOK, NEW d \in Remotes,
         \/ udpDial(d) \/ udpDialRetry(d) \/ udpDialFails(d) \/ udpRefused(d) \/ refreshDialer(d)
         \/ \E k \in net : udpDialReads(d, k) \/ readConnected(d, k)
  PROVE  Quiet
  <1> d \in UdpPipes
    BY DEF UdpPipes
  <1>1. /\ upipe \in [UdpPipes -> PipeState] /\ net \subseteq Packet
        /\ {Disc(d)} \in SUBSET Packet /\ {sendCReq(d)} \in SUBSET Packet /\ {} \in SUBSET Packet
        /\ \A k \in net : k \in Packet /\ k.len \in Nat
    BY SentPackets DEF UdpTypeOK, Packet
  <1>2. CASE udpDial(d)
    BY <1>1, <1>2, DialKeeps, NetTyped, OnlyPipes DEF udpDial
  <1>3. CASE udpDialRetry(d)
    BY <1>1, <1>3, SameKeeps, NetTyped, OnlyPipes DEF udpDialRetry
  <1>4. CASE udpDialFails(d)
    BY <1>1, <1>4, ClosingKeeps, NetTyped, OnlyPipes DEF udpDialFails
  <1>5. CASE udpRefused(d)
    BY <1>1, <1>5, ClosingKeeps, NetTyped, OnlyPipes DEF udpRefused
  <1>6. CASE refreshDialer(d)
    BY <1>1, <1>6, ClosingKeeps, SameKeeps, NetTyped, OnlyPipes DEF refreshDialer
  <1>7. ASSUME NEW k \in net, udpDialReads(d, k) PROVE Quiet
    <2>1. net' \subseteq Packet
      BY <1>1, <1>7, NetTyped DEF udpDialReads
    <2>2. PipesKept
      BY <1>1, <1>7, SameKeeps, LimitKeeps DEF udpDialReads
    <2> QED
      BY <1>7, <2>1, <2>2, OnlyPipes DEF udpDialReads
  <1>8. ASSUME NEW k \in net, readConnected(d, k) PROVE Quiet
    <2>1. net' \subseteq Packet
      BY <1>1, <1>8, NetTyped DEF readConnected
    <2>2. PipesKept
      BY <1>1, <1>8, ClosingKeeps, LimitKeeps, DataKeeps DEF readConnected
    <2> QED
      BY <1>8, <2>1, <2>2, OnlyPipes DEF readConnected
  <1> QED
    BY <1>2, <1>3, <1>4, <1>5, <1>6, <1>7, <1>8

\* A pipe, whosever it is.
LEMMA PipesQuiet ==
  ASSUME UdpTypeOK, NEW p \in UdpPipes,
         udpPipeClose(p) \/ udpRecv(p) \/ udpAge(p) \/ \E n \in Sizes : udpSend(p, n)
  PROVE  Quiet
  <1>1. upipe \in [UdpPipes -> PipeState] /\ net \subseteq Packet /\ {Disc(p)} \in SUBSET Packet
    BY SentPackets DEF UdpTypeOK
  <1>2. CASE udpPipeClose(p)
    BY <1>1, <1>2, ClosingKeeps, NetTyped, OnlyPipes DEF udpPipeClose
  <1>3. CASE udpRecv(p)
    BY <1>1, <1>3, RecvKeeps, OnlyPipes DEF udpRecv
  <1>4. CASE udpAge(p)
    BY <1>1, <1>4, TouchKeeps, OnlyPipes DEF udpAge
  <1>5. ASSUME NEW n \in Sizes, udpSend(p, n) PROVE Quiet
    <2>1. {From(p, "data", n)} \in SUBSET Packet
      BY SentPackets DEF UdpTypeOK, Sizes
    <2> QED
      BY <1>1, <1>5, <2>1, SameKeeps, NetTyped, OnlyPipes DEF udpSend
  <1> QED
    BY <1>2, <1>3, <1>4, <1>5

LEMMA ClosesKeeps ==
  ASSUME UdpTypeOK, NEW p \in Accepted, UdpCloses(p)
  PROVE  PipesKept /\ net' \subseteq Packet
  <1>1. /\ upipe \in [UdpPipes -> PipeState] /\ net \subseteq Packet /\ {Disc(p)} \in SUBSET Packet
        /\ p \in UdpPipes
    BY SentPackets, AcceptedPipe DEF UdpTypeOK
  <1>2. CASE upipe[p].st = "open"
    BY <1>1, <1>2, ClosingKeeps, NetTyped DEF UdpCloses
  <1>3. CASE upipe[p].st # "open"
    BY <1>1, <1>3, SameKeeps DEF UdpCloses
  <1> QED
    BY <1>2, <1>3

\* The goroutines of the listener that close pipes.
LEMMA ReapersQuiet ==
  ASSUME UdpTypeOK,
         \/ reapExpired \/ udpAcceptCall
         \/ \E k \in net : udpLose(k)
         \/ \E p \in Accepted : udpCloseLate(p) \/ reapClose(p)
  PROVE  Quiet
  <1>1. upipe \in [UdpPipes -> PipeState] /\ net \subseteq Packet
    BY DEF UdpTypeOK
  <1>2. CASE reapExpired
    BY <1>1, <1>2, SameKeeps DEF reapExpired, Quiet, UdpTypeOK
  <1>3. CASE udpAcceptCall
    <2>1. uacc' \in AcceptState /\ uacc'.at # "check"
      BY <1>3 DEF udpAcceptCall, AcceptState, UdpTypeOK
    <2> QED
      BY <1>1, <1>3, <2>1, SameKeeps DEF udpAcceptCall, Quiet, UdpTypeOK
  <1>4. ASSUME NEW k \in net, udpLose(k) PROVE Quiet
    BY <1>1, <1>4, SameKeeps, OnlyPipes DEF udpLose
  <1>5. ASSUME NEW p \in Accepted, udpCloseLate(p) PROVE Quiet
    <2>1. PipesKept /\ net' \subseteq Packet
      BY <1>5, ClosesKeeps DEF udpCloseLate
    <2>2. ul' \in ListenerState /\ ul'.conn = ul.conn /\ ul'.closed = ul.closed
      BY <1>5 DEF udpCloseLate, UdpTypeOK, ListenerState
    <2> QED
      BY <1>5, <2>1, <2>2 DEF udpCloseLate, Quiet, UdpTypeOK
  <1>6. ASSUME NEW p \in Accepted, reapClose(p) PROVE Quiet
    <2>1. PipesKept /\ net' \subseteq Packet
      BY <1>6, ClosesKeeps DEF reapClose
    <2> QED
      BY <1>6, <2>1 DEF reapClose, Quiet, UdpTypeOK
  <1> QED
    BY <1>2, <1>3, <1>4, <1>5, <1>6

\* A packet that makes no pipe.
Creates(k, p) ==
    /\ k.op = "creq" /\ pipes[k.at] = NoUdp /\ ~ul.closed /\ p[1] = k.at /\ NextGen(p)
    /\ upipe' = [upipe EXCEPT ![p].st = "open", ![p].sendMax = k.len]
    /\ pipes' = [pipes EXCEPT ![k.at] = p]
    /\ hand' = [at |-> "push", pipe |-> p]
    /\ Delivers(k, {sendCAck(p)})
    /\ UNCHANGED <<ucf, dial, ul, acceptq, reap, uacc, ugiven>>

LEMMA PacketQuiet ==
  ASSUME UdpTypeOK, NEW k \in net, handlePacket(k), \A p \in Accepted : ~Creates(k, p)
  PROVE  Quiet
  <1>1. /\ upipe \in [UdpPipes -> PipeState] /\ net \subseteq Packet /\ {} \in SUBSET Packet
        /\ k \in Packet /\ k.at \in Remotes
    BY DEF UdpTypeOK, Packet
  <1>2. UNCHANGED <<ucf, dial, ul, acceptq, reap, uacc, ugiven>>
    BY DEF handlePacket
  <1>3. CASE handleCReq(k)
    <2>1. /\ Delivers(k, {Down(k.at, "disc", 1)}) /\ UNCHANGED <<upipe, pipes, hand>>
      BY <1>2, <1>3 DEF handleCReq, Creates
    <2>2. {Down(k.at, "disc", 1)} \in SUBSET Packet
      BY <1>1 DEF Down, Packet
    <2> QED
      BY <1>1, <1>2, <2>1, <2>2, SameKeeps, NetTyped, OnlyPipes
  <1>4. CASE Delivers(k, {}) /\ UNCHANGED <<upipe, pipes, hand>>
    BY <1>1, <1>2, <1>4, SameKeeps, NetTyped, OnlyPipes
  <1>5. CASE pipes[k.at] # NoUdp /\ handlePipe(pipes[k.at], k) /\ UNCHANGED pipes
    <2>1. PICK p \in Accepted : p = pipes[k.at]
      BY <1>1, <1>5 DEF UdpTypeOK
    <2>2. p \in UdpPipes /\ handlePipe(p, k)
      BY <1>5, <2>1, AcceptedPipe
    <2>3. {Disc(p)} \in SUBSET Packet /\ {sendCAck(p)} \in SUBSET Packet
      BY <2>2, SentPackets DEF UdpTypeOK
    <2>4. net' \subseteq Packet
      BY <1>1, <2>2, <2>3, NetTyped DEF handlePipe
    <2>5. PipesKept
      BY <1>1, <2>2, ClosingKeeps, DataKeeps, TouchKeeps, SameKeeps DEF handlePipe, HandCloses, touch
    <2>6. hand' \in HandState /\ (hand'.at = "push" => hand' = hand)
      BY <2>2 DEF handlePipe, HandCloses, HandState, UdpTypeOK
    <2> QED
      BY <1>2, <1>5, <2>4, <2>5, <2>6 DEF Quiet, UdpTypeOK
  <1> QED
    BY <1>3, <1>4, <1>5 DEF handlePacket

(***************************************************************************)
(* Steps that change the table or the queue.                               *)
(***************************************************************************)

\* What becomes of the pipe that a CREQ makes, and of the others.
LEMMA CreatesPipe ==
  ASSUME UdpTypeOK, NEW k \in net, NEW p \in Accepted, Creates(k, p)
  PROVE  /\ upipe' \in [UdpPipes -> PipeState] /\ upipe[p].st = "none" /\ upipe'[p].st = "open"
         /\ \A r \in Accepted : r # p => upipe'[r] = upipe[r]
         /\ k.at \in Remotes /\ p[1] = k.at
         /\ pipes' \in [Remotes -> Accepted \cup {NoUdp}] /\ pipes'[k.at] = p
         /\ \A d \in Remotes : d # k.at => pipes'[d] = pipes[d]
         /\ net' \subseteq Packet
  <1>1. /\ upipe \in [UdpPipes -> PipeState] /\ net \subseteq Packet
        /\ k \in Packet /\ k.at \in Remotes /\ k.len \in Nat
        /\ pipes \in [Remotes -> Accepted \cup {NoUdp}] /\ p \in UdpPipes
    BY AcceptedPipe DEF UdpTypeOK, Packet
  <1>2. PICK q \in PipeState : q = [upipe[p] EXCEPT !.st = "open", !.sendMax = k.len]
    BY <1>1 DEF PipeState
  <1>3. q.st = "open" /\ upipe' = [upipe EXCEPT ![p] = q]
    BY <1>1, <1>2 DEF PipeState, Creates
  <1>4. {sendCAck(p)} \in SUBSET Packet
    BY <1>1, SentPackets DEF UdpTypeOK
  <1>5. net' \subseteq Packet
    BY <1>1, <1>4, NetTyped DEF Creates
  <1>6. upipe' \in [UdpPipes -> PipeState] /\ upipe'[p].st = "open"
    BY <1>1, <1>3
  <1>7. \A r \in Accepted : r # p => upipe'[r] = upipe[r]
    BY <1>1, <1>3, AcceptedPipe
  <1>8. upipe[p].st = "none" /\ p[1] = k.at /\ pipes' = [pipes EXCEPT ![k.at] = p]
    BY DEF Creates, NextGen
  <1> QED
    BY <1>1, <1>5, <1>6, <1>7, <1>8

LEMMA CreatesInv ==
  ASSUME UdpInv, NEW k \in net, ul.conn, NEW p \in Accepted, Creates(k, p)
  PROVE  UdpInv'
  <1>1. UdpTypeOK /\ SocketFollowsPipes /\ SocketHeld /\ QueuedOnce
    BY DEF UdpInv
  <1>2. /\ upipe' \in [UdpPipes -> PipeState] /\ upipe[p].st = "none" /\ upipe'[p].st = "open"
        /\ \A r \in Accepted : r # p => upipe'[r] = upipe[r]
        /\ k.at \in Remotes /\ p[1] = k.at
        /\ pipes' \in [Remotes -> Accepted \cup {NoUdp}] /\ pipes'[k.at] = p
        /\ \A d \in Remotes : d # k.at => pipes'[d] = pipes[d]
        /\ net' \subseteq Packet
    BY <1>1, CreatesPipe
  <1>3. /\ hand' = [at |-> "push", pipe |-> p] /\ pipes[k.at] = NoUdp /\ ~ul.closed
        /\ UNCHANGED <<ucf, dial, ul, acceptq, reap, uacc, ugiven>>
    BY DEF Creates
  <1>4. UdpTypeOK'
    BY <1>1, <1>2, <1>3 DEF UdpTypeOK, HandState
  <1>5. SocketFollowsPipes' /\ SocketHeld'
    <2>1. \A r \in Accepted : upipe'[r].st \in {"open", "closing"} <=> pipes'[r[1]] = r
      <3> SUFFICES ASSUME NEW r \in Accepted
                   PROVE  upipe'[r].st \in {"open", "closing"} <=> pipes'[r[1]] = r
        OBVIOUS
      <3>1. r[1] \in Remotes /\ r # NoUdp
        BY AcceptedPipe
      <3>2. upipe[r].st \in {"open", "closing"} <=> pipes[r[1]] = r
        BY <1>1 DEF SocketFollowsPipes
      <3> QED
        BY <1>2, <1>3, <3>1, <3>2
    <2> QED
      BY <1>3, <2>1 DEF SocketFollowsPipes, SocketHeld
  <1>6. QueuedOnce'
    <2>1. ~Queued(p) /\ p \notin ugiven
      BY <1>1, <1>2 DEF QueuedOnce
    <2>2. p \notin Range(acceptq) /\ (uacc.at = "check" => uacc.pipe # p)
      BY <1>1, <2>1 DEF Queued, UdpTypeOK, AcceptState
    <2>3. hand'.at = "push" => hand'.pipe \in Accepted \ Range(acceptq')
      BY <1>3, <2>2
    <2>4. uacc'.at = "check" => uacc'.pipe \in Accepted \ Range(acceptq')
      BY <1>1, <1>3 DEF QueuedOnce
    <2>5. hand'.at = "push" /\ uacc'.at = "check" => hand'.pipe # uacc'.pipe
      BY <1>3, <2>2
    <2>6. \A i, j \in DOMAIN acceptq' : acceptq'[i] = acceptq'[j] => i = j
      BY <1>1, <1>3 DEF QueuedOnce
    <2>7. \A r \in Accepted : Queued(r)' => upipe'[r].st # "none" /\ r \notin ugiven'
      <3> SUFFICES ASSUME NEW r \in Accepted, Queued(r)'
                   PROVE  upipe'[r].st # "none" /\ r \notin ugiven'
        OBVIOUS
      <3>1. CASE r = p
        BY <1>2, <1>3, <2>1, <3>1
      <3>2. CASE r # p
        <4>1. Queued(r)
          BY <1>3, <3>2 DEF Queued
        <4> QED
          BY <1>1, <1>2, <1>3, <3>2, <4>1 DEF QueuedOnce
      <3> QED
        BY <3>1, <3>2
    <2>8. \A r \in ugiven' : upipe'[r].st # "none"
      BY <1>1, <1>2, <1>3 DEF QueuedOnce, UdpTypeOK
    <2> QED
      BY <2>3, <2>4, <2>5, <2>6, <2>7, <2>8 DEF QueuedOnce
  <1> QED
    BY <1>4, <1>5, <1>6 DEF UdpInv

\* Close, second part, takes a pipe out of the table, and the last one after
\* Close of the listener takes the socket with it.
LEMMA RemoveInv ==
  ASSUME UdpInv, NEW p \in Accepted, udpRemove(p)
  PROVE  UdpInv'
  <1>1. UdpTypeOK /\ SocketFollowsPipes /\ SocketHeld /\ QueuedOnce
    BY DEF UdpInv
  <1>2. p \in UdpPipes /\ p \notin Remotes /\ p[1] \in Remotes /\ p # NoUdp
    BY AcceptedPipe
  <1>3. /\ upipe[p].st = "closing" /\ upipe' = [upipe EXCEPT ![p].st = "closed"]
        /\ UNCHANGED <<ucf, net, dups, dial, acceptq, reap, uacc, ugiven>>
    BY DEF udpRemove
  <1>4. pipes[p[1]] = p
    BY <1>1, <1>3 DEF SocketFollowsPipes
  <1>5. /\ pipes' = [pipes EXCEPT ![p[1]] = NoUdp]
        /\ ul' = [ul EXCEPT !.conn = Bound(pipes')]
        /\ hand' = IF hand.pipe = p /\ hand.at = "remove" THEN [at |-> "read", pipe |-> NoUdp] ELSE hand
    BY <1>2, <1>4 DEF udpRemove
  <1>6. /\ pipes' \in [Remotes -> Accepted \cup {NoUdp}] /\ pipes'[p[1]] = NoUdp
        /\ \A d \in Remotes : d # p[1] => pipes'[d] = pipes[d]
    BY <1>1, <1>2, <1>5 DEF UdpTypeOK
  <1>7. /\ upipe' \in [UdpPipes -> PipeState] /\ upipe'[p].st = "closed"
        /\ \A r \in Accepted : r # p => upipe'[r] = upipe[r]
    <2>1. upipe \in [UdpPipes -> PipeState]
      BY <1>1 DEF UdpTypeOK
    <2>2. PICK q \in PipeState : q = [upipe[p] EXCEPT !.st = "closed"]
      BY <1>2, <2>1 DEF PipeState
    <2>3. q.st = "closed" /\ upipe' = [upipe EXCEPT ![p] = q]
      BY <1>2, <1>3, <2>1, <2>2 DEF PipeState
    <2> QED
      BY <1>2, <2>1, <2>3, AcceptedPipe
  <1>8. hand' \in HandState /\ (hand'.at = "push" => hand' = hand)
    BY <1>1, <1>5 DEF HandState, UdpTypeOK
  <1>9. ul' \in ListenerState /\ ul'.closed = ul.closed /\ (ul'.conn <=> Bound(pipes'))
    BY <1>1, <1>5 DEF ListenerState, UdpTypeOK, Bound
  <1>10. UdpTypeOK'
    BY <1>1, <1>3, <1>6, <1>7, <1>8, <1>9 DEF UdpTypeOK
  <1>11. SocketFollowsPipes' /\ SocketHeld'
    <2>1. \A r \in Accepted : upipe'[r].st \in {"open", "closing"} <=> pipes'[r[1]] = r
      <3> SUFFICES ASSUME NEW r \in Accepted
                   PROVE  upipe'[r].st \in {"open", "closing"} <=> pipes'[r[1]] = r
        OBVIOUS
      <3>1. r[1] \in Remotes /\ r # NoUdp
        BY AcceptedPipe
      <3>2. upipe[r].st \in {"open", "closing"} <=> pipes[r[1]] = r
        BY <1>1 DEF SocketFollowsPipes
      <3> QED
        BY <1>4, <1>6, <1>7, <3>1, <3>2
    <2>2. p[1] \in Peers
      BY <1>2, <1>4 DEF Peers
    <2>3. ul.conn
      BY <1>1, <2>2 DEF SocketHeld
    <2>4. Peers' # {} <=> ~ \A d \in Remotes : pipes'[d] = NoUdp
      BY DEF Peers
    <2>5. ul'.conn <=> ~(ul.closed /\ Peers' = {})
      BY <1>9, <2>3, <2>4 DEF Bound
    <2> QED
      BY <1>9, <2>1, <2>5 DEF SocketFollowsPipes, SocketHeld
  <1>12. QueuedOnce'
    <2>1. \A r \in Accepted : Queued(r)' => Queued(r)
      BY <1>3, <1>8 DEF Queued
    <2>2. \A r \in Accepted : upipe[r].st # "none" => upipe'[r].st # "none"
      BY <1>7
    <2> QED
      BY <1>1, <1>3, <1>8, <2>1, <2>2 DEF QueuedOnce, UdpTypeOK
  <1> QED
    BY <1>10, <1>11, <1>12 DEF UdpInv

\* What a queue holds after a pipe is appended or taken.
LEMMA QueueAppended ==
  ASSUME NEW q \in Seq(Accepted), NEW p \in Accepted, p \notin Range(q),
         \A i, j \in DOMAIN q : q[i] = q[j] => i = j
  PROVE  /\ Append(q, p) \in Seq(Accepted)
         /\ Range(Append(q, p)) = Range(q) \cup {p}
         /\ \A i, j \in DOMAIN Append(q, p) : Append(q, p)[i] = Append(q, p)[j] => i = j
  <1>1. /\ Append(q, p) \in Seq(Accepted) /\ Len(Append(q, p)) = Len(q) + 1
        /\ DOMAIN q = 1 .. Len(q) /\ DOMAIN Append(q, p) = 1 .. Len(q) + 1 /\ Len(q) \in Nat
    OBVIOUS
  <1>2. \A i \in 1 .. Len(q) : Append(q, p)[i] = q[i] /\ q[i] \in Range(q)
    BY <1>1 DEF Range
  <1>3. Append(q, p)[Len(q) + 1] = p
    OBVIOUS
  <1>4. Range(Append(q, p)) = Range(q) \cup {p}
    <2>1. ASSUME NEW x \in Range(Append(q, p)) PROVE x \in Range(q) \cup {p}
      <3>1. PICK i \in 1 .. Len(q) + 1 : x = Append(q, p)[i]
        BY <1>1, <2>1 DEF Range
      <3> QED
        BY <1>1, <1>2, <1>3, <3>1
    <2>2. ASSUME NEW x \in Range(q) PROVE x \in Range(Append(q, p))
      <3>1. PICK i \in 1 .. Len(q) : x = q[i]
        BY <1>1, <2>2 DEF Range
      <3>2. i \in DOMAIN Append(q, p) /\ x = Append(q, p)[i]
        BY <1>1, <1>2, <3>1
      <3> QED
        BY <3>2 DEF Range
    <2>3. p \in Range(Append(q, p))
      <3>1. Len(q) + 1 \in DOMAIN Append(q, p)
        BY <1>1
      <3> QED
        BY <1>3, <3>1 DEF Range
    <2> QED
      BY <2>1, <2>2, <2>3
  <1>5. ASSUME NEW i \in 1 .. Len(q) + 1, NEW j \in 1 .. Len(q) + 1, Append(q, p)[i] = Append(q, p)[j]
        PROVE  i = j
    <2>1. CASE i = Len(q) + 1 /\ j = Len(q) + 1
      BY <2>1
    <2>2. CASE i \in 1 .. Len(q) /\ j \in 1 .. Len(q)
      BY <1>1, <1>2, <1>5, <2>2
    <2>3. CASE i = Len(q) + 1 /\ j \in 1 .. Len(q)
      BY <1>2, <1>3, <1>5, <2>3
    <2>4. CASE j = Len(q) + 1 /\ i \in 1 .. Len(q)
      BY <1>2, <1>3, <1>5, <2>4
    <2> QED
      BY <1>1, <2>1, <2>2, <2>3, <2>4
  <1> QED
    BY <1>1, <1>4, <1>5

LEMMA QueueTaken ==
  ASSUME NEW q \in Seq(Accepted), q # <<>>, \A i, j \in DOMAIN q : q[i] = q[j] => i = j
  PROVE  /\ Tail(q) \in Seq(Accepted) /\ Head(q) \in Accepted /\ Head(q) \in Range(q)
         /\ Range(Tail(q)) \subseteq Range(q) /\ Head(q) \notin Range(Tail(q))
         /\ \A i, j \in DOMAIN Tail(q) : Tail(q)[i] = Tail(q)[j] => i = j
  <1>1. /\ Tail(q) \in Seq(Accepted) /\ Len(q) \in Nat /\ Len(q) > 0 /\ DOMAIN q = 1 .. Len(q)
        /\ DOMAIN Tail(q) = 1 .. Len(q) - 1
        /\ \A i \in 1 .. Len(q) - 1 : Tail(q)[i] = q[i + 1]
        /\ Head(q) = q[1]
    OBVIOUS
  <1>2. 1 \in DOMAIN q /\ \A i \in 1 .. Len(q) - 1 : i + 1 \in DOMAIN q /\ i + 1 # 1
    BY <1>1
  <1>3. Head(q) \in Accepted /\ Head(q) \in Range(q)
    BY <1>1, <1>2 DEF Range
  <1>4. Range(Tail(q)) \subseteq Range(q)
    BY <1>1, <1>2 DEF Range
  <1>5. Head(q) \notin Range(Tail(q))
    <2> SUFFICES ASSUME NEW i \in 1 .. Len(q) - 1, Tail(q)[i] = Head(q) PROVE FALSE
      BY <1>1 DEF Range
    <2> QED
      BY <1>1, <1>2
  <1>6. ASSUME NEW i \in 1 .. Len(q) - 1, NEW j \in 1 .. Len(q) - 1, Tail(q)[i] = Tail(q)[j]
        PROVE  i = j
    <2>1. q[i + 1] = q[j + 1]
      BY <1>1, <1>6
    <2>2. i + 1 = j + 1
      BY <1>2, <2>1
    <2> QED
      BY <2>2
  <1> QED
    BY <1>1, <1>3, <1>4, <1>5, <1>6

\* readLoop puts the pipe in acceptq, or gives it up.
LEMMA PushInv ==
  ASSUME UdpInv, NEW p \in Accepted, udpPush(p)
  PROVE  UdpInv'
  <1>1. UdpTypeOK /\ SocketFollowsPipes /\ SocketHeld /\ QueuedOnce
    BY DEF UdpInv
  <1>2. /\ hand.at = "push" /\ hand.pipe = p
        /\ UNCHANGED <<ucf, dups, dial, ul, pipes, reap, uacc, ugiven>>
    BY DEF udpPush
  <1>3. CASE /\ acceptq' = Append(acceptq, p)
             /\ hand' = [at |-> "read", pipe |-> NoUdp]
             /\ UNCHANGED <<upipe, net>>
    <2>1. acceptq \in Seq(Accepted) /\ p \notin Range(acceptq) /\ Queued(p)
      BY <1>1, <1>2 DEF UdpTypeOK, QueuedOnce, udpPush, Queued
    <2>2. \A i, j \in DOMAIN acceptq : acceptq[i] = acceptq[j] => i = j
      BY <1>1 DEF QueuedOnce
    <2>3. /\ acceptq' \in Seq(Accepted) /\ Range(acceptq') = Range(acceptq) \cup {p}
          /\ \A i, j \in DOMAIN acceptq' : acceptq'[i] = acceptq'[j] => i = j
      BY <1>3, <2>1, <2>2, QueueAppended
    <2>4. UdpTypeOK'
      BY <1>1, <1>2, <1>3, <2>3 DEF UdpTypeOK, HandState
    <2>5. SocketFollowsPipes' /\ SocketHeld'
      BY <1>1, <1>2, <1>3 DEF SocketFollowsPipes, SocketHeld, Peers
    <2>6. QueuedOnce'
      <3>1. \A r \in Accepted : Queued(r)' => Queued(r)
        BY <1>2, <1>3, <2>1, <2>3 DEF Queued
      <3>2. uacc'.at = "check" => uacc'.pipe \in Accepted \ Range(acceptq')
        BY <1>1, <1>2, <2>3 DEF QueuedOnce
      <3>3. hand'.at # "push"
        BY <1>3
      <3> QED
        BY <1>1, <1>2, <1>3, <2>3, <3>1, <3>2, <3>3 DEF QueuedOnce
    <2> QED
      BY <2>4, <2>5, <2>6 DEF UdpInv
  <1>4. CASE UNCHANGED acceptq /\ hand' = [at |-> "read", pipe |-> NoUdp] /\ UNCHANGED <<upipe, net>>
    <2>1. Quiet
      BY <1>1, <1>2, <1>4, SameKeeps DEF Quiet, UdpTypeOK, HandState
    <2> QED
      BY <2>1, QuietInv
  <1>5. CASE /\ upipe[p].st = "open" /\ UNCHANGED acceptq
             /\ HandCloses(p) /\ Sends({Disc(p)})
    <2>1. PipesKept
      BY <1>1, <1>5, ClosingKeeps, AcceptedPipe DEF HandCloses, UdpTypeOK
    <2>2. net' \subseteq Packet
      <3>1. {Disc(p)} \in SUBSET Packet
        BY <1>1, SentPackets, AcceptedPipe DEF UdpTypeOK
      <3> QED
        BY <1>1, <1>5, <3>1, NetTyped DEF UdpTypeOK
    <2>3. hand' \in HandState /\ hand'.at = "remove"
      BY <1>5 DEF HandCloses, HandState
    <2>4. Quiet
      BY <1>1, <1>2, <1>5, <2>1, <2>2, <2>3 DEF Quiet, UdpTypeOK
    <2> QED
      BY <2>4, QuietInv
  <1> QED
    BY <1>3, <1>4, <1>5 DEF udpPush

\* Accept takes a pipe from acceptq, or ends.
LEMMA SelectInv ==
  ASSUME UdpInv, udpAcceptSelect
  PROVE  UdpInv'
  <1>1. UdpTypeOK /\ SocketFollowsPipes /\ SocketHeld /\ QueuedOnce
    BY DEF UdpInv
  <1>2. /\ uacc.at = "select"
        /\ UNCHANGED <<ucf, net, dups, dial, ul, pipes, upipe, hand, reap, ugiven>>
    BY DEF udpAcceptSelect
  <1>3. CASE /\ acceptq # <<>> /\ uacc' = [at |-> "check", pipe |-> Head(acceptq)]
             /\ acceptq' = Tail(acceptq)
    <2>1. acceptq \in Seq(Accepted) /\ \A i, j \in DOMAIN acceptq : acceptq[i] = acceptq[j] => i = j
      BY <1>1 DEF UdpTypeOK, QueuedOnce
    <2>2. /\ acceptq' \in Seq(Accepted) /\ Head(acceptq) \in Accepted /\ Head(acceptq) \in Range(acceptq)
          /\ Range(acceptq') \subseteq Range(acceptq) /\ Head(acceptq) \notin Range(acceptq')
          /\ \A i, j \in DOMAIN acceptq' : acceptq'[i] = acceptq'[j] => i = j
      BY <1>3, <2>1, QueueTaken
    <2>3. UdpTypeOK'
      BY <1>1, <1>2, <1>3, <2>2 DEF UdpTypeOK, AcceptState
    <2>4. SocketFollowsPipes' /\ SocketHeld'
      BY <1>1, <1>2 DEF SocketFollowsPipes, SocketHeld, Peers
    <2>5. QueuedOnce'
      <3>1. \A r \in Accepted : Queued(r)' => Queued(r)
        BY <1>2, <1>3, <2>2 DEF Queued
      <3>2. uacc'.pipe = Head(acceptq)
        BY <1>3
      <3>3. hand'.at = "push" => hand'.pipe \in Accepted \ Range(acceptq) /\ hand'.pipe # Head(acceptq)
        BY <1>1, <1>2, <2>2 DEF QueuedOnce
      <3> QED
        BY <1>1, <1>2, <2>2, <3>1, <3>2, <3>3 DEF QueuedOnce
    <2> QED
      BY <2>3, <2>4, <2>5 DEF UdpInv
  <1>4. CASE uacc' = [uacc EXCEPT !.at = "over"] /\ UNCHANGED acceptq
    <2>1. uacc' \in AcceptState /\ uacc'.at = "over"
      BY <1>1, <1>4 DEF AcceptState, UdpTypeOK
    <2>2. Quiet
      BY <1>1, <1>2, <1>4, <2>1, SameKeeps DEF Quiet, UdpTypeOK
    <2> QED
      BY <2>2, QuietInv
  <1> QED
    BY <1>3, <1>4 DEF udpAcceptSelect

\* Accept returns the pipe, or closes it when the listener is closed.
LEMMA CheckClosesQuiet ==
  ASSUME UdpInv, udpAcceptCheck, ul.closed
  PROVE  Quiet
  <1>1. UdpTypeOK /\ QueuedOnce
    BY DEF UdpInv
  <1>2. uacc.at = "check" /\ uacc' = [uacc EXCEPT !.at = "over"] /\ ugiven' = ugiven
    BY DEF udpAcceptCheck
  <1>3. PICK p \in Accepted : p = uacc.pipe
    BY <1>1, <1>2 DEF QueuedOnce
  <1>4. UdpCloses(p)
    BY <1>3 DEF udpAcceptCheck, UdpCloses
  <1>5. PipesKept /\ net' \subseteq Packet
    BY <1>1, <1>4, ClosesKeeps
  <1>6. uacc' \in AcceptState /\ uacc'.at = "over"
    BY <1>1, <1>2 DEF AcceptState, UdpTypeOK
  <1> QED
    BY <1>1, <1>2, <1>5, <1>6 DEF Quiet, UdpTypeOK, udpAcceptCheck

LEMMA GiveInv ==
  ASSUME UdpInv, udpAcceptCheck, ~ul.closed
  PROVE  UdpInv'
  <1>1. UdpTypeOK /\ SocketFollowsPipes /\ SocketHeld /\ QueuedOnce
    BY DEF UdpInv
  <1>2. /\ uacc.at = "check" /\ uacc' = [uacc EXCEPT !.at = "idle"]
        /\ ugiven' = ugiven \cup {uacc.pipe} /\ upipe' = upipe /\ net' = net
        /\ UNCHANGED <<ucf, dups, dial, ul, pipes, acceptq, hand, reap>>
    BY DEF udpAcceptCheck
  <1>3. PICK p \in Accepted : p = uacc.pipe
    BY <1>1, <1>2 DEF QueuedOnce
  <1>4. uacc' \in AcceptState /\ uacc'.at = "idle"
    BY <1>1, <1>2 DEF AcceptState, UdpTypeOK
  <1>5. UdpTypeOK'
    BY <1>1, <1>2, <1>3, <1>4 DEF UdpTypeOK
  <1>6. SocketFollowsPipes' /\ SocketHeld'
    BY <1>1, <1>2 DEF SocketFollowsPipes, SocketHeld, Peers
  <1>7. QueuedOnce'
    <2>1. Queued(p)
      BY <1>1, <1>2, <1>3 DEF Queued, UdpTypeOK, AcceptState
    <2>2. \A r \in Accepted : Queued(r)' => Queued(r) /\ r # p
      BY <1>1, <1>2, <1>3, <1>4 DEF Queued, QueuedOnce
    <2>3. \A r \in Accepted : Queued(r)' => upipe'[r].st # "none" /\ r \notin ugiven'
      BY <1>1, <1>2, <1>3, <2>2 DEF QueuedOnce
    <2>4. \A r \in ugiven' : upipe'[r].st # "none"
      BY <1>1, <1>2, <1>3, <2>1 DEF QueuedOnce
    <2> QED
      BY <1>1, <1>2, <1>4, <2>3, <2>4 DEF QueuedOnce
  <1> QED
    BY <1>5, <1>6, <1>7 DEF UdpInv

LEMMA UdpCloseInv ==
  ASSUME UdpInv, udpClose
  PROVE  UdpInv'
  <1>1. UdpTypeOK /\ SocketFollowsPipes /\ SocketHeld /\ QueuedOnce
    BY DEF UdpInv
  <1>2. /\ ul' = [conn |-> ul.conn /\ Peers # {}, closed |-> TRUE, late |-> Range(acceptq)]
        /\ acceptq' = <<>>
        /\ UNCHANGED <<ucf, net, dups, dial, pipes, upipe, hand, reap, uacc, ugiven>>
    BY DEF udpClose
  <1>3. Range(acceptq) \subseteq Accepted /\ Range(acceptq') = {} /\ acceptq' \in Seq(Accepted)
        /\ DOMAIN acceptq' = {}
    BY <1>1, <1>2 DEF UdpTypeOK, Range
  <1>4. ul' \in ListenerState /\ ul'.closed /\ (ul'.conn <=> ul.conn /\ Peers # {})
    <2>1. (ul.conn /\ Peers # {}) \in BOOLEAN
      BY <1>1 DEF UdpTypeOK, ListenerState
    <2> QED
      BY <1>2, <1>3, <2>1 DEF ListenerState
  <1>5. UdpTypeOK'
    BY <1>1, <1>2, <1>3, <1>4 DEF UdpTypeOK
  <1>6. SocketFollowsPipes' /\ SocketHeld'
    <2>1. Peers' = Peers
      BY <1>2 DEF Peers
    <2> QED
      BY <1>1, <1>2, <1>4, <2>1 DEF SocketFollowsPipes, SocketHeld
  <1>7. QueuedOnce'
    <2>1. \A r \in Accepted : Queued(r)' => Queued(r)
      BY <1>2, <1>3 DEF Queued
    <2> QED
      BY <1>1, <1>2, <1>3, <2>1 DEF QueuedOnce
  <1> QED
    BY <1>5, <1>6, <1>7 DEF UdpInv

LEMMA UdpListenInv ==
  ASSUME UdpInv, udpListen
  PROVE  UdpInv'
  <1>1. UdpTypeOK /\ SocketFollowsPipes /\ SocketHeld /\ QueuedOnce
    BY DEF UdpInv
  <1>2. /\ ~ul.closed /\ ul' = [ul EXCEPT !.conn = TRUE] /\ uacc' = [uacc EXCEPT !.at = "idle"]
        /\ UNCHANGED <<ucf, net, dups, dial, pipes, upipe, acceptq, hand, reap, ugiven>>
    BY DEF udpListen
  <1>3. ul' \in ListenerState /\ ~ul'.closed /\ ul'.conn
    BY <1>1, <1>2 DEF UdpTypeOK, ListenerState
  <1>4. uacc' \in AcceptState /\ uacc'.at = "idle"
    BY <1>1, <1>2 DEF UdpTypeOK, AcceptState
  <1>5. UdpTypeOK'
    BY <1>1, <1>2, <1>3, <1>4 DEF UdpTypeOK
  <1>6. SocketFollowsPipes' /\ SocketHeld'
    BY <1>1, <1>2, <1>3 DEF SocketFollowsPipes, SocketHeld
  <1>7. QueuedOnce'
    <2>1. \A r \in Accepted : Queued(r)' => Queued(r)
      BY <1>2, <1>4 DEF Queued
    <2> QED
      BY <1>1, <1>2, <1>4, <2>1 DEF QueuedOnce
  <1> QED
    BY <1>5, <1>6, <1>7 DEF UdpInv

(***************************************************************************)
(* The table and the socket.                                               *)
(***************************************************************************)
LEMMA UdpInitInv == UdpInit => UdpInv
  <1> SUFFICES ASSUME UdpInit PROVE UdpInv
    OBVIOUS
  <1>1. newPipe \in PipeState /\ newPipe.st = "none"
    BY UdpCaps DEF newPipe, PipeState
  <1>2. \A p \in Accepted : upipe[p].st = "none" /\ pipes[p[1]] = NoUdp /\ p # NoUdp
    BY <1>1, AcceptedPipe DEF UdpInit
  <1>3. UdpTypeOK
    BY <1>1, UdpAssumption DEF UdpInit, UdpTypeOK, ListenerState, HandState, AcceptState
  <1>4. SocketFollowsPipes /\ SocketHeld
    BY <1>2 DEF SocketFollowsPipes, SocketHeld, Peers, UdpInit
  <1>5. QueuedOnce
    <2>1. Range(acceptq) = {} /\ DOMAIN acceptq = {}
      BY DEF UdpInit, Range
    <2> QED
      BY <2>1 DEF UdpInit, QueuedOnce, Queued
  <1> QED
    BY <1>3, <1>4, <1>5 DEF UdpInv

\* Every step is quiet or one of those that change the table or the queue.
Loud ==
    \/ \E k \in net, p \in Accepted : ul.conn /\ Creates(k, p)
    \/ \E p \in Accepted : udpRemove(p) \/ udpPush(p)
    \/ udpAcceptSelect \/ udpClose \/ udpListen
    \/ udpAcceptCheck /\ ~ul.closed

LEMMA QuietOrLoud == UdpInv /\ [UdpNext]_uvars => Quiet \/ Loud
  <1> SUFFICES ASSUME UdpInv, [UdpNext]_uvars PROVE Quiet \/ Loud
    OBVIOUS
  <1>1. UdpTypeOK
    BY DEF UdpInv
  <1>2. CASE UNCHANGED uvars
    <2>1. upipe' = upipe /\ net' = net /\ UNCHANGED <<ucf, ul, pipes, acceptq, hand, reap, uacc, ugiven>>
      BY <1>2, Zenon DEF uvars
    <2>2. PipesKept /\ net' \subseteq Packet
      BY <1>1, <2>1, SameKeeps DEF UdpTypeOK
    <2> QED
      BY <1>1, <2>1, <2>2, OnlyPipes
  <1>3. ASSUME NEW k \in net, udpLose(k) \/ handlePacket(k) \/ udpDialReads(k.at, k) \/ readConnected(k.at, k)
        PROVE  Quiet \/ Loud
    <2>1. k.at \in Remotes
      BY <1>1 DEF UdpTypeOK, Packet
    <2>2. CASE udpLose(k)
      BY <1>1, <2>2, ReapersQuiet
    <2>3. CASE udpDialReads(k.at, k) \/ readConnected(k.at, k)
      BY <1>1, <2>1, <2>3, DialersQuiet
    <2>4. CASE handlePacket(k)
      <3>1. ul.conn
        BY <2>4 DEF handlePacket
      <3> QED
        BY <1>1, <2>4, <3>1, PacketQuiet DEF Loud
    <2> QED
      BY <1>3, <2>2, <2>3, <2>4
  <1>4. ASSUME NEW p \in UdpPipes,
               udpRemove(p) \/ udpPipeClose(p) \/ udpRecv(p) \/ udpAge(p) \/ \E n \in Sizes : udpSend(p, n)
        PROVE  Quiet \/ Loud
    <2>1. CASE udpRemove(p) /\ p \in Accepted
      BY <2>1 DEF Loud
    <2>2. CASE udpRemove(p) /\ p \notin Accepted
      <3>1. /\ p \in Remotes /\ upipe' = [upipe EXCEPT ![p].st = "closed"] /\ net' = net
            /\ UNCHANGED <<ucf, ul, pipes, acceptq, hand, reap, uacc, ugiven>>
        BY <2>2 DEF udpRemove
      <3>2. PipesKept
        BY <1>1, <3>1, DialKeeps DEF UdpTypeOK
      <3>3. net' \subseteq Packet
        BY <1>1, <3>1 DEF UdpTypeOK
      <3> QED
        BY <1>1, <3>1, <3>2, <3>3, OnlyPipes
    <2> QED
      BY <1>1, <1>4, <2>1, <2>2, PipesQuiet
  <1>5. ASSUME NEW d \in Remotes,
               udpDial(d) \/ udpDialRetry(d) \/ udpDialFails(d) \/ udpRefused(d) \/ refreshDialer(d)
        PROVE  Quiet \/ Loud
    BY <1>1, <1>5, DialersQuiet
  <1>6. ASSUME NEW p \in Accepted, udpPush(p) \/ udpCloseLate(p) \/ reapClose(p)
        PROVE  Quiet \/ Loud
    BY <1>1, <1>6, ReapersQuiet DEF Loud
  <1>7. ASSUME udpListen \/ udpAcceptCall \/ udpAcceptSelect \/ udpAcceptCheck \/ udpClose \/ reapExpired
        PROVE  Quiet \/ Loud
    BY <1>1, <1>7, ReapersQuiet, CheckClosesQuiet DEF Loud
  <1> QED
    BY <1>2, <1>3, <1>4, <1>5, <1>6, <1>7 DEF UdpNext

LEMMA UdpNextInv == UdpInv /\ [UdpNext]_uvars => UdpInv'
  <1> SUFFICES ASSUME UdpInv, Quiet \/ Loud PROVE UdpInv'
    BY QuietOrLoud
  <1> QED
    BY QuietInv, CreatesInv, RemoveInv, PushInv, SelectInv, GiveInv, UdpCloseInv, UdpListenInv DEF Loud

LEMMA UdpInvariant == UdpSpec => []UdpInv
  BY UdpInitInv, UdpNextInv, PTL DEF UdpSpec

\* Whatever packets are lost, repeated or reordered, the listener's table has
\* exactly its live pipes, and its socket lives as long as somebody needs it
\* (handlePacket, Close, remove, closeConnLocked).
THEOREM SocketAlwaysFollows == UdpSpec => []SocketFollowsPipes
  <1>1. UdpInv => SocketFollowsPipes
    BY DEF UdpInv
  <1> QED
    BY <1>1, UdpInvariant, PTL

(***************************************************************************)
(* The contract of TranListener.                                           *)
(***************************************************************************)

\* What a step does to a pipe of the listener: it fades, is made, or is given
\* to Accept while the listener is open.
Fades(p) ==
    /\ upipe'[p].st = "none" <=> upipe[p].st = "none"
    /\ upipe'[p].st = "open" => upipe[p].st = "open"
    /\ p \in ugiven' <=> p \in ugiven
    /\ Queued(p)' => Queued(p)
IsMade(p) ==
    /\ upipe[p].st = "none" /\ upipe'[p].st = "open"
    /\ p \notin ugiven'
IsGiven(p) ==
    /\ ~ul.closed /\ upipe[p].st # "none" /\ upipe'[p].st # "none"
    /\ p \notin ugiven /\ Queued(p) /\ p \in ugiven'
PipeSteps ==
    /\ ul.closed => ul'.closed
    /\ \E x : \A p \in Accepted : Fades(p) \/ IsMade(p) \/ (p = x /\ IsGiven(p))

LEMMA QuietSteps ==
  ASSUME Quiet
  PROVE  PipeSteps
  <1>1. \A p \in Accepted : Queued(p)' => Queued(p)
    BY DEF Quiet, Queued
  <1>2. \A p \in Accepted : Fades(p)
    BY <1>1 DEF Quiet, PipesKept, SameLife, Fades
  <1> QED
    BY <1>2 DEF PipeSteps, Quiet

LEMMA LoudSteps ==
  ASSUME UdpInv, Loud
  PROVE  PipeSteps
  <1>1. UdpTypeOK /\ QueuedOnce /\ SocketFollowsPipes
    BY DEF UdpInv
  <1>2. ASSUME NEW k \in net, NEW p \in Accepted, Creates(k, p) PROVE PipeSteps
    <2>1. /\ upipe[p].st = "none" /\ upipe'[p].st = "open"
          /\ \A r \in Accepted : r # p => upipe'[r] = upipe[r]
      BY <1>1, <1>2, CreatesPipe
    <2>2. /\ hand' = [at |-> "push", pipe |-> p]
          /\ UNCHANGED <<ucf, dial, ul, acceptq, reap, uacc, ugiven>>
      BY <1>2 DEF Creates
    <2>3. p \notin ugiven
      BY <1>1, <2>1 DEF QueuedOnce
    <2>4. \A r \in Accepted : r # p => Fades(r)
      BY <2>1, <2>2 DEF Fades, Queued
    <2>5. IsMade(p)
      BY <2>1, <2>2, <2>3 DEF IsMade
    <2> QED
      BY <2>2, <2>4, <2>5 DEF PipeSteps
  <1>3. ASSUME NEW p \in Accepted, udpRemove(p) PROVE PipeSteps
    <2>1. /\ upipe[p].st = "closing" /\ upipe' = [upipe EXCEPT ![p].st = "closed"]
          /\ UNCHANGED <<acceptq, uacc, ugiven>>
      BY <1>3 DEF udpRemove
    <2>2. p \in UdpPipes /\ p \notin Remotes
      BY AcceptedPipe
    <2>3. upipe'[p].st = "closed" /\ \A r \in Accepted : r # p => upipe'[r] = upipe[r]
      BY <1>1, <2>1, <2>2, AcceptedPipe DEF UdpTypeOK, PipeState
    <2>4. (ul.closed => ul'.closed) /\ (hand'.at = "push" => hand' = hand)
      BY <1>1, <1>3, <2>2 DEF udpRemove, UdpTypeOK, ListenerState
    <2>5. \A r \in Accepted : Queued(r)' => Queued(r)
      BY <2>1, <2>4 DEF Queued
    <2>6. \A r \in Accepted : Fades(r)
      BY <2>1, <2>3, <2>5 DEF Fades
    <2> QED
      BY <2>4, <2>6 DEF PipeSteps
  <1>4. ASSUME NEW p \in Accepted, udpPush(p) PROVE PipeSteps
    <2>1. /\ hand = [at |-> "push", pipe |-> p] /\ hand'.at # "push"
          /\ UNCHANGED <<ul, uacc, ugiven>>
      BY <1>4 DEF udpPush, HandCloses
    <2>2. PipesKept
      BY <1>1, <1>4, SameKeeps, ClosingKeeps, AcceptedPipe DEF udpPush, HandCloses, UdpTypeOK
    <2>3. Range(acceptq') \subseteq Range(acceptq) \cup {p}
      <3>1. acceptq \in Seq(Accepted) /\ p \notin Range(acceptq)
            /\ \A i, j \in DOMAIN acceptq : acceptq[i] = acceptq[j] => i = j
        BY <1>1, <2>1 DEF UdpTypeOK, QueuedOnce
      <3> QED
        BY <1>4, <3>1, QueueAppended DEF udpPush
    <2>4. \A r \in Accepted : Queued(r)' => Queued(r)
      BY <2>1, <2>3 DEF Queued
    <2>5. \A r \in Accepted : Fades(r)
      BY <2>1, <2>2, <2>4 DEF Fades, PipesKept, SameLife
    <2> QED
      BY <2>1, <2>5 DEF PipeSteps
  <1>5. CASE udpAcceptSelect
    <2>1. UNCHANGED <<ul, upipe, hand, ugiven>>
      BY <1>5 DEF udpAcceptSelect
    <2>2. /\ Range(acceptq') \subseteq Range(acceptq)
          /\ uacc'.at = "check" => uacc'.pipe \in Range(acceptq)
      <3>1. acceptq \in Seq(Accepted) /\ \A i, j \in DOMAIN acceptq : acceptq[i] = acceptq[j] => i = j
        BY <1>1 DEF UdpTypeOK, QueuedOnce
      <3>2. CASE /\ acceptq # <<>> /\ uacc' = [at |-> "check", pipe |-> Head(acceptq)]
                 /\ acceptq' = Tail(acceptq)
        BY <3>1, <3>2, QueueTaken
      <3>3. CASE uacc' = [uacc EXCEPT !.at = "over"] /\ UNCHANGED acceptq
        BY <1>1, <3>3 DEF UdpTypeOK, AcceptState
      <3> QED
        BY <1>5, <3>2, <3>3 DEF udpAcceptSelect
    <2>3. \A r \in Accepted : Queued(r)' => Queued(r)
      BY <2>1, <2>2 DEF Queued
    <2> QED
      BY <2>1, <2>3 DEF PipeSteps, Fades
  <1>6. CASE udpClose
    <2>1. UNCHANGED <<upipe, hand, uacc, ugiven>> /\ ul'.closed /\ acceptq' = <<>>
      BY <1>6 DEF udpClose
    <2>2. \A r \in Accepted : Queued(r)' => Queued(r)
      BY <2>1 DEF Queued, Range
    <2> QED
      BY <2>1, <2>2 DEF PipeSteps, Fades
  <1>7. CASE udpListen
    <2>1. UNCHANGED <<upipe, hand, acceptq, ugiven>> /\ uacc'.at = "idle" /\ ~ul.closed
      BY <1>1, <1>7 DEF udpListen, UdpTypeOK, AcceptState
    <2>2. \A r \in Accepted : Queued(r)' => Queued(r)
      BY <2>1 DEF Queued
    <2> QED
      BY <2>1, <2>2 DEF PipeSteps, Fades
  <1>8. CASE udpAcceptCheck /\ ~ul.closed
    <2>1. /\ uacc.at = "check" /\ uacc' = [uacc EXCEPT !.at = "idle"]
          /\ ugiven' = ugiven \cup {uacc.pipe} /\ UNCHANGED <<upipe, ul, acceptq, hand>>
      BY <1>8 DEF udpAcceptCheck
    <2>2. PICK p \in Accepted : p = uacc.pipe
      BY <1>1, <2>1 DEF QueuedOnce
    <2>3. Queued(p) /\ uacc'.at = "idle"
      BY <1>1, <2>1, <2>2 DEF Queued, UdpTypeOK, AcceptState
    <2>4. IsGiven(p)
      BY <1>1, <1>8, <2>1, <2>2, <2>3 DEF IsGiven, QueuedOnce
    <2>5. \A r \in Accepted : r # p => Fades(r)
      BY <2>1, <2>2, <2>3 DEF Fades, Queued
    <2> QED
      BY <2>1, <2>4, <2>5 DEF PipeSteps
  <1> QED
    BY <1>2, <1>3, <1>4, <1>5, <1>6, <1>7, <1>8 DEF Loud

\* The state of a pipe as the contract sees it.
Seen(p) == IF upipe[p].st = "none" THEN "none"
           ELSE IF p \in ugiven THEN "accepted"
           ELSE IF upipe[p].st = "open" \/ Queued(p) THEN "pending"
           ELSE "gone"

LEMMA SeenStep ==
  ASSUME NEW p \in Accepted, Fades(p) \/ IsMade(p) \/ IsGiven(p)
  PROVE  \/ Seen(p)' = Seen(p)
         \/ Seen(p) = "none" /\ Seen(p)' = "pending"
         \/ Seen(p) = "pending" /\ Seen(p)' = "gone"
         \/ IsGiven(p) /\ Seen(p) = "pending" /\ Seen(p)' = "accepted"
  BY DEF Fades, IsMade, IsGiven, Seen

\* Nothing but Accept hands a pipe out.
LEMMA OnlyAcceptGives ==
  ASSUME NEW p \in Accepted, Fades(p) \/ IsMade(p), Seen(p) = "pending"
  PROVE  Seen(p)' # "accepted"
  BY DEF Fades, IsMade, Seen

\* Over a network that loses, repeats and reorders packets, the udp listener
\* keeps the contract of TranListener: a pipe is handed out once, before Close,
\* or it ends.
THEOREM UdpImplements == UdpSpec => UdpEndpoint!EndpointSafety
  <1> DEFINE Shut == IF ul.closed THEN {"udp"} ELSE {}
             Conns == [p \in Accepted |-> Seen(p)]
  <1>1. UdpInit => UdpEndpoint!EndpointInit
    <2> SUFFICES ASSUME UdpInit
                 PROVE  Shut = {} /\ Conns = [p \in Accepted |-> "none"]
      BY DEF UdpEndpoint!EndpointInit, Seen
    <2>1. ~ul.closed
      BY DEF UdpInit
    <2>2. \A p \in Accepted : upipe[p].st = "none"
      BY AcceptedPipe DEF UdpInit, newPipe
    <2>3. \A p \in Accepted : Seen(p) = "none"
      BY <2>2 DEF Seen
    <2> QED
      BY <2>1, <2>3
  <1>2. UdpInv /\ [UdpNext]_uvars => UdpEndpoint!EndpointNext
    <2> SUFFICES ASSUME UdpInv, [UdpNext]_uvars PROVE UdpEndpoint!EndpointNext
      OBVIOUS
    <2>0. PipeSteps
      BY QuietOrLoud, QuietSteps, LoudSteps
    <2>1. PICK x : \A p \in Accepted : Fades(p) \/ IsMade(p) \/ (p = x /\ IsGiven(p))
      BY <2>0 DEF PipeSteps
    <2>2. ul.closed => ul'.closed
      BY <2>0 DEF PipeSteps
    <2>3. Shut' \in {Shut \cup ls : ls \in SUBSET {"udp"}}
      <3>1. Shut' = Shut \cup Shut' /\ Shut' \in SUBSET {"udp"}
        BY <2>2
      <3> HIDE DEF Shut
      <3> QED
        BY <3>1
    <2>4. \A p \in Accepted : Conns[p] = Seen(p) /\ Conns'[p] = Seen(p)'
      OBVIOUS
    <2>5. \A p \in Accepted :
             \/ Conns'[p] = Conns[p]
             \/ Conns[p] = "none" /\ Conns'[p] = "pending"
             \/ Conns[p] = "pending" /\ Conns'[p] = "gone"
             \/ "udp" \notin Shut /\ Conns[p] = "pending" /\ Conns'[p] = "accepted"
      <3> SUFFICES ASSUME NEW p \in Accepted
                   PROVE  \/ Conns'[p] = Conns[p]
                          \/ Conns[p] = "none" /\ Conns'[p] = "pending"
                          \/ Conns[p] = "pending" /\ Conns'[p] = "gone"
                          \/ "udp" \notin Shut /\ Conns[p] = "pending" /\ Conns'[p] = "accepted"
        OBVIOUS
      <3>1. /\ Fades(p) \/ IsMade(p) \/ IsGiven(p)
            /\ Conns[p] = Seen(p) /\ Conns'[p] = Seen(p)'
        BY <2>1, <2>4
      <3>2. IsGiven(p) => "udp" \notin Shut
        BY DEF IsGiven
      <3> QED
        BY <3>1, <3>2, SeenStep
    <2>6. \A p \in Accepted : Conns[p] = "pending" /\ Conns'[p] = "accepted" => p = x
      <3> SUFFICES ASSUME NEW p \in Accepted, Conns[p] = "pending", Conns'[p] = "accepted" PROVE p = x
        OBVIOUS
      <3>1. Seen(p) = "pending" /\ Seen(p)' = "accepted"
        BY <2>4
      <3> QED
        BY <2>1, <3>1, OnlyAcceptGives
    <2>7. DOMAIN Conns' = Accepted
      OBVIOUS
    <2>8. \A p \in Accepted :
             /\ UdpEndpoint!Stays(p) <=> Conns'[p] = Conns[p]
             /\ UdpEndpoint!Arrive(p) <=> Conns[p] = "none" /\ Conns'[p] = "pending"
             /\ UdpEndpoint!Goes(p, "pending", "gone") <=> Conns[p] = "pending" /\ Conns'[p] = "gone"
             /\ UdpEndpoint!Goes(p, "pending", "accepted") <=> Conns[p] = "pending" /\ Conns'[p] = "accepted"
      BY Zenon DEF UdpEndpoint!Stays, UdpEndpoint!Arrive, UdpEndpoint!Goes, Seen
    <2>9. \A p \in Accepted :
             UdpEndpoint!Accept(p) <=> "udp" \notin Shut /\ Conns[p] = "pending" /\ Conns'[p] = "accepted"
      BY <2>8 DEF UdpEndpoint!Accept
    <2>10. \A p \in Accepted : \/ UdpEndpoint!Stays(p) \/ UdpEndpoint!Arrive(p)
                              \/ UdpEndpoint!Drop(p) \/ UdpEndpoint!Accept(p)
      <3> HIDE DEF Shut, Conns
      <3> QED
        BY <2>5, <2>8, <2>9 DEF UdpEndpoint!Drop
    <2>11. \A c, d \in Accepted : UdpEndpoint!Accept(c) /\ UdpEndpoint!Accept(d) => c = d
      <3> HIDE DEF Shut, Conns
      <3> QED
        BY <2>6, <2>9
    <2> QED
      BY <2>3, <2>7, <2>10, <2>11, Zenon DEF UdpEndpoint!EndpointNext, Seen
  <1> QED
    BY <1>1, <1>2, UdpInvariant, PTL DEF UdpSpec, UdpEndpoint!EndpointSafety
=============================================================================
