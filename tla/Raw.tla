-------------------------------- MODULE Raw ---------------------------------
(***************************************************************************)
(* The raw protocols of mangos (package protocol/x...): one socket with    *)
(* its pipes, the goroutines that serve each pipe, the application's calls *)
(* of SendMsg and RecvMsg, option changes, and the forwarder of a device.  *)
(*                                                                         *)
(* Every protocol is built from the same parts: Go channels for messages,  *)
(* channels that are closed to announce an event (the socket's closeQ, a   *)
(* pipe's closeQ, sizeQ after a resize), reference-counted messages, one   *)
(* sender and one receiver goroutine per pipe.  The first half of the      *)
(* module defines those parts, the second half defines each protocol's     *)
(* handlers from them.  conf.proto says which protocol a behaviour is of.  *)
(*                                                                         *)
(* A goroutine's step ends where it can meet another one: when it waits,   *)
(* unlocks the socket or evaluates a select.  A channel has capacity at    *)
(* least one; xpush is also modelled with capacity zero, which it never    *)
(* fills or drains.                                                        *)
(***************************************************************************)
EXTENDS Naturals, Sequences, FiniteSets, Functions

CONSTANTS Pipes,       \* pipe objects the core may hand to the socket
          Callers,     \* application threads
          Scenarios,   \* the configurations a behaviour may start in
          MaxSets,     \* bound on SetOption calls, hence on channels made by them
          MaxTTL,      \* largest TTL an application sets
          HopMax,      \* largest hop count the header's byte holds (255)
          NoMsg        \* no message

VARIABLES conf,   \* the scenario: protocol, options, who calls what, bounds
          opt,    \* the socket's options
          left,   \* messages, arrivals and option changes still to come
          s,      \* the socket structure
          buf,    \* contents of every channel of messages
          cap,    \* capacity of every channel of messages
          refs,   \* reference count of every live message
          pst,    \* pipes: new, open, closed (transport), half (RemovePipe has closed
                  \* closeQ and goes on), gone (RemovePipe ran)
          snd,    \* sender goroutine of each pipe
          rcv,    \* receiver goroutine of each pipe
          call,   \* call in progress of each application thread
          wire,   \* what was transmitted on each pipe, in order
          got,    \* what RecvMsg returned, in order
          drain   \* xpull: the old queue SetOption is still emptying

vars == <<conf, opt, left, s, buf, cap, refs, pst, snd, rcv, call, wire, got, drain>>

-----------------------------------------------------------------------------
(* Messages and their reference counts (message.go). *)

\* The object behind a message: a Dup, or one that comes round again, differs in cp.
Key(m) == <<m.id, m.cp>>

Count(r, k) == IF k \in DOMAIN r THEN r[k] ELSE 0
SetCount(r, k, n) ==
    [x \in (DOMAIN r \cup {k}) \ (IF n = 0 THEN {k} ELSE {}) |-> IF x = k THEN n ELSE r[x]]

NewMessage(r, m) == SetCount(r, Key(m), 1)
\* n calls of Clone, n calls of Free.
Clone_Once(r, m, n) == SetCount(r, Key(m), Count(r, Key(m)) + 1)
Clone(r, m, n) == SetCount(r, Key(m), Count(r, Key(m)) + n)
Free(r, m, n) ==
    LET c == Count(r, Key(m)) IN SetCount(r, Key(m), IF c > n THEN c - n ELSE 0)
\* The deep copy has a count of its own.
Dup(m, to) == [m EXCEPT !.cp = Append(@, to)]

-----------------------------------------------------------------------------
(* Channels. *)

NilQ == <<"nil", 0>>
RecvQ(n) == <<"r", n>>
SendQ(n) == <<"s", n>>
PipeQ(p) == <<"p", p>>
Chans == {NilQ} \cup ({"r", "s"} \X (0 .. MaxSets)) \cup ({"p"} \X Pipes)

Room(ch) == Len(buf[ch]) < cap[ch]
Ready(ch) == buf[ch] # <<>>

\* p.closeQ is closed by RemovePipe.
PipeClosed(p) == pst[p] \in {"half", "gone"}

\* The channels made by the next resize.
Fresh == MaxSets - left.sets + 1

NoGoroutine == [pc |-> "off", m |-> NoMsg, ch |-> NilQ, z |-> 0]
Idle == [op |-> "none", pc |-> "idle", m |-> NoMsg, ch |-> NilQ, z |-> 0, tq |-> "nil"]

-----------------------------------------------------------------------------
(* SendMsg, from the caller's side. *)

\* The cooked sockets bus, star and pair1 are wrappers that set or strip the header.
busSendMsg(m) == [m EXCEPT !.hdr = "none"]
starSendMsg(m) == [m EXCEPT !.hdr = "hop", !.hops = 0]
pair1SendMsg(m) == [m EXCEPT !.hdr = "hop", !.hops = 0]
busRecvMsg(m) == [m EXCEPT !.hdr = "none"]
starRecvMsg(m) == [m EXCEPT !.hdr = "none"]
pair1RecvMsg(m) == [m EXCEPT !.hdr = "none"]

Wrapped(m) == IF ~conf.cooked THEN m
              ELSE IF conf.proto = "xbus" THEN busSendMsg(m)
              ELSE IF conf.proto = "xstar" THEN starSendMsg(m) ELSE pair1SendMsg(m)
Unwrapped(m) == IF ~conf.cooked THEN m
                ELSE IF conf.proto = "xbus" THEN busRecvMsg(m)
                ELSE IF conf.proto = "xstar" THEN starRecvMsg(m) ELSE pair1RecvMsg(m)

\* The messages thread c may now pass to SendMsg: a new one, or for a device the
\* one it has received.
Offered(c) ==
    IF conf.role[c] = "device"
    THEN IF call[c].pc = "fwd" THEN {call[c].m} ELSE {}
    ELSE IF conf.role[c] = "send" /\ call[c].pc = "idle" /\ left.sends > 0
         THEN {Wrapped([id |-> <<c, left.sends>>, cp |-> <<>>, dev |-> 0, hdr |-> h, hops |-> 0])
                 : h \in conf.hdrs}
         ELSE {}
Sending(c) == IF conf.role[c] = "device" THEN UNCHANGED left
              ELSE left' = [left EXCEPT !.sends = @ - 1]

\* The count of a message as SendMsg gets it.
Passed(c, m) == IF conf.role[c] = "device" THEN refs ELSE NewMessage(refs, m)

\* A forwarder ends when SendMsg fails; an application thread goes on.
Refused(c) == [Idle EXCEPT !.pc = IF conf.role[c] = "device" THEN "exit" ELSE "idle"]

sendTimer == IF opt.best THEN "closed" ELSE IF opt.sexp THEN "timer" ELSE "nil"

\* SendMsg fails or succeeds at once, and m stays or ends with the caller.
Fails(c, m) ==
    /\ Sending(c)
    /\ call' = [call EXCEPT ![c] = Refused(c)]
    /\ refs' = Free(Passed(c, m), m, 1)
    /\ UNCHANGED <<conf, opt, s, buf, cap, pst, snd, rcv, wire, got, drain>>
Discards(c, m) ==
    /\ Sending(c)
    /\ call' = [call EXCEPT ![c] = Idle]
    /\ refs' = Free(Passed(c, m), m, 1)
    /\ UNCHANGED <<conf, opt, s, buf, cap, pst, snd, rcv, wire, got, drain>>

\* One copy for the queue of each pipe of "to" that has room, all under the lock.
Multicast(c, m, to) ==
    LET ok == {p \in to : Room(PipeQ(p))}
    IN /\ Sending(c)
       /\ call' = [call EXCEPT ![c] = Idle]
       /\ buf' = [ch \in Chans |-> IF \E p \in ok : ch = PipeQ(p) THEN Append(buf[ch], m)
                                                                  ELSE buf[ch]]
       /\ refs' = Free(Clone(Passed(c, m), m, Cardinality(to)), m, Cardinality(to \ ok) + 1)
       /\ UNCHANGED <<conf, opt, s, cap, pst, snd, rcv, wire, got, drain>>

\* SendMsg read the channels under the lock and goes on to its first select.
Enter(c, m, ch, z) ==
    /\ Sending(c)
    /\ call' = [call EXCEPT ![c] = [op |-> "send", pc |-> "try", m |-> m, ch |-> ch, z |-> z,
                                    tq |-> sendTimer]]
    /\ refs' = Passed(c, m)
    /\ UNCHANGED <<conf, opt, s, buf, cap, pst, snd, rcv, wire, got, drain>>

At(c, op, pc) == call[c].op = op /\ call[c].pc = pc
NotYet(c, ch) == /\ call' = [call EXCEPT ![c].pc = "wait", ![c].ch = ch]
                 /\ UNCHANGED <<conf, opt, left, s, buf, cap, refs, pst, snd, rcv, wire, got, drain>>

\* The cases of the selects in SendMsg.  next is where the call goes on.
puts_Front(c, ch, next) ==
    /\ Room(ch)
    /\ buf' = [buf EXCEPT ![ch] = <<call[c].m>> \o @]
    /\ call' = [call EXCEPT ![c] = next]
    /\ UNCHANGED <<conf, opt, left, s, cap, refs, pst, snd, rcv, wire, got, drain>>
puts(c, ch, next) ==
    /\ Room(ch)
    /\ buf' = [buf EXCEPT ![ch] = Append(@, call[c].m)]
    /\ call' = [call EXCEPT ![c] = next]
    /\ UNCHANGED <<conf, opt, left, s, cap, refs, pst, snd, rcv, wire, got, drain>>
gives(c, next) ==
    /\ call' = [call EXCEPT ![c] = next]
    /\ refs' = Free(refs, call[c].m, 1)
    /\ UNCHANGED <<conf, opt, left, s, buf, cap, pst, snd, rcv, wire, got, drain>>
onCloseQ(c) == s.closeQ /\ gives(c, Refused(c))
onTimer(c) == \/ call[c].tq = "closed" /\ gives(c, Idle)
              \/ call[c].tq = "timer" /\ gives(c, Refused(c))
onSizeQ(c) == call[c].z # s.sizeQ /\ gives(c, Idle)

\* The first select of SendMsg: the queue or the default.
tryPut(c) == /\ At(c, "send", "try")
             /\ \/ puts(c, call[c].ch, Idle)
                \/ ~Room(call[c].ch) /\ NotYet(c, call[c].ch)

-----------------------------------------------------------------------------
(* RecvMsg, from the caller's side. *)

\* The timer of a RecvMsg that starts, or looks again after a resize: xrespondent keeps
\* the one it has, xsub and xpull keep it when there is no deadline any more.
recvTimer(c) ==
    IF conf.proto = "xrespondent" /\ call[c].op = "recv" THEN call[c].tq
    ELSE IF opt.rexp THEN "timer"
    ELSE IF conf.proto \in {"xsub", "xpull"} THEN call[c].tq ELSE "nil"
Capture(c) ==
    /\ call' = [call EXCEPT ![c] = [op |-> "recv", pc |-> "try", m |-> NoMsg, ch |-> s.recvQ,
                                    z |-> s.sizeQ, tq |-> recvTimer(c)]]
    /\ UNCHANGED <<conf, opt, left, s, buf, cap, refs, pst, snd, rcv, wire, got, drain>>
beginRecv(c) == conf.role[c] \in {"recv", "device"} /\ call[c].pc = "idle" /\ Capture(c)

\* The call returns the first message of ch.  A device goes on to send it.
takes(c, ch) ==
    /\ Ready(ch)
    /\ buf' = [buf EXCEPT ![ch] = Tail(@)]
    /\ LET m == Unwrapped(Head(buf[ch]))
       IN IF conf.role[c] = "device"
          THEN /\ call' = [call EXCEPT ![c] = [Idle EXCEPT !.pc = "fwd", !.m = m]]
               /\ UNCHANGED <<refs, got>>
          ELSE /\ call' = [call EXCEPT ![c] = Idle]
               /\ refs' = Free(refs, m, 1)
               /\ got' = Append(got, m)
    /\ UNCHANGED <<conf, opt, left, s, cap, pst, snd, rcv, wire, drain>>
recvFails(c) ==
    /\ \/ s.closeQ
       \/ call[c].tq = "timer"
    /\ call' = [call EXCEPT ![c] = Refused(c)]
    /\ UNCHANGED <<conf, opt, left, s, buf, cap, refs, pst, snd, rcv, wire, got, drain>>

tryTake(c) == /\ At(c, "recv", "try")
              /\ \/ takes(c, call[c].ch)
                 \/ ~Ready(call[c].ch) /\ NotYet(c, call[c].ch)

\* The loop most protocols have: a resize makes RecvMsg look again.
recvLoop_Deaf(c) ==
    \/ beginRecv(c)
    \/ tryTake(c)
    \/ At(c, "recv", "wait") /\ (takes(c, call[c].ch) \/ recvFails(c))
recvLoop(c) ==
    \/ beginRecv(c)
    \/ tryTake(c)
    \/ /\ At(c, "recv", "wait")
       /\ \/ takes(c, call[c].ch)
          \/ recvFails(c)
          \/ call[c].z # s.sizeQ /\ Capture(c)

-----------------------------------------------------------------------------
(* The goroutines of a pipe. *)

\* p.close() at the end of a goroutine, unless the pipe is closed already.
Closing(p) == pst' = [pst EXCEPT ![p] = IF @ = "open" THEN "closed" ELSE @]

\* Back after the device at the other end and, unless it began here, this one.
Returning(o) ==
    LET m == Head(wire[o])
    IN [m EXCEPT !.cp = Append(@, o), !.hops = @ + 1,
                 !.dev = @ + (IF m.id[1] \in Callers /\ @ = 0 THEN 1 ELSE 2)]
\* What the transport may hand to the receiver of p: a message the peer sends, or in
\* a topology with a loop one that was transmitted before and comes round again.
Incoming(p) ==
    IF pst[p] # "open" \/ rcv[p].pc # "recv" THEN {}
    ELSE {[from |-> NoMsg, m |-> [id |-> <<p, left.arrivals>>, cp |-> <<>>, dev |-> k.dev,
                                  hdr |-> k.hdr, hops |-> k.dev]]
            : k \in IF left.arrivals > 0 THEN conf.kinds ELSE {}}
         \cup {[from |-> o, m |-> Returning(o)]
            : o \in IF conf.loop THEN {x \in Pipes : wire[x] # <<>>} ELSE {}}
Arrived(i) ==
    IF i.from = NoMsg
    THEN left' = [left EXCEPT !.arrivals = @ - 1] /\ UNCHANGED wire
    ELSE wire' = [wire EXCEPT ![i.from] = Tail(@)] /\ UNCHANGED left

\* The receiver keeps m for the socket's queue, or drops what came.
keeps(p, i, m) ==
    /\ Arrived(i)
    /\ rcv' = [rcv EXCEPT ![p] = [pc |-> "put", m |-> m, ch |-> s.recvQ, z |-> s.sizeQ]]
    /\ refs' = NewMessage(refs, m)
    /\ UNCHANGED <<conf, opt, s, buf, cap, pst, snd, call, got, drain>>
drops(p, i) ==
    /\ Arrived(i)
    /\ UNCHANGED <<conf, opt, s, buf, cap, refs, pst, snd, rcv, call, got, drain>>

\* The pipe failed and RecvMsg on it returned nil.
recvNil(p) ==
    /\ rcv[p].pc = "recv" /\ pst[p] # "open"
    /\ rcv' = [rcv EXCEPT ![p] = [NoGoroutine EXCEPT !.pc = "done"]]
    /\ UNCHANGED <<conf, opt, left, s, buf, cap, refs, pst, snd, call, wire, got, drain>>

\* The cases of the select in a receiver.
putIn(p) ==
    /\ rcv[p].pc = "put" /\ Room(rcv[p].ch)
    /\ buf' = [buf EXCEPT ![rcv[p].ch] = Append(@, rcv[p].m)]
    /\ rcv' = [rcv EXCEPT ![p] = [NoGoroutine EXCEPT !.pc = "recv"]]
    /\ UNCHANGED <<conf, opt, left, s, cap, refs, pst, snd, call, wire, got, drain>>
rcvLets(p, r, pc) ==
    /\ refs' = r
    /\ rcv' = [rcv EXCEPT ![p] = [NoGoroutine EXCEPT !.pc = pc]]
    /\ IF pc = "done" THEN Closing(p) ELSE UNCHANGED pst
    /\ UNCHANGED <<conf, opt, left, s, buf, cap, snd, call, wire, got, drain>>
rcvFrees(p, pc) == rcvLets(p, Free(refs, rcv[p].m, 1), pc)
rcvQuit(p) == rcv[p].pc = "put" /\ PipeClosed(p) /\ rcvFrees(p, "done")
rcvResized(p) == rcv[p].pc = "put" /\ rcv[p].z # s.sizeQ

\* A receiver that only waits for the end of the pipe.
drainReceiver(p) == (\E i \in Incoming(p) : drops(p, i)) \/ recvNil(p)

\* The sender takes a message from ch, hands it to the transport, and is done when
\* that fails.  The transport frees what it has sent.
pulls_Peek(p, ch) ==
    /\ snd[p].pc = "sel" /\ Ready(ch)
    /\ refs' = Clone(refs, Head(buf[ch]), 1)
    /\ snd' = [snd EXCEPT ![p].pc = "send", ![p].m = Head(buf[ch])]
    /\ UNCHANGED <<conf, opt, left, s, buf, cap, pst, rcv, call, wire, got, drain>>
pulls(p, ch) ==
    /\ snd[p].pc = "sel" /\ Ready(ch)
    /\ buf' = [buf EXCEPT ![ch] = Tail(@)]
    /\ snd' = [snd EXCEPT ![p].pc = "send", ![p].m = Head(buf[ch])]
    /\ UNCHANGED <<conf, opt, left, s, cap, refs, pst, rcv, call, wire, got, drain>>
transmits(p, next) ==
    /\ snd[p].pc = "send" /\ pst[p] = "open"
    /\ wire' = [wire EXCEPT ![p] = Append(@, snd[p].m)]
    /\ refs' = Free(refs, snd[p].m, 1)
    /\ snd' = [snd EXCEPT ![p] = [NoGoroutine EXCEPT !.pc = next]]
    /\ UNCHANGED <<conf, opt, left, s, buf, cap, pst, rcv, call, got, drain>>
sndEnds(p, r) ==
    /\ refs' = r
    /\ snd' = [snd EXCEPT ![p] = [NoGoroutine EXCEPT !.pc = "done"]]
    /\ Closing(p)
    /\ UNCHANGED <<conf, opt, left, s, buf, cap, rcv, call, wire, got, drain>>
sendFailed(p) == snd[p].pc = "send" /\ pst[p] # "open"
sndQuit(p) == snd[p].pc = "sel" /\ PipeClosed(p) /\ sndEnds(p, refs)

\* A sender with a queue of its own; it frees a message it could not send, or not.
pipeSender(p) == pulls(p, PipeQ(p)) \/ transmits(p, "sel") \/ sndQuit(p)
frees(p) == sendFailed(p) /\ sndEnds(p, Free(refs, snd[p].m, 1))
leaks(p) == sendFailed(p) /\ sndEnds(p, refs)

\* A sender on the socket's queue reads it anew for every message.
recapture(p) ==
    /\ snd' = [snd EXCEPT ![p] = [pc |-> "sel", m |-> NoMsg, ch |-> s.sendQ, z |-> s.sizeQ]]
    /\ UNCHANGED <<conf, opt, left, s, buf, cap, refs, pst, rcv, call, wire, got, drain>>
socketSender(p) ==
    \/ snd[p].pc = "cap" /\ recapture(p)
    \/ pulls(p, snd[p].ch)
    \/ transmits(p, "cap")
    \/ snd[p].pc = "sel" /\ snd[p].z # s.sizeQ /\ recapture(p)
    \/ sndQuit(p)

-----------------------------------------------------------------------------
(* Pipes come and go, options change, the socket closes. *)

Connects(p) == pst[p] = "new" /\ Cardinality({q \in Pipes : pst[q] # "new"}) < conf.npipes
\* AddPipe admits p: its goroutines start.
attach(p, s2, pc) ==
    /\ Connects(p) /\ ~s.closed
    /\ s' = s2
    /\ pst' = [pst EXCEPT ![p] = "open"]
    /\ cap' = [cap EXCEPT ![PipeQ(p)] = opt.sqlen]
    /\ snd' = [snd EXCEPT ![p].pc = pc]
    /\ rcv' = [rcv EXCEPT ![p].pc = "recv"]
    /\ UNCHANGED <<conf, opt, left, buf, refs, call, wire, got, drain>>
\* AddPipe fails and the core closes p, which the protocol does not see again.
refuse(p) ==
    /\ Connects(p)
    /\ pst' = [pst EXCEPT ![p] = "gone"]
    /\ UNCHANGED <<conf, opt, left, s, buf, cap, refs, snd, rcv, call, wire, got, drain>>
Joined(p) == [s EXCEPT !.pipes = @ \cup {p}]
addToMap(p) == attach(p, Joined(p), "sel") \/ (s.closed /\ refuse(p))

\* RemovePipe, after the core closed the transport.
detach(p, s2) ==
    /\ pst[p] = "closed"
    /\ pst' = [pst EXCEPT ![p] = "gone"]
    /\ s' = s2
    /\ UNCHANGED <<conf, opt, left, buf, cap, refs, snd, rcv, call, wire, got, drain>>
Parted(p) == [s EXCEPT !.pipes = @ \ {p}]
\* Without the lock around both: first closeQ, then the map, or the other way round.
detachLast(p) ==
    /\ \/ pst[p] = "closed" /\ pst' = [pst EXCEPT ![p] = "half"] /\ UNCHANGED s
       \/ pst[p] = "half" /\ pst' = [pst EXCEPT ![p] = "gone"] /\ s' = Parted(p)
    /\ UNCHANGED <<conf, opt, left, buf, cap, refs, snd, rcv, call, wire, got, drain>>
detachFirst(p) ==
    /\ pst[p] = "closed"
    /\ \/ p \in s.pipes /\ s' = Parted(p) /\ UNCHANGED pst
       \/ p \notin s.pipes /\ pst' = [pst EXCEPT ![p] = "gone"] /\ UNCHANGED s
    /\ UNCHANGED <<conf, opt, left, buf, cap, refs, snd, rcv, call, wire, got, drain>>

\* pipe.Close of the core: the peer hangs up, or CloseAll after the socket's Close.
ClosePipe(p) ==
    /\ pst[p] = "open"
    /\ pst' = [pst EXCEPT ![p] = "closed"]
    /\ UNCHANGED <<conf, opt, left, s, buf, cap, refs, snd, rcv, call, wire, got, drain>>
CloseAll(p) == s.closeQ /\ ClosePipe(p)

\* Close sets the flag under the lock and closes closeQ after it.
closes(s2) ==
    /\ \/ ~s.closed /\ s' = s2
       \/ s.closed /\ ~s.closeQ /\ s' = [s EXCEPT !.closeQ = TRUE]
    /\ UNCHANGED <<conf, opt, left, buf, cap, refs, pst, snd, rcv, call, wire, got, drain>>
Shut == [s EXCEPT !.closed = TRUE]

\* SetOption of a value that calls read when they start.
Values(f) == IF f = "ttl" THEN 1 .. MaxTTL ELSE IF f = "sqlen" THEN conf.qlens ELSE BOOLEAN
sets(fields) ==
    /\ left.sets > 0
    /\ left' = [left EXCEPT !.sets = @ - 1]
    /\ \E f \in fields \cap conf.fields : \E v \in Values(f) \ {opt[f]} : opt' = [opt EXCEPT ![f] = v]
    /\ UNCHANGED <<conf, s, buf, cap, refs, pst, snd, rcv, call, wire, got, drain>>

\* SetOption of a queue length: a new channel, and sizeQ is closed to say so.
resize(s2, ch) ==
    /\ left.sets > 0 /\ drain = NilQ
    /\ left' = [left EXCEPT !.sets = @ - 1]
    /\ s' = s2
    /\ \E n \in conf.qlens : cap' = [cap EXCEPT ![ch] = n]
Announce(s2) == [s2 EXCEPT !.sizeQ = @ + 1]
resizeRecv(s2) == /\ resize([s2 EXCEPT !.recvQ = RecvQ(Fresh)], RecvQ(Fresh))
                  /\ UNCHANGED <<conf, opt, buf, refs, pst, snd, rcv, call, wire, got, drain>>
resizeSend(s2) == /\ resize([s2 EXCEPT !.sendQ = SendQ(Fresh)], SendQ(Fresh))
                  /\ UNCHANGED <<conf, opt, buf, refs, pst, snd, rcv, call, wire, got, drain>>

-----------------------------------------------------------------------------
(* XPUB and XSUB: a message for every subscriber, none is ever waited for. *)

xpubSendMsg(c) == \E m \in Offered(c) :
    \/ s.closed /\ Fails(c, m)
    \/ ~s.closed /\ Multicast(c, m, s.pipes)
xpubSetOption == sets({"sqlen"})
xpubAddPipe(p) == addToMap(p)
xpubRemovePipe(p) == detach(p, Parted(p))
\* There is no closeQ: nothing waits.
xpubClose == ~s.closed /\ closes([Shut EXCEPT !.closeQ = TRUE])
xpubSender(p) == pipeSender(p) \/ frees(p)
xpubReceiver(p) == drainReceiver(p)

xsubRecvMsg(c) == recvLoop(c)
xsubSetOption == sets({"rexp"}) \/ resizeRecv(Announce(s))
xsubAddPipe(p) == attach(p, s, "off") \/ (s.closed /\ refuse(p))
xsubRemovePipe(p) == detach(p, s)
xsubClose == closes(Shut)
\* Never waits: a message that finds the queue full is dropped.
xsubReceiver(p) ==
    \/ \E i \in Incoming(p) : keeps(p, i, i.m)
    \/ putIn(p)
    \/ rcv[p].pc = "put" /\ ~Room(rcv[p].ch) /\ rcvFrees(p, "recv")
    \/ recvNil(p)

-----------------------------------------------------------------------------
(* XSURVEYOR: surveys fan out, responses come back with their four-byte ID. *)

xsurveyorSendMsg(c) == \E m \in Offered(c) :
    \/ s.closed /\ Fails(c, m)
    \/ ~s.closed /\ Multicast(c, m, s.pipes)
xsurveyorRecvMsg(c) == recvLoop(c)
xsurveyorSetOption == sets({"rexp", "sqlen"}) \/ resizeRecv(Announce(s))
xsurveyorAddPipe(p) == addToMap(p)
xsurveyorRemovePipe(p) == detachLast(p)
xsurveyorClose == closes(Shut)
xsurveyorSender(p) == pipeSender(p) \/ frees(p)
xsurveyorReceiver(p) ==
    \/ \E i \in Incoming(p) : IF i.m.hdr = "short" THEN drops(p, i) ELSE keeps(p, i, i.m)
    \/ putIn(p)
    \/ rcvQuit(p)
    \/ rcvResized(p) /\ rcvFrees(p, "recv")
    \/ recvNil(p)

-----------------------------------------------------------------------------
(* XBUS: to every peer but the one a forwarded message came from. *)

xbusSendMsg_Back(c) == \E m \in Offered(c) :
    ~s.closed /\ Multicast(c, [m EXCEPT !.hdr = "none"], s.pipes)
xbusSendMsg(c) == \E m \in Offered(c) :
    \/ s.closed /\ Fails(c, m)
    \/ ~s.closed /\ Multicast(c, [m EXCEPT !.hdr = "none"], s.pipes \ {m.hdr})
xbusRecvMsg(c) == recvLoop(c)
xbusSetOption == sets({"rexp", "sqlen"}) \/ resizeRecv(Announce(s))
xbusAddPipe(p) == addToMap(p)
xbusRemovePipe(p) == detachFirst(p)
xbusClose == closes(Shut)
xbusSender(p) == pipeSender(p) \/ frees(p)
\* The header becomes the pipe's ID.  A resize ends the receiver, and with it the pipe.
xbusReceiver(p) ==
    \/ \E i \in Incoming(p) : keeps(p, i, [i.m EXCEPT !.hdr = p])
    \/ putIn(p)
    \/ rcvQuit(p)
    \/ rcvResized(p) /\ rcvFrees(p, "done")
    \/ recvNil(p)

-----------------------------------------------------------------------------
(* XSTAR: every member forwards what it receives to its other peers. *)

xstarSendMsg(c) == \E m \in Offered(c) :
    \/ s.closed /\ Fails(c, m)
    \/ ~s.closed /\ m.hdr # "hop" /\ Discards(c, m)
    \/ ~s.closed /\ m.hdr = "hop" /\ Multicast(c, m, s.pipes)
\* s.recvq is read without the lock, for each select anew, and a resize is not
\* announced: a call that waits keeps waiting on the old channel.
xstarRecvMsg(c) ==
    \/ beginRecv(c)
    \/ /\ At(c, "recv", "try")
       /\ \/ takes(c, s.recvQ)
          \/ ~Ready(s.recvQ) /\ NotYet(c, s.recvQ)
    \/ At(c, "recv", "wait") /\ (takes(c, call[c].ch) \/ recvFails(c))
xstarSetOption == sets({"rexp", "sqlen", "ttl"}) \/ resizeRecv(s)
xstarAddPipe(p) == addToMap(p)
xstarRemovePipe(p) == detachLast(p)
xstarClose == closes(Shut)
xstarSender(p) == pipeSender(p) \/ frees(p)

\* The receiver's copies for the other pipes, made under the lock; the select that
\* follows reads s.recvq after it.
Hopped(m) == [m EXCEPT !.hdr = "hop", !.hops = (@ + 1) % (HopMax + 1)]
forwards(p, i) ==
    LET m  == Hopped(i.m)
        ok == {o \in s.pipes \ {p} : Room(PipeQ(o))}
        us == Dup(m, "u")
    IN /\ Arrived(i)
       /\ rcv' = [rcv EXCEPT ![p] = [pc |-> "look", m |-> us, ch |-> NilQ, z |-> 0]]
       /\ buf' = [ch \in Chans |-> IF \E o \in ok : ch = PipeQ(o)
                                   THEN Append(buf[ch], Dup(m, ch[2])) ELSE buf[ch]]
       /\ refs' = [k \in DOMAIN refs \cup {Key(us)} \cup {Key(Dup(m, o)) : o \in ok}
                     |-> IF k \in DOMAIN refs THEN refs[k] ELSE 1]
       /\ UNCHANGED <<conf, opt, s, cap, pst, snd, call, got, drain>>
looks(p) ==
    /\ rcv[p].pc = "look"
    /\ rcv' = [rcv EXCEPT ![p].pc = "put", ![p].ch = s.recvQ]
    /\ UNCHANGED <<conf, opt, left, s, buf, cap, refs, pst, snd, call, wire, got, drain>>
xstarReceiver(p) ==
    \/ \E i \in Incoming(p) :
         IF i.m.hdr = "short" \/ i.m.hops >= opt.ttl THEN drops(p, i) ELSE forwards(p, i)
    \/ looks(p)
    \/ putIn(p)
    \/ rcvQuit(p)
    \/ rcv[p].pc = "put" /\ s.closeQ /\ rcvFrees(p, "done")
    \/ recvNil(p)

-----------------------------------------------------------------------------
(* XPAIR and XPAIR1: one peer, queues in both directions on the socket. *)

monogamous(p) == \/ s.pipes = {} /\ attach(p, Joined(p), "cap")
                 \/ (s.closed \/ s.pipes # {}) /\ refuse(p)

xpairSendMsg(c) ==
    \/ \E m \in Offered(c) : \/ s.closed /\ Fails(c, m)
                             \/ ~s.closed /\ Enter(c, m, s.sendQ, s.sizeQ)
    \/ tryPut(c)
    \/ /\ At(c, "send", "wait")
       /\ puts(c, call[c].ch, Idle) \/ onCloseQ(c) \/ onTimer(c) \/ onSizeQ(c)
xpairRecvMsg(c) == recvLoop(c)
xpairSetOption == \/ sets({"best", "rexp", "sexp"})
                  \/ resizeRecv(Announce(s))
                  \/ resizeSend(Announce(s))
xpairAddPipe(p) == monogamous(p)
xpairRemovePipe(p) == detach(p, Parted(p))
xpairClose == closes(Shut)
xpairSender(p) == socketSender(p) \/ frees(p)
xpairReceiver(p) ==
    \/ \E i \in Incoming(p) : keeps(p, i, i.m)
    \/ putIn(p)
    \/ rcvQuit(p)
    \/ rcvResized(p) /\ rcvFrees(p, "recv")
    \/ recvNil(p)

\* A message must come with a hop count in its header.
xpair1SendMsg(c) ==
    \/ \E m \in Offered(c) : \/ m.hdr # "hop" /\ Discards(c, m)
                             \/ m.hdr = "hop" /\ s.closed /\ Fails(c, m)
                             \/ m.hdr = "hop" /\ ~s.closed /\ Enter(c, m, s.sendQ, s.sizeQ)
    \/ tryPut(c)
    \/ /\ At(c, "send", "wait")
       /\ puts(c, call[c].ch, Idle) \/ onCloseQ(c) \/ onTimer(c) \/ onSizeQ(c)
xpair1RecvMsg(c) == recvLoop(c)
xpair1SetOption == \/ sets({"best", "rexp", "sexp", "ttl"})
                   \/ resizeRecv(Announce(s))
                   \/ resizeSend(Announce(s))
xpair1AddPipe(p) == monogamous(p)
xpair1RemovePipe(p) == detach(p, Parted(p))
xpair1Close == closes(Shut)
xpair1Sender(p) == socketSender(p) \/ frees(p)
xpair1Receiver(p) ==
    \/ \E i \in Incoming(p) :
         IF i.m.hdr = "short" \/ i.m.hops >= HopMax \/ i.m.hops > opt.ttl
         THEN drops(p, i) ELSE keeps(p, i, Hopped(i.m))
    \/ putIn(p)
    \/ rcvQuit(p)
    \/ rcvResized(p) /\ rcvFrees(p, "recv")
    \/ recvNil(p)

-----------------------------------------------------------------------------
(* XREQ: requests go to whichever pipe takes them first. *)

\* No look at s.closed: Close takes the queue away instead.
xreqSendMsg(c) ==
    \/ \E m \in Offered(c) : Enter(c, m, s.sendQ, s.sizeQ)
    \/ tryPut(c)
    \/ /\ At(c, "send", "wait")
       /\ puts(c, call[c].ch, Idle) \/ onCloseQ(c) \/ onTimer(c) \/ onSizeQ(c)
xreqRecvMsg(c) == recvLoop(c)
xreqSetOption == \/ sets({"best", "rexp", "sexp"})
                 \/ resizeRecv(Announce(s))
                 \/ resizeSend(Announce(s))
xreqAddPipe(p) == attach(p, s, "cap") \/ (s.closed /\ refuse(p))
xreqRemovePipe(p) == detach(p, s)
xreqClose == closes([Shut EXCEPT !.sendQ = NilQ])
xreqSender(p) == socketSender(p) \/ leaks(p)
xreqReceiver(p) ==
    \/ \E i \in Incoming(p) : IF i.m.hdr = "short" THEN drops(p, i) ELSE keeps(p, i, i.m)
    \/ putIn(p)
    \/ rcvQuit(p)
    \/ rcvResized(p) /\ rcvFrees(p, "recv")
    \/ recvNil(p)

-----------------------------------------------------------------------------
(* XREP and XRESPONDENT: the first word of the header names the pipe. *)

\* The pipe of the header, if the socket still has it.
addressed(c, m) ==
    \/ s.closed /\ Fails(c, m)
    \/ ~s.closed /\ m.hdr \notin s.pipes /\ Discards(c, m)
    \/ ~s.closed /\ m.hdr \in s.pipes /\ Enter(c, m, PipeQ(m.hdr), 0)
peerGone(c) == \E p \in Pipes : call[c].ch = PipeQ(p) /\ PipeClosed(p)

xrepSendMsg(c) ==
    \/ \E m \in Offered(c) : addressed(c, m)
    \/ tryPut(c)
    \/ /\ At(c, "send", "wait")
       /\ puts(c, call[c].ch, Idle) \/ (peerGone(c) /\ gives(c, Refused(c))) \/ onTimer(c)
xrepRecvMsg(c) == recvLoop(c)
xrepSetOption == sets({"ttl", "rexp", "sexp", "best", "sqlen"}) \/ resizeRecv(Announce(s))
xrepAddPipe(p) == addToMap(p)
xrepRemovePipe(p) == detachLast(p)
xrepClose == closes(Shut)
xrepSender(p) == pipeSender(p) \/ leaks(p)
\* The loop over the backtrace: one word per device passed and the request ID, the
\* n-th of which needs n <= ttl.
xrepHops_Late(m) == m.dev <= opt.ttl + 1
xrepHops(m) == m.dev + 1 <= opt.ttl
xrepReceiver(p) ==
    \/ \E i \in Incoming(p) : IF i.m.hdr # "short" /\ xrepHops(i.m)
                              THEN keeps(p, i, [i.m EXCEPT !.hdr = p]) ELSE drops(p, i)
    \/ putIn(p)
    \/ rcvQuit(p)
    \/ rcvResized(p) /\ rcvLets(p, refs, "recv")
    \/ recvNil(p)

xrespondentSendMsg(c) ==
    \/ \E m \in Offered(c) : addressed(c, m)
    \/ tryPut(c)
    \/ /\ At(c, "send", "wait")
       /\ puts(c, call[c].ch, Idle) \/ (peerGone(c) /\ gives(c, Idle)) \/ onTimer(c)
xrespondentRecvMsg(c) == recvLoop(c)
xrespondentSetOption == sets({"ttl", "rexp", "sexp", "best", "sqlen"}) \/ resizeRecv(Announce(s))
xrespondentAddPipe(p) == addToMap(p)
xrespondentRemovePipe(p) == detachLast(p)
xrespondentClose == closes(Shut)
xrespondentSender(p) == pipeSender(p) \/ leaks(p)
xrespondentHops(m) == m.dev + 1 < opt.ttl
xrespondentReceiver(p) ==
    \/ \E i \in Incoming(p) : IF i.m.hdr # "short" /\ xrespondentHops(i.m)
                              THEN keeps(p, i, [i.m EXCEPT !.hdr = p]) ELSE drops(p, i)
    \/ putIn(p)
    \/ rcvQuit(p)
    \/ rcvResized(p) /\ rcvLets(p, refs, "recv")
    \/ recvNil(p)

-----------------------------------------------------------------------------
(* XPUSH: a scheduler hands each message to a pipe that is ready. *)

Wake(s2) == [s2 EXCEPT !.sender = IF @ = "wait" THEN "run" ELSE @]
Signalling == [Idle EXCEPT !.op = "send", !.pc = "signal"]
noPeers(c) == call[c].z # s.noPeerQ /\ gives(c, Refused(c))

\* s.sendQ is read without the lock, for each select anew.
xpushSendMsg(c) ==
    \/ \E m \in Offered(c) :
         LET alone == opt.fnp /\ s.pipes = {}
         IN \/ (s.closed \/ alone) /\ Fails(c, m)
            \/ ~s.closed /\ ~alone /\ Enter(c, m, NilQ, s.noPeerQ)
    \/ /\ At(c, "send", "try") /\ call[c].ch = NilQ
       /\ call' = [call EXCEPT ![c].ch = s.sendQ]
       /\ UNCHANGED <<conf, opt, left, s, buf, cap, refs, pst, snd, rcv, wire, got, drain>>
    \/ /\ At(c, "send", "try") /\ call[c].ch # NilQ
       /\ \/ noPeers(c)
          \/ puts(c, call[c].ch, Signalling)
          \/ call[c].z = s.noPeerQ /\ ~Room(call[c].ch) /\ NotYet(c, s.sendQ)
    \/ /\ At(c, "send", "wait")
       /\ noPeers(c) \/ puts(c, call[c].ch, Signalling) \/ onCloseQ(c) \/ onTimer(c)
    \/ /\ At(c, "send", "signal")
       /\ call' = [call EXCEPT ![c] = Idle]
       /\ s' = Wake(s)
       /\ UNCHANGED <<conf, opt, left, buf, cap, refs, pst, snd, rcv, wire, got, drain>>

\* The socket's scheduler; each message gets a goroutine of its own.
schedules(m, p) ==
    /\ s' = [s EXCEPT !.readyQ = Tail(@)]
    /\ buf' = [buf EXCEPT ![s.sendQ] = Tail(@)]
    /\ snd' = [snd EXCEPT ![p] = [NoGoroutine EXCEPT !.pc = "send", !.m = m]]
xpushScheduler ==
    /\ s.sender = "run"
    /\ LET idle == s.readyQ = <<>> \/ ~Ready(s.sendQ)
       IN \/ s.closed /\ s' = [s EXCEPT !.sender = "done"] /\ UNCHANGED <<buf, snd>>
          \/ ~s.closed /\ idle /\ s' = [s EXCEPT !.sender = "wait"] /\ UNCHANGED <<buf, snd>>
          \/ ~s.closed /\ ~idle /\ schedules(Head(buf[s.sendQ]), Head(s.readyQ))
    /\ UNCHANGED <<conf, opt, left, cap, refs, pst, rcv, call, wire, got, drain>>

\* pipe.send: transmit, then offer the pipe again unless it was removed.
relist(p) == IF s.closed \/ PipeClosed(p) THEN s ELSE Wake([s EXCEPT !.readyQ = Append(@, p)])
xpushSend(p) ==
    \/ transmits(p, "sent")
    \/ frees(p)
    \/ /\ snd[p].pc = "sent"
       /\ s' = relist(p)
       /\ snd' = [snd EXCEPT ![p] = NoGoroutine]
       /\ UNCHANGED <<conf, opt, left, buf, cap, refs, pst, rcv, call, wire, got, drain>>
xpushReceiver(p) == drainReceiver(p)

\* A resize moves what fits to the new queue.  A SendMsg that already waits on the
\* full old queue is let in as the old queue empties; one that has read s.sendQ and
\* does not wait yet is left with the old queue.
Kept(old, n) == SubSeq(old, 1, IF Len(old) < n THEN Len(old) ELSE n)
xpushResize ==
    \E n \in 0 .. Cardinality(Callers) :
    \E parked \in Injection(1 .. n, {c \in Callers : At(c, "send", "wait") /\ call[c].ch = s.sendQ}) :
      LET old  == buf[s.sendQ] \o [i \in 1 .. n |-> call[parked[i]].m]
          new  == SendQ(Fresh)
          kept == Kept(old, cap'[new])
          lost == {old[i] : i \in Len(kept) + 1 .. Len(old)}
      IN /\ resize([s EXCEPT !.sendQ = new], new)
         /\ buf' = [buf EXCEPT ![s.sendQ] = <<>>, ![new] = kept]
         /\ refs' = [k \in DOMAIN refs \ {Key(m) : m \in lost} |-> refs[k]]
         /\ call' = [c \in Callers |-> IF c \in Range(parked) THEN Signalling ELSE call[c]]
         /\ UNCHANGED <<conf, opt, pst, snd, rcv, wire, got, drain>>
xpushSetOption == sets({"sexp", "best", "fnp"}) \/ xpushResize
xpushClose_Quiet == closes(Shut)
xpushClose == closes(Wake(Shut))
xpushAddPipe_Quiet(p) == attach(p, [Joined(p) EXCEPT !.readyQ = Append(@, p)], "off")
xpushAddPipe(p) == \/ attach(p, Wake([Joined(p) EXCEPT !.readyQ = Append(@, p)]), "off")
                   \/ (s.closed /\ refuse(p))
\* The queue without its first p.
Unlisted(q, p) ==
    IF p \notin Range(q) THEN q
    ELSE LET i == CHOOSE i \in DOMAIN q : q[i] = p /\ \A j \in 1 .. i - 1 : q[j] # p
         IN SubSeq(q, 1, i - 1) \o SubSeq(q, i + 1, Len(q))
xpushRemovePipe(p) ==
    LET out == [Parted(p) EXCEPT !.readyQ = Unlisted(@, p)]
    IN detach(p, IF opt.fnp /\ out.pipes = {} THEN [out EXCEPT !.noPeerQ = @ + 1] ELSE out)

-----------------------------------------------------------------------------
(* XPULL: whatever arrives, from any peer. *)

xpullRecvMsg(c) == recvLoop(c)
\* A resize announces the new queue first and then moves the old one's messages to
\* it, outside the lock, while receivers and RecvMsg already use it.
xpullSetOption ==
    \/ sets({"rexp", "discard"})
    \/ /\ resize(Announce([s EXCEPT !.recvQ = RecvQ(Fresh)]), RecvQ(Fresh))
       /\ drain' = IF opt.discard THEN NilQ ELSE s.recvQ
       /\ UNCHANGED <<conf, opt, buf, refs, pst, snd, rcv, call, wire, got>>
    \/ /\ drain # NilQ /\ Ready(drain)
       /\ LET m == Head(buf[drain])
          IN IF Room(s.recvQ)
             THEN /\ buf' = [buf EXCEPT ![drain] = Tail(@), ![s.recvQ] = Append(@, m)]
                  /\ UNCHANGED refs
             ELSE /\ buf' = [buf EXCEPT ![drain] = Tail(@)]
                  /\ refs' = Free(refs, m, 1)
       /\ UNCHANGED <<conf, opt, left, s, cap, pst, snd, rcv, call, wire, got, drain>>
    \/ /\ drain # NilQ /\ ~Ready(drain)
       /\ drain' = NilQ
       /\ UNCHANGED <<conf, opt, left, s, buf, cap, refs, pst, snd, rcv, call, wire, got>>
xpullAddPipe(p) == attach(p, s, "off") \/ (s.closed /\ refuse(p))
xpullRemovePipe(p) == detach(p, s)
xpullClose == closes(Shut)
\* A resize makes the receiver try again with the message it holds.
xpullReceiver(p) ==
    \/ \E i \in Incoming(p) : keeps(p, i, i.m)
    \/ putIn(p)
    \/ rcvQuit(p)
    \/ /\ rcvResized(p)
       /\ rcv' = [rcv EXCEPT ![p].ch = s.recvQ, ![p].z = s.sizeQ]
       /\ UNCHANGED <<conf, opt, left, s, buf, cap, refs, pst, snd, call, wire, got, drain>>
    \/ recvNil(p)

-----------------------------------------------------------------------------
(* The forwarder of a device between the socket and itself. *)

SelfPeered == {"xbus", "xstar", "xpair", "xpair1"}
Device(c) ==
    /\ conf.role[c] = "device" /\ call[c].pc = "off"
    /\ call' = [call EXCEPT ![c].pc =
                   IF conf.proto \in SelfPeered /\ ~conf.cooked THEN "idle" ELSE "exit"]
    /\ UNCHANGED <<conf, opt, left, s, buf, cap, refs, pst, snd, rcv, wire, got, drain>>

-----------------------------------------------------------------------------
(* The protocols together. *)

Is(name) == conf.proto = name

Init ==
    /\ conf \in Scenarios
    /\ opt = conf.opt
    /\ left = [sends |-> conf.sends, arrivals |-> conf.arrivals, sets |-> conf.sets]
    /\ s = [closed |-> FALSE, closeQ |-> FALSE, recvQ |-> RecvQ(0), sendQ |-> SendQ(0),
            sizeQ |-> 0, noPeerQ |-> 0, pipes |-> {}, readyQ |-> <<>>,
            sender |-> IF Is("xpush") THEN "run" ELSE "off"]
    /\ buf = [ch \in Chans |-> <<>>]
    /\ cap = [ch \in Chans |-> IF ch = RecvQ(0) THEN conf.rqlen
                               ELSE IF ch = SendQ(0) THEN conf.opt.sqlen ELSE 0]
    /\ refs = [k \in {} |-> 0]
    /\ pst = [p \in Pipes |-> "new"]
    /\ snd = [p \in Pipes |-> NoGoroutine]
    /\ rcv = [p \in Pipes |-> NoGoroutine]
    /\ call = [c \in Callers |-> IF conf.role[c] = "device" THEN [Idle EXCEPT !.pc = "off"]
                                                            ELSE Idle]
    /\ wire = [p \in Pipes |-> <<>>]
    /\ got = <<>>
    /\ drain = NilQ

SendMsg(c) ==
    \/ Is("xpub") /\ xpubSendMsg(c)
    \/ Is("xsurveyor") /\ xsurveyorSendMsg(c)
    \/ Is("xbus") /\ xbusSendMsg(c)
    \/ Is("xstar") /\ xstarSendMsg(c)
    \/ Is("xpair") /\ xpairSendMsg(c)
    \/ Is("xpair1") /\ xpair1SendMsg(c)
    \/ Is("xreq") /\ xreqSendMsg(c)
    \/ Is("xrep") /\ xrepSendMsg(c)
    \/ Is("xrespondent") /\ xrespondentSendMsg(c)
    \/ Is("xpush") /\ xpushSendMsg(c)
RecvMsg(c) ==
    \/ Is("xsub") /\ xsubRecvMsg(c)
    \/ Is("xsurveyor") /\ xsurveyorRecvMsg(c)
    \/ Is("xbus") /\ xbusRecvMsg(c)
    \/ Is("xstar") /\ xstarRecvMsg(c)
    \/ Is("xpair") /\ xpairRecvMsg(c)
    \/ Is("xpair1") /\ xpair1RecvMsg(c)
    \/ Is("xreq") /\ xreqRecvMsg(c)
    \/ Is("xrep") /\ xrepRecvMsg(c)
    \/ Is("xrespondent") /\ xrespondentRecvMsg(c)
    \/ Is("xpull") /\ xpullRecvMsg(c)
SetOption ==
    \/ Is("xpub") /\ xpubSetOption
    \/ Is("xsub") /\ xsubSetOption
    \/ Is("xsurveyor") /\ xsurveyorSetOption
    \/ Is("xbus") /\ xbusSetOption
    \/ Is("xstar") /\ xstarSetOption
    \/ Is("xpair") /\ xpairSetOption
    \/ Is("xpair1") /\ xpair1SetOption
    \/ Is("xreq") /\ xreqSetOption
    \/ Is("xrep") /\ xrepSetOption
    \/ Is("xrespondent") /\ xrespondentSetOption
    \/ Is("xpush") /\ xpushSetOption
    \/ Is("xpull") /\ xpullSetOption
AddPipe(p) ==
    \/ Is("xpub") /\ xpubAddPipe(p)
    \/ Is("xsub") /\ xsubAddPipe(p)
    \/ Is("xsurveyor") /\ xsurveyorAddPipe(p)
    \/ Is("xbus") /\ xbusAddPipe(p)
    \/ Is("xstar") /\ xstarAddPipe(p)
    \/ Is("xpair") /\ xpairAddPipe(p)
    \/ Is("xpair1") /\ xpair1AddPipe(p)
    \/ Is("xreq") /\ xreqAddPipe(p)
    \/ Is("xrep") /\ xrepAddPipe(p)
    \/ Is("xrespondent") /\ xrespondentAddPipe(p)
    \/ Is("xpush") /\ xpushAddPipe(p)
    \/ Is("xpull") /\ xpullAddPipe(p)
RemovePipe(p) ==
    \/ Is("xpub") /\ xpubRemovePipe(p)
    \/ Is("xsub") /\ xsubRemovePipe(p)
    \/ Is("xsurveyor") /\ xsurveyorRemovePipe(p)
    \/ Is("xbus") /\ xbusRemovePipe(p)
    \/ Is("xstar") /\ xstarRemovePipe(p)
    \/ Is("xpair") /\ xpairRemovePipe(p)
    \/ Is("xpair1") /\ xpair1RemovePipe(p)
    \/ Is("xreq") /\ xreqRemovePipe(p)
    \/ Is("xrep") /\ xrepRemovePipe(p)
    \/ Is("xrespondent") /\ xrespondentRemovePipe(p)
    \/ Is("xpush") /\ xpushRemovePipe(p)
    \/ Is("xpull") /\ xpullRemovePipe(p)
Close ==
    \/ Is("xpub") /\ xpubClose
    \/ Is("xsub") /\ xsubClose
    \/ Is("xsurveyor") /\ xsurveyorClose
    \/ Is("xbus") /\ xbusClose
    \/ Is("xstar") /\ xstarClose
    \/ Is("xpair") /\ xpairClose
    \/ Is("xpair1") /\ xpair1Close
    \/ Is("xreq") /\ xreqClose
    \/ Is("xrep") /\ xrepClose
    \/ Is("xrespondent") /\ xrespondentClose
    \/ Is("xpush") /\ xpushClose
    \/ Is("xpull") /\ xpullClose
Sender(p) ==
    \/ Is("xpub") /\ xpubSender(p)
    \/ Is("xsurveyor") /\ xsurveyorSender(p)
    \/ Is("xbus") /\ xbusSender(p)
    \/ Is("xstar") /\ xstarSender(p)
    \/ Is("xpair") /\ xpairSender(p)
    \/ Is("xpair1") /\ xpair1Sender(p)
    \/ Is("xreq") /\ xreqSender(p)
    \/ Is("xrep") /\ xrepSender(p)
    \/ Is("xrespondent") /\ xrespondentSender(p)
    \/ Is("xpush") /\ xpushSend(p)
Receiver(p) ==
    \/ Is("xpub") /\ xpubReceiver(p)
    \/ Is("xsub") /\ xsubReceiver(p)
    \/ Is("xsurveyor") /\ xsurveyorReceiver(p)
    \/ Is("xbus") /\ xbusReceiver(p)
    \/ Is("xstar") /\ xstarReceiver(p)
    \/ Is("xpair") /\ xpairReceiver(p)
    \/ Is("xpair1") /\ xpair1Receiver(p)
    \/ Is("xreq") /\ xreqReceiver(p)
    \/ Is("xrep") /\ xrepReceiver(p)
    \/ Is("xrespondent") /\ xrespondentReceiver(p)
    \/ Is("xpush") /\ xpushReceiver(p)
    \/ Is("xpull") /\ xpullReceiver(p)

Next ==
    \/ \E c \in Callers : SendMsg(c) \/ RecvMsg(c) \/ Device(c)
    \/ \E p \in Pipes : \/ AddPipe(p) \/ RemovePipe(p) \/ ClosePipe(p)
                        \/ Sender(p) \/ Receiver(p)
    \/ Is("xpush") /\ xpushScheduler
    \/ SetOption
    \/ Close

Spec == Init /\ [][Next]_vars

\* Goroutines and calls in progress go on, an armed timer fires, and the core takes
\* down every pipe of a closed socket.  Nothing is asked of the peers: that they send,
\* or read what was sent to them, is not assumed.
InCall(c) == call[c].op # "none"
Fairness ==
    /\ \A c \in Callers : WF_vars(InCall(c) /\ (SendMsg(c) \/ RecvMsg(c)))
    /\ \A p \in Pipes : /\ WF_vars((snd[p].pc # "send" \/ pst[p] # "open") /\ Sender(p))
                        /\ WF_vars((rcv[p].pc # "recv" \/ pst[p] # "open") /\ Receiver(p))
                        /\ WF_vars(RemovePipe(p) \/ CloseAll(p))
    /\ WF_vars(Is("xpush") /\ xpushScheduler)
    /\ WF_vars(drain # NilQ /\ SetOption)
    /\ WF_vars(s.closed /\ Close)
FairSpec == Spec /\ Fairness

-----------------------------------------------------------------------------
(* Properties. *)

Held == {snd[p].m : p \in Pipes} \cup {rcv[p].m : p \in Pipes} \cup {call[c].m : c \in Callers}
Queued == UNION {Range(buf[ch]) : ch \in Chans}
Live == (Held \cup Queued) \ {NoMsg}
Places(k) ==
      Cardinality({x \in UNION {{<<ch, i>> : i \in DOMAIN buf[ch]} : ch \in Chans} :
                     Key(buf[x[1]][x[2]]) = k})
    + Cardinality({p \in Pipes : snd[p].m # NoMsg /\ Key(snd[p].m) = k})
    + Cardinality({p \in Pipes : rcv[p].m # NoMsg /\ Key(rcv[p].m) = k})
    + Cardinality({c \in Callers : call[c].m # NoMsg /\ Key(call[c].m) = k})
\* What has been, is being or waits to be transmitted on pipe p alone.
Track(p) == Range(wire[p]) \cup Range(buf[PipeQ(p)]) \cup ({snd[p].m} \ {NoMsg})

\* Nobody holds a message that went back to the pool (Clone, Free and the queues of
\* message.go and the fan-out in SendMsg), and apart from the protocols that drop a
\* message without Free every reference has a holder.
RefsExact ==
    /\ \A m \in Live : Count(refs, Key(m)) >= Places(Key(m))
    /\ conf.proto \notin {"xreq", "xrep", "xrespondent"} =>
         \A k \in DOMAIN refs : refs[k] = Places(k)

\* On each pipe, and in what RecvMsg returns of each peer, messages keep the order in
\* which they were sent and none comes twice.  (Not so for XPULL after a resize, whose
\* SetOption moves old messages behind newer ones.)
Ordered(q) == \A i, j \in DOMAIN q :
                i < j /\ q[i].id[1] = q[j].id[1] => q[i].id[2] > q[j].id[2]
InOrder ==
    ~conf.loop => /\ \A p \in Pipes : Ordered(wire[p])
                  /\ (conf.proto = "xpull" /\ s.sizeQ > 0) \/ Ordered(got)

\* A message for one peer (XPAIR, XPAIR1, XREQ, XPUSH) is in one place: it never goes to
\* two peers, nor again to the queue once it was transmitted.
Sent(k) == Cardinality({x \in UNION {{<<p, i>> : i \in DOMAIN wire[p]} : p \in Pipes} :
                          Key(wire[x[1]][x[2]]) = k})
OnePlace ==
    conf.proto \in {"xpair", "xpair1", "xreq", "xpush"} =>
      \A m \in Live \cup UNION {Track(p) : p \in Pipes} : Places(Key(m)) + Sent(Key(m)) <= 1

\* BUS and STAR never send a message back to the peer it came from, and a reply of XREP
\* or XRESPONDENT goes to no other pipe than the one its header names.  (Not so for a
\* device on STAR: its SendMsg is to every peer.)
Forwarding == \/ conf.proto = "xbus"
              \/ conf.proto = "xstar" /\ \A c \in Callers : conf.role[c] # "device"
Routed ==
    \A p \in Pipes : \A m \in Track(p) :
      /\ Forwarding /\ ~conf.loop => m.id[1] # p
      /\ conf.proto \in {"xrep", "xrespondent"} => m.hdr = p

\* OptionTTL: no message that passed more devices than the TTL reaches the application,
\* in a loop of the topology too.
HopLimit ==
    conf.proto \in {"xpair1", "xstar", "xrep", "xrespondent"} =>
      \A m \in Range(got) \cup ({rcv[p].m : p \in Pipes} \ {NoMsg}) :
        m.dev <= (IF conf.sets = 0 THEN conf.opt.ttl ELSE MaxTTL)

\* XPUSH: the scheduler forgets neither a pipe nor a message.  A pipe is in the ready
\* queue exactly while it is attached and has nothing to send, and only once; and while
\* a message and a ready pipe are there the scheduler runs, or a SendMsg is about to
\* wake it.
NoLostWakeup ==
    conf.proto = "xpush" /\ ~s.closed =>
      /\ \A i, j \in DOMAIN s.readyQ : s.readyQ[i] = s.readyQ[j] => i = j
      /\ \A p \in Pipes : (\E i \in DOMAIN s.readyQ : s.readyQ[i] = p)
                            <=> (p \in s.pipes /\ snd[p].pc = "off")
      /\ s.readyQ # <<>> /\ Ready(s.sendQ) =>
           s.sender = "run" \/ \E c \in Callers : At(c, "send", "signal")

\* After Close every call returns and every goroutine of every pipe ends, though no peer
\* reads or sends anything.
CloseReleases ==
    /\ \A c \in Callers : s.closed /\ InCall(c) ~> ~InCall(c)
    /\ \A p \in Pipes : s.closed ~> /\ snd[p].pc \in {"off", "done"}
                                    /\ rcv[p].pc \in {"off", "done"}
    /\ s.closed ~> s.sender \in {"off", "done"}

\* A RecvMsg that waits while the socket's queue holds a message returns.  (XSTAR: unless
\* the queue was resized.)
RecvProgress ==
    \A c \in Callers :
      At(c, "recv", "wait") /\ Ready(s.recvQ)
        ~> ~InCall(c) \/ ~Ready(s.recvQ) \/ (Is("xstar") /\ s.recvQ # RecvQ(0))

-----------------------------------------------------------------------------
(* What the proofs need besides. *)

OptionValues == [best : BOOLEAN, sexp : BOOLEAN, rexp : BOOLEAN, fnp : BOOLEAN, discard : BOOLEAN,
            ttl : 1 .. MaxTTL, sqlen : Nat]
Hdrs == Pipes \cup {"none", "hop", "ok", "short"}
Msg == [id : (Pipes \cup Callers) \X Nat, cp : Seq(Pipes \cup {"u"}), dev : Nat, hdr : Hdrs,
        hops : Nat]
RecvQs == {RecvQ(n) : n \in 0 .. MaxSets}
SendQs == {SendQ(n) : n \in 0 .. MaxSets} \cup {NilQ}

\* The TTL is one the hop count can reach, and the scenarios are within the bounds.
ASSUME RawAssumption ==
    /\ Cardinality(Callers) \in Nat
    /\ MaxSets \in Nat /\ MaxTTL \in Nat /\ HopMax \in Nat /\ MaxTTL <= HopMax
    /\ NoMsg \notin Msg \cup Pipes /\ Pipes \cap Callers = {}
    /\ \A r \in Scenarios :
         /\ r.role \in [Callers -> {"send", "recv", "device", "off"}]
         /\ r.opt \in OptionValues /\ r.qlens \in SUBSET Nat /\ r.hdrs \in SUBSET Hdrs
         /\ r.kinds \in SUBSET [hdr : Hdrs, dev : Nat]
         /\ r.cooked \in BOOLEAN /\ r.loop \in BOOLEAN
         /\ r.sends \in Nat /\ r.arrivals \in Nat /\ r.sets \in 0 .. MaxSets

Goroutine == [pc : {"off", "cap", "sel", "send", "sent", "recv", "look", "put", "done"},
              m : Msg \cup {NoMsg}, ch : Chans, z : Nat]
RawTypeOK ==
    /\ opt \in OptionValues
    /\ left \in [sends : Nat, arrivals : Nat, sets : 0 .. MaxSets]
    /\ s \in [closed : BOOLEAN, closeQ : BOOLEAN, recvQ : RecvQs, sendQ : SendQs, sizeQ : Nat,
              noPeerQ : Nat, pipes : SUBSET Pipes, readyQ : Seq(Pipes),
              sender : {"off", "run", "wait", "done"}]
    /\ buf \in [Chans -> Seq(Msg)]
    /\ snd \in [Pipes -> Goroutine] /\ rcv \in [Pipes -> Goroutine]
    /\ call \in [Callers -> [op : {"none", "send", "recv"},
                             pc : {"off", "idle", "try", "wait", "signal", "fwd", "exit"},
                             m : Msg \cup {NoMsg}, ch : Chans, z : Nat,
                             tq : {"nil", "timer", "closed"}]]
    /\ wire \in [Pipes -> Seq(Msg)] /\ got \in Seq(Msg) /\ drain \in RecvQs \cup {NilQ}

\* The limit of HopLimit.  It is not below the TTL in force.
HopLimited == {"xpair1", "xstar", "xrep", "xrespondent"}
Limit == IF conf.sets = 0 THEN conf.opt.ttl ELSE MaxTTL
TTLInForce == opt.ttl <= Limit /\ (conf.sets = 0 => left.sets = 0)

\* The hop count in the header is not below the number of devices passed; what this
\* socket received has been counted once more.
Counted(m) == conf.proto \in {"xpair1", "xstar"} =>
                m.hops >= m.dev + (IF m.id[1] \in Callers /\ m.dev = 0 THEN 0 ELSE 1)
\* What holds of a message a receiver has let in, and of one on its way out by pipe p.
Inbound(m) == /\ Counted(m)
              /\ conf.proto \in HopLimited => m.dev <= Limit
              /\ conf.proto = "xbus" /\ ~conf.loop /\ m.id[1] \in Pipes => m.hdr = m.id[1]
Outbound(p, m) == /\ Counted(m)
                  /\ Forwarding /\ ~conf.loop => m.id[1] # p
                  /\ conf.proto \in {"xrep", "xrespondent"} => m.hdr = p
\* ... and of one in, or on its way into, channel ch.
Fits(ch, m) == /\ Counted(m)
               /\ ch \in RecvQs => Inbound(m)
               /\ \A p \in Pipes : ch = PipeQ(p) => Outbound(p, m)

Calling(k, r) ==
    /\ k.op = "recv" => k.ch \in RecvQs
    /\ k.op = "send" /\ k.pc \in {"try", "wait"} => k.m # NoMsg /\ Fits(k.ch, k.m)
    /\ k.pc = "fwd" => k.m # NoMsg /\ Inbound(k.m) /\ r = "device"
    /\ r = "device" /\ conf.cooked => k.pc \in {"off", "exit"} /\ k.op = "none"
Receiving(g) == /\ g.m # NoMsg => Inbound(g.m)
                /\ g.pc \in {"look", "put"} => g.m # NoMsg
                /\ g.pc = "put" => g.ch \in RecvQs
Transmitting(p, g) == /\ g.m # NoMsg => Outbound(p, g.m)
                      /\ g.pc = "send" => g.m # NoMsg
Messages ==
    /\ \A ch \in Chans : \A i \in DOMAIN buf[ch] : Fits(ch, buf[ch][i])
    /\ \A p \in Pipes : \A i \in DOMAIN wire[p] : Outbound(p, wire[p][i])
    /\ \A p \in Pipes : Receiving(rcv[p]) /\ Transmitting(p, snd[p])
    /\ \A c \in Callers : Calling(call[c], conf.role[c])
    /\ \A i \in DOMAIN got : conf.proto \in HopLimited => got[i].dev <= Limit

\* XPUSH: the socket's pipes are those not yet removed, and its scheduler ends with it.
Pushing ==
    conf.proto = "xpush" =>
      /\ \A p \in Pipes : p \in s.pipes <=> pst[p] \in {"open", "closed"}
      /\ s.sender \in {"run", "wait", "done"} /\ (s.sender = "done" => s.closed)

RawInv == conf \in Scenarios /\ RawTypeOK /\ TTLInForce /\ Messages /\ Pushing /\ NoLostWakeup
=============================================================================
