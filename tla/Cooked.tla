------------------------------- MODULE Cooked -------------------------------
(***************************************************************************)
(* The cooked protocols with contexts: REP, RESPONDENT, SURVEYOR and SUB   *)
(* (REQ has a module of its own).  One socket, its contexts, its pipes     *)
(* with their goroutines, and application threads that call RecvMsg,       *)
(* SendMsg, SetOption, OpenContext and Close.  conf.proto says which       *)
(* protocol a behaviour is of.                                             *)
(*                                                                         *)
(* A step ends where a goroutine waits, unlocks the socket or evaluates a  *)
(* select.  Sections under the lock are one step, except the two loops of  *)
(* SUB that use a channel while they hold it: lock says who does.  Calls   *)
(* that only return an error are left out.  A deadline is set or not: the  *)
(* timer of one that is may fire at any time.                              *)
(***************************************************************************)
EXTENDS Naturals, Sequences, FiniteSets, SequencesExt

CONSTANTS Pipes,      \* pipe objects the core may hand to the socket
          Threads,    \* application threads
          Ctxs,       \* contexts
          Master,     \* the socket's own context
          Scenarios,  \* the configurations a behaviour may start in
          NoMsg,      \* no message
          None        \* no pipe, no thread

ASSUME CtxAssumption == Master \in Ctxs

VARIABLES conf,   \* the scenario
          left,   \* arrivals, sends and option changes still to come
          s,      \* the socket structure
          lock,   \* who holds the socket's lock over several steps
          ctx,    \* the contexts
          q,      \* every receive queue made so far
          survs,  \* SURVEYOR: every survey made so far; its id is its index
          pst,    \* pipes: new, open, closed (transport), half (RemovePipe has closed
                  \* closeQ and goes on), gone
          sendQ,  \* send queue of each pipe
          snd,    \* sender goroutine of each pipe
          rcv,    \* receiver goroutine of each pipe
          thr,    \* call in progress of each application thread
          last,   \* what RecvMsg last returned to each thread (not for SURVEYOR)
          wire    \* what was transmitted on each pipe

vars == <<conf, left, s, lock, ctx, q, survs, pst, sendQ, snd, rcv, thr, last, wire>>

Is(name) == conf.proto = name
Free == lock = None

-----------------------------------------------------------------------------
(* Contexts, queues and calls. *)

\* A queue has a sizeQ of its own: it is closed (sized) when the queue is replaced.
NewQ(n) == [cap |-> n, buf |-> <<>>, sized |-> FALSE, closed |-> FALSE]
Room(i) == Len(q[i].buf) < q[i].cap
\* i is replaced by a new queue, which is the last one.
Resized(i, n) == Append([q EXCEPT ![i].sized = TRUE], NewQ(n))

NoCtx == [st |-> "none", best |-> FALSE, sexp |-> FALSE, rexp |-> FALSE, wait |-> FALSE,
          bt |-> NoMsg, rp |-> None, recvQ |-> 1, qlen |-> 0, subs |-> {}, surv |-> 0]
NoCall == [op |-> "none", pc |-> "idle", c |-> Master, q |-> 1, m |-> NoMsg, tq |-> "nil",
           to |-> {}, want |-> {}]
NoGoroutine == [pc |-> "off", m |-> NoMsg, q |-> 1, todo |-> {}]

\* c.closed and c.closeQ.
Closed(c) == ctx[c].st \in {"shut", "closed"}
CloseQ(c) == ctx[c].st = "closed"
PipeClosed(p) == pst[p] \in {"half", "gone"}

Timer(deadline) == IF deadline THEN "timer" ELSE "nil"
At(t, op, pc) == thr[t].op = op /\ thr[t].pc = pc
\* Thread t may start a call of this kind on context c.
Starts(t, op, c) ==
    thr[t].op = "none" /\ op \in conf.use[t].ops /\ c \in conf.use[t].ctxs /\ ctx[c].st # "none"

Goes(t, call) == /\ thr' = [thr EXCEPT ![t] = call]
                 /\ UNCHANGED <<conf, left, s, lock, ctx, q, survs, pst, sendQ, snd, rcv, last, wire>>
Waits(t) == Goes(t, [thr[t] EXCEPT !.pc = "wait"])
Returns(t) == Goes(t, NoCall)

-----------------------------------------------------------------------------
(* Taking from a receive queue. *)

\* Where the receiver of p goes on once its message is in a queue.
Delivered(p) == [rcv[p] EXCEPT !.pc = IF Is("sub") THEN "each" ELSE "recv",
                               !.m = IF Is("sub") THEN @ ELSE NoMsg]

\* The call of t has message m.  REP and RESPONDENT go on to lock the socket again.
Got(t, m) ==
    IF Is("rep") \/ Is("respondent")
    THEN thr' = [thr EXCEPT ![t].pc = "store", ![t].m = m] /\ UNCHANGED last
    ELSE /\ thr' = [thr EXCEPT ![t] = NoCall]
         /\ last' = IF Is("sub") THEN [last EXCEPT ![t] = m] ELSE last

\* From the buffer, or with no buffer from a receiver that is blocked on the queue.
takes(t) ==
    LET i == thr[t].q
    IN \/ /\ q[i].buf # <<>>
          /\ Got(t, Head(q[i].buf))
          /\ q' = [q EXCEPT ![i].buf = Tail(@)]
          /\ UNCHANGED <<conf, left, s, lock, ctx, survs, pst, sendQ, snd, rcv, wire>>
       \/ /\ q[i].cap = 0
          /\ \E p \in Pipes : /\ rcv[p].pc = "put" /\ rcv[p].q = i
                              /\ Got(t, rcv[p].m)
                              /\ rcv' = [rcv EXCEPT ![p] = Delivered(p)]
          /\ UNCHANGED <<conf, left, s, lock, ctx, q, survs, pst, sendQ, snd, wire>>
Nothing(t) == /\ q[thr[t].q].buf = <<>>
              /\ \A p \in Pipes : ~(rcv[p].pc = "put" /\ rcv[p].q = thr[t].q /\ q[thr[t].q].cap = 0)
tryTake(t) == At(t, "recv", "try") /\ (takes(t) \/ (Nothing(t) /\ ~q[thr[t].q].closed /\ Waits(t)))

-----------------------------------------------------------------------------
(* Putting into a pipe's send queue. *)

\* With no buffer only when the sender goroutine is there to take it.
SendRoom(p) == IF sendQ[p].cap = 0 THEN snd[p].pc = "sel"
                                   ELSE Len(sendQ[p].buf) < sendQ[p].cap
puts(t, p, call) ==
    /\ SendRoom(p)
    /\ thr' = [thr EXCEPT ![t] = call]
    /\ IF sendQ[p].cap = 0
       THEN snd' = [snd EXCEPT ![p].pc = "send", ![p].m = thr[t].m] /\ UNCHANGED sendQ
       ELSE sendQ' = [sendQ EXCEPT ![p].buf = Append(@, thr[t].m)] /\ UNCHANGED snd
    /\ UNCHANGED <<conf, left, s, lock, ctx, q, survs, pst, rcv, last, wire>>

-----------------------------------------------------------------------------
(* Pipes. *)

\* pipe.close, called by a goroutine that ends.
Closing(p) == pst' = [pst EXCEPT ![p] = IF @ = "open" THEN "closed" ELSE @]

attach(p, sender) ==
    /\ pst[p] = "new" /\ p \in conf.pipes /\ Free /\ ~s.closed
    /\ pst' = [pst EXCEPT ![p] = "open"]
    /\ sendQ' = [sendQ EXCEPT ![p].cap = s.wqlen]
    /\ snd' = [snd EXCEPT ![p].pc = sender]
    /\ rcv' = [rcv EXCEPT ![p].pc = "recv"]
    /\ UNCHANGED <<conf, left, s, lock, ctx, q, survs, thr, last, wire>>
moves(p, from, to) ==
    /\ pst[p] = from
    /\ pst' = [pst EXCEPT ![p] = to]
    /\ UNCHANGED <<conf, left, s, lock, ctx, q, survs, sendQ, snd, rcv, thr, last, wire>>

\* The sender goroutine: from the queue to the transport, until the pipe is closed.
sender(p) ==
    \/ /\ snd[p].pc = "sel" /\ sendQ[p].buf # <<>>
       /\ snd' = [snd EXCEPT ![p].pc = "send", ![p].m = Head(sendQ[p].buf)]
       /\ sendQ' = [sendQ EXCEPT ![p].buf = Tail(@)]
       /\ UNCHANGED <<conf, left, s, lock, ctx, q, survs, pst, rcv, thr, last, wire>>
    \/ /\ snd[p].pc = "sel" /\ PipeClosed(p)
       /\ snd' = [snd EXCEPT ![p].pc = "done"]
       /\ UNCHANGED <<conf, left, s, lock, ctx, q, survs, pst, sendQ, rcv, thr, last, wire>>
    \/ /\ snd[p].pc = "send" /\ pst[p] = "open"
       /\ wire' = [wire EXCEPT ![p] = Append(@, snd[p].m)]
       /\ snd' = [snd EXCEPT ![p].pc = "sel", ![p].m = NoMsg]
       /\ UNCHANGED <<conf, left, s, lock, ctx, q, survs, pst, sendQ, rcv, thr, last>>
    \/ /\ snd[p].pc = "send" /\ pst[p] # "open"
       /\ snd' = [snd EXCEPT ![p].pc = "done", ![p].m = NoMsg]
       /\ UNCHANGED <<conf, left, s, lock, ctx, q, survs, pst, sendQ, rcv, thr, last, wire>>

\* RecvMsg of the transport pipe hands over message m, or nil once it is closed.
Arrives(p, k) ==
    /\ rcv[p].pc = "recv" /\ pst[p] = "open" /\ left.arrivals > 0
    /\ left' = [left EXCEPT !.arrivals = @ - 1]
Incoming(p, k) == [id |-> <<p, left.arrivals>>, hdr |-> IF Is("surveyor") THEN k.hdr
                   ELSE <<p, left.arrivals>>, dev |-> k.dev, body |-> k.body]
recvNil(p) ==
    /\ rcv[p].pc = "recv" /\ pst[p] # "open"
    /\ rcv' = [rcv EXCEPT ![p].pc = "done"]
    /\ UNCHANGED <<conf, left, s, lock, ctx, q, survs, pst, sendQ, snd, thr, last, wire>>

-----------------------------------------------------------------------------
(* What the handlers of several protocols share. *)

opens(c, new) ==
    /\ ctx[c].st = "none" /\ c \in conf.opens /\ Free /\ ~s.closed
    /\ ctx' = [ctx EXCEPT ![c] = new]
    /\ UNCHANGED <<conf, left, s, lock, survs, pst, sendQ, snd, rcv, thr, last, wire>>
\* Some boolean option among fs changes, on context c.
flips(c, fs) ==
    /\ ctx[c].st # "none" /\ left.sets > 0 /\ Free
    /\ \E f \in fs \cap conf.fields : ctx' = [ctx EXCEPT ![c][f] = ~@]
    /\ left' = [left EXCEPT !.sets = @ - 1]
    /\ UNCHANGED <<conf, s, lock, q, survs, pst, sendQ, snd, rcv, thr, last, wire>>
\* The socket's WriteQLen or TTL changes.
sizes(f, vals) ==
    /\ left.sets > 0 /\ Free /\ f \in conf.fields
    /\ \E v \in vals : s' = [s EXCEPT ![f] = v]
    /\ left' = [left EXCEPT !.sets = @ - 1]
    /\ UNCHANGED <<conf, lock, ctx, q, survs, pst, sendQ, snd, rcv, thr, last, wire>>

\* Close of REP and SUB: list the contexts under the lock, close them one by one.
closeList ==
    /\ ~s.closed /\ Free
    /\ s' = [s EXCEPT !.closed = TRUE, !.closing = {c \in Ctxs : ctx[c].st = "open"}]
    /\ UNCHANGED <<conf, left, lock, ctx, q, survs, pst, sendQ, snd, rcv, thr, last, wire>>
\* Context c is no longer the business of Close.
Listed(c) == s' = [s EXCEPT !.closing = @ \ {c}]

-----------------------------------------------------------------------------
(* Replies: REP and RESPONDENT. *)

\* The reply of t, to what it received last, takes over the context's backtrace.
Reply(t, c) == [id |-> last[t].id, hdr |-> ctx[c].bt, dev |-> 0, body |-> <<>>]
replyTimer(c) == IF ctx[c].best THEN "closed" ELSE Timer(ctx[c].sexp)
beginReply_KeepPipe(t) ==
    \E c \in Ctxs :
      /\ Starts(t, "send", c) /\ Free /\ last[t] # NoMsg
      /\ ~s.closed /\ ~Closed(c) /\ ctx[c].bt # NoMsg
      /\ thr' = [thr EXCEPT ![t] = [NoCall EXCEPT !.op = "send", !.pc = "try", !.c = c,
                                      !.m = Reply(t, c), !.to = {ctx[c].rp}, !.tq = replyTimer(c)]]
      /\ UNCHANGED <<conf, left, s, lock, ctx, q, survs, pst, sendQ, snd, rcv, last, wire>>
beginReply(t) ==
    \E c \in Ctxs :
      /\ Starts(t, "send", c) /\ Free /\ last[t] # NoMsg
      /\ ~s.closed /\ ~Closed(c) /\ ctx[c].bt # NoMsg
      /\ thr' = [thr EXCEPT ![t] = [NoCall EXCEPT !.op = "send", !.pc = "try", !.c = c,
                                      !.m = Reply(t, c), !.to = {ctx[c].rp}, !.tq = replyTimer(c)]]
      /\ ctx' = [ctx EXCEPT ![c].bt = NoMsg, ![c].rp = None]
      /\ UNCHANGED <<conf, left, s, lock, q, survs, pst, sendQ, snd, rcv, last, wire>>
\* Both selects: the pipe's queue; then also the closing of the context or the pipe, and time.
putReply(t) ==
    \E p \in thr[t].to :
      \/ At(t, "send", "try") /\ (puts(t, p, NoCall) \/ (~SendRoom(p) /\ Waits(t)))
      \/ At(t, "send", "wait") /\ (puts(t, p, NoCall) \/
           ((CloseQ(thr[t].c) \/ PipeClosed(p) \/ thr[t].tq # "nil") /\ Returns(t)))

\* What RecvMsg keeps of the message for the reply.
Keeps(t) == [ctx[thr[t].c] EXCEPT !.bt = thr[t].m.hdr, !.rp = thr[t].m.id[1], !.wait = FALSE]
store_Master(t) ==
    /\ At(t, "recv", "store") /\ Free
    /\ ctx' = [ctx EXCEPT ![thr[t].c].wait = FALSE, ![Master].bt = thr[t].m.hdr,
                          ![Master].rp = thr[t].m.id[1]]
    /\ thr' = [thr EXCEPT ![t] = NoCall]
    /\ last' = [last EXCEPT ![t] = thr[t].m]
    /\ UNCHANGED <<conf, left, s, lock, q, survs, pst, sendQ, snd, rcv, wire>>
store(t) ==
    /\ At(t, "recv", "store") /\ Free
    /\ ctx' = [ctx EXCEPT ![thr[t].c] = Keeps(t)]
    /\ thr' = [thr EXCEPT ![t] = NoCall]
    /\ last' = [last EXCEPT ![t] = thr[t].m]
    /\ UNCHANGED <<conf, left, s, lock, q, survs, pst, sendQ, snd, rcv, wire>>

\* One RecvMsg at a time on a context (recvWait).
repBeginRecv(t) ==
    \E c \in Ctxs :
      /\ Starts(t, "recv", c) /\ Free /\ ~Closed(c) /\ ~ctx[c].wait
      /\ ctx' = [ctx EXCEPT ![c].wait = TRUE]
      /\ thr' = [thr EXCEPT ![t] = [NoCall EXCEPT !.op = "recv", !.pc = "try", !.c = c,
                                      !.tq = Timer(ctx[c].rexp)]]
      /\ UNCHANGED <<conf, left, s, lock, q, survs, pst, sendQ, snd, rcv, last, wire>>
repRecvMsg(t) ==
    \/ repBeginRecv(t)
    \/ tryTake(t)
    \/ /\ At(t, "recv", "wait")
       /\ \/ takes(t)
          \/ /\ thr[t].tq # "nil" \/ CloseQ(thr[t].c)
             /\ Goes(t, [thr[t] EXCEPT !.pc = "fail"])
    \/ store(t)
    \/ /\ At(t, "recv", "fail") /\ Free
       /\ ctx' = [ctx EXCEPT ![thr[t].c].wait = FALSE]
       /\ thr' = [thr EXCEPT ![t] = NoCall]
       /\ UNCHANGED <<conf, left, s, lock, q, survs, pst, sendQ, snd, rcv, last, wire>>
repSendMsg(t) == beginReply(t) \/ putReply(t)

\* RESPONDENT forgets the message it had when RecvMsg starts, or looks again.
look(t, c) ==
    /\ Free /\ ~Closed(c)
    /\ ctx' = [ctx EXCEPT ![c].bt = NoMsg, ![c].rp = None]
    /\ thr' = [thr EXCEPT ![t] = [NoCall EXCEPT !.op = "recv", !.pc = "try", !.c = c, !.q = s.recvQ,
                                    !.tq = Timer(ctx[c].rexp)]]
    /\ UNCHANGED <<conf, left, s, lock, q, survs, pst, sendQ, snd, rcv, last, wire>>
respondentRecvMsg(t) ==
    \/ \E c \in Ctxs : Starts(t, "recv", c) /\ look(t, c)
    \/ tryTake(t)
    \/ /\ At(t, "recv", "wait")
       /\ \/ takes(t)
          \/ q[thr[t].q].sized /\ (look(t, thr[t].c) \/ (Closed(thr[t].c) /\ Returns(t)))
          \/ (thr[t].tq # "nil" \/ CloseQ(thr[t].c)) /\ Returns(t)
    \/ store(t)
respondentSendMsg(t) == beginReply(t) \/ putReply(t)

\* The header is complete after dev + 1 words; the loop gives up at the TTL.
Hops(k) == k.dev + 1 <= s.ttl
\* The receiver moves the backtrace to the header and goes on to the receive queue.
arriveRequest(p) ==
    \E k \in conf.kinds :
      /\ Arrives(p, k)
      /\ rcv' = IF Hops(k) THEN [rcv EXCEPT ![p].pc = "put", ![p].m = Incoming(p, k), ![p].q = s.recvQ]
                           ELSE rcv
      /\ UNCHANGED <<conf, s, lock, ctx, q, survs, pst, sendQ, snd, thr, last, wire>>
dropRequest(p) ==
    /\ rcv' = [rcv EXCEPT ![p].pc = "done", ![p].m = NoMsg]
    /\ Closing(p)
    /\ UNCHANGED <<conf, left, s, lock, ctx, q, survs, sendQ, snd, thr, last, wire>>
\* REP: the queue has no buffer, RecvMsg takes from the receiver.
repReceiver(p) ==
    \/ arriveRequest(p)
    \/ rcv[p].pc = "put" /\ PipeClosed(p) /\ dropRequest(p)
    \/ recvNil(p)
\* RESPONDENT: it does not watch the pipe while it waits for room.
respondentReceiver(p) ==
    \/ arriveRequest(p)
    \/ /\ rcv[p].pc = "put"
       /\ \/ /\ Room(rcv[p].q)
             /\ q' = [q EXCEPT ![rcv[p].q].buf = Append(@, rcv[p].m)]
             /\ rcv' = [rcv EXCEPT ![p] = Delivered(p)]
             /\ UNCHANGED <<conf, left, s, lock, ctx, survs, pst, sendQ, snd, thr, last, wire>>
          \/ /\ q[rcv[p].q].sized
             /\ rcv' = [rcv EXCEPT ![p].q = s.recvQ]
             /\ UNCHANGED <<conf, left, s, lock, ctx, q, survs, pst, sendQ, snd, thr, last, wire>>
          \/ s.closeQ /\ dropRequest(p)
    \/ recvNil(p)

repSetOption == \/ \E c \in Ctxs : flips(c, {"best", "sexp", "rexp"})
                \/ sizes("wqlen", conf.qlens) \/ sizes("ttl", conf.ttls)
respondentSetOption ==
    \/ \E c \in Ctxs : flips(c, {"best", "sexp", "rexp"})
    \/ sizes("wqlen", conf.qlens) \/ sizes("ttl", conf.ttls)
    \* ReadQLen: what the old queue holds is lost to new calls.
    \/ /\ left.sets > 0 /\ "rqlen" \in conf.fields
       /\ \E n \in conf.qlens : q' = Resized(s.recvQ, n)
       /\ s' = [s EXCEPT !.recvQ = Len(q) + 1]
       /\ left' = [left EXCEPT !.sets = @ - 1]
       /\ UNCHANGED <<conf, lock, ctx, survs, pst, sendQ, snd, rcv, thr, last, wire>>

\* A context of REP starts with no options, one of RESPONDENT with the socket's.
repOpenContext(c) == opens(c, [NoCtx EXCEPT !.st = "open"]) /\ UNCHANGED q
respondentOpenContext(c) ==
    /\ opens(c, [NoCtx EXCEPT !.st = "open", !.best = ctx[Master].best,
                              !.rexp = ctx[Master].rexp, !.sexp = ctx[Master].sexp])
    /\ UNCHANGED q

closeCtx(c) ==
    /\ ctx[c].st = "open" /\ Free
    /\ ctx' = [ctx EXCEPT ![c].st = "closed"]
    /\ Listed(c)
    /\ UNCHANGED <<conf, left, lock, q, survs, pst, sendQ, snd, rcv, thr, last, wire>>
repContextClose(c) == (c \in conf.closes \/ c \in s.closing) /\ closeCtx(c)
respondentContextClose(c) == c \in conf.closes /\ closeCtx(c)
repClose == closeList
respondentClose_Quiet ==
    /\ ~s.closed
    /\ s' = [s EXCEPT !.closed = TRUE]
    /\ ctx' = [c \in Ctxs |-> IF ctx[c].st = "open" THEN [ctx[c] EXCEPT !.st = "closed"] ELSE ctx[c]]
    /\ UNCHANGED <<conf, left, lock, q, survs, pst, sendQ, snd, rcv, thr, last, wire>>
respondentClose ==
    /\ ~s.closed
    /\ s' = [s EXCEPT !.closed = TRUE, !.closeQ = TRUE]
    /\ ctx' = [c \in Ctxs |-> IF ctx[c].st = "open" THEN [ctx[c] EXCEPT !.st = "closed"] ELSE ctx[c]]
    /\ UNCHANGED <<conf, left, lock, q, survs, pst, sendQ, snd, rcv, thr, last, wire>>
repAddPipe(p) == attach(p, "sel")
respondentAddPipe(p) == attach(p, "sel")
repRemovePipe(p) == moves(p, "closed", "gone")
respondentRemovePipe(p) == moves(p, "closed", "gone")

-----------------------------------------------------------------------------
(* SURVEYOR. *)

\* A survey: live (in the socket's map), out (cancel removed it), shut (its queue is
\* closed), done (drained).  asked: a cancel goroutine was started for it.
NewSurvey(c, i) == [ctx |-> c, q |-> i, pc |-> "live", in |-> TRUE, asked |-> FALSE]
Forgotten(i) == [c \in Ctxs |-> IF ctx[c].surv = i THEN [ctx[c] EXCEPT !.surv = 0] ELSE ctx[c]]
Shut(i) == [q EXCEPT ![survs[i].q].closed = TRUE]
Drained(i) == [q EXCEPT ![survs[i].q].buf = <<>>]
cancelStep(i, to, qs, cs) ==
    /\ survs' = [survs EXCEPT ![i] = to]
    /\ q' = qs /\ ctx' = cs
    /\ UNCHANGED <<conf, left, s, lock, pst, sendQ, snd, rcv, thr, last, wire>>
\* The survey's timer (AfterFunc, even of zero), or a goroutine that was started to cancel it.
mayCancel(i) == survs[i].pc = "live" /\ (conf.stime # "long" \/ survs[i].asked)
cancel_CloseFirst(i) ==
    LET v == survs[i]
    IN \/ mayCancel(i) /\ cancelStep(i, [v EXCEPT !.pc = "out"], Shut(i), ctx)
       \/ v.pc = "out" /\ cancelStep(i, [v EXCEPT !.pc = "shut", !.in = FALSE], q, Forgotten(i))
       \/ v.pc = "shut" /\ cancelStep(i, [v EXCEPT !.pc = "done"], Drained(i), ctx)
cancel_NoClose(i) ==
    LET v == survs[i]
    IN \/ mayCancel(i) /\ cancelStep(i, [v EXCEPT !.pc = "out", !.in = FALSE], q, Forgotten(i))
       \/ v.pc = "out" /\ cancelStep(i, [v EXCEPT !.pc = "done"], Drained(i), ctx)
\* Once: the survey leaves the map and its context under the lock; only then is its
\* queue closed, and drained.
cancel(i) ==
    LET v == survs[i]
    IN \/ mayCancel(i) /\ cancelStep(i, [v EXCEPT !.pc = "out", !.in = FALSE], q, Forgotten(i))
       \/ v.pc = "out" /\ cancelStep(i, [v EXCEPT !.pc = "shut"], Shut(i), ctx)
       \/ v.pc = "shut" /\ cancelStep(i, [v EXCEPT !.pc = "done"], Drained(i), ctx)

InMap(i) == survs[i].in

\* start, and the cancellation of the context's previous survey.
start(c) ==
    LET old == ctx[c].surv
    IN Append(IF old = 0 THEN survs ELSE [survs EXCEPT ![old].asked = TRUE], NewSurvey(c, Len(q) + 1))
surveyorBeginSend(t) ==
    \E c \in Ctxs :
      /\ Starts(t, "send", c) /\ left.sends > 0 /\ ~s.closed /\ ~Closed(c)
      /\ left' = [left EXCEPT !.sends = @ - 1]
      /\ survs' = start(c)
      /\ q' = Append(q, NewQ(ctx[c].qlen))
      /\ ctx' = [ctx EXCEPT ![c].surv = Len(survs) + 1]
      /\ thr' = [thr EXCEPT ![t] = [NoCall EXCEPT !.op = "send", !.pc = "cast", !.c = c,
                     !.m = [id |-> <<t, left.sends>>, hdr |-> Len(survs) + 1, dev |-> 0, body |-> <<>>],
                     !.to = {p \in Pipes : pst[p] \in {"open", "closed", "half"}}]]
      /\ UNCHANGED <<conf, s, lock, pst, sendQ, snd, rcv, last, wire>>
\* The broadcast, after the lock was released, to the pipes there were: what has no room is freed.
surveyorSendMsg(t) ==
    \/ surveyorBeginSend(t)
    \/ /\ At(t, "send", "cast")
       /\ \/ \E p \in thr[t].to :
               LET next == [thr[t] EXCEPT !.to = @ \ {p}]
               IN puts(t, p, next) \/ (~SendRoom(p) /\ Goes(t, next))
          \/ thr[t].to = {} /\ Returns(t)
\* A closed queue that is empty ends the call with the survey's error.
ended(t) == q[thr[t].q].closed /\ q[thr[t].q].buf = <<>> /\ Returns(t)
surveyorRecvMsg(t) ==
    \/ \E c \in Ctxs :
         /\ Starts(t, "recv", c) /\ ~s.closed /\ ctx[c].surv # 0
         /\ Goes(t, [NoCall EXCEPT !.op = "recv", !.pc = "try", !.c = c, !.q = survs[ctx[c].surv].q,
                                   !.tq = Timer(ctx[c].rexp)])
    \/ tryTake(t)
    \/ At(t, "recv", "try") /\ ended(t)
    \/ /\ At(t, "recv", "wait")
       /\ \/ takes(t)
          \/ ended(t)
          \/ (CloseQ(thr[t].c) \/ thr[t].tq # "nil") /\ Returns(t)

\* The receiver finds the survey a response is for.  What has no survey, or no room, is freed.
respond(p, i, m) ==
    \/ /\ InMap(i) /\ Room(survs[i].q)
       /\ q' = [q EXCEPT ![survs[i].q].buf = Append(@, m)]
       /\ UNCHANGED <<thr, last>>
    \/ /\ InMap(i) /\ q[survs[i].q].cap = 0
       /\ \E t \in Threads : At(t, "recv", "wait") /\ thr[t].q = survs[i].q /\ Got(t, m)
       /\ UNCHANGED q
    \/ /\ ~(InMap(i) /\ (Room(survs[i].q) \/ (q[survs[i].q].cap = 0 /\
             \E t \in Threads : At(t, "recv", "wait") /\ thr[t].q = survs[i].q)))
       /\ UNCHANGED <<q, thr, last>>
surveyorReceiver(p) ==
    \/ \E k \in {[hdr |-> m.hdr, dev |-> 0, body |-> <<>>] : m \in ToSet(wire[p])} :
         /\ Arrives(p, k)
         /\ respond(p, k.hdr, Incoming(p, k))
         /\ UNCHANGED <<conf, s, lock, ctx, survs, pst, sendQ, snd, rcv, wire>>
    \/ recvNil(p)

surveyorSetOption ==
    \/ \E c \in Ctxs : flips(c, {"rexp"})
    \/ sizes("wqlen", conf.qlens)
    \* ReadQLen: for later surveys.
    \/ /\ left.sets > 0 /\ "rqlen" \in conf.fields
       /\ \E c \in Ctxs, n \in conf.qlens : ctx[c].st # "none" /\ ctx' = [ctx EXCEPT ![c].qlen = n]
       /\ left' = [left EXCEPT !.sets = @ - 1]
       /\ UNCHANGED <<conf, s, lock, q, survs, pst, sendQ, snd, rcv, thr, last, wire>>
surveyorOpenContext(c) ==
    opens(c, [NoCtx EXCEPT !.st = "open", !.rexp = ctx[Master].rexp, !.qlen = ctx[Master].qlen])
      /\ UNCHANGED q

\* context.close of every context of cs.
Leave(cs) ==
    /\ ctx' = [c \in Ctxs |-> IF c \in cs THEN [ctx[c] EXCEPT !.st = "closed", !.surv = 0] ELSE ctx[c]]
    /\ survs' = [i \in DOMAIN survs |-> IF \E c \in cs : ctx[c].surv = i
                                        THEN [survs[i] EXCEPT !.asked = TRUE] ELSE survs[i]]
surveyorContextClose(c) ==
    /\ c \in conf.closes /\ ctx[c].st = "open" /\ Leave({c})
    /\ UNCHANGED <<conf, left, s, lock, q, pst, sendQ, snd, rcv, thr, last, wire>>
surveyorClose ==
    /\ ~s.closed
    /\ s' = [s EXCEPT !.closed = TRUE]
    /\ Leave({c \in Ctxs : ctx[c].st = "open"})
    /\ UNCHANGED <<conf, left, lock, q, pst, sendQ, snd, rcv, thr, last, wire>>
surveyorAddPipe(p) == attach(p, "sel")
\* closeQ is closed before the pipe leaves the socket's map.
surveyorRemovePipe(p) == moves(p, "closed", "half") \/ moves(p, "half", "gone")

-----------------------------------------------------------------------------
(* SUB. *)

matches(subs, m) == \E topic \in subs : IsPrefix(topic, m.body)

subRecvMsg(t) ==
    \/ \E c \in Ctxs :
         /\ Starts(t, "recv", c) /\ Free
         /\ Goes(t, [NoCall EXCEPT !.op = "recv", !.pc = "try", !.c = c, !.q = ctx[c].recvQ,
                                   !.tq = Timer(ctx[c].rexp), !.want = ctx[c].subs])
    \/ tryTake(t)
    \/ /\ At(t, "recv", "wait")
       /\ \/ takes(t)
          \/ (CloseQ(thr[t].c) \/ thr[t].tq # "nil") /\ Returns(t)
          \/ /\ q[thr[t].q].sized /\ Free
             /\ Goes(t, [thr[t] EXCEPT !.pc = "try", !.q = ctx[thr[t].c].recvQ])

\* The receiver holds the lock while it offers the message to every context that wants it.
arriveTopic(p) ==
    \E k \in conf.kinds :
      /\ Free /\ Arrives(p, k)
      /\ LET m == Incoming(p, k)
             to == {c \in Ctxs : ctx[c].st = "open" /\ matches(ctx[c].subs, m)}
         IN rcv' = [rcv EXCEPT ![p] = [pc |-> "each", m |-> m, q |-> 1, todo |-> to]]
      /\ lock' = p
      /\ UNCHANGED <<conf, s, ctx, q, survs, pst, sendQ, snd, thr, last, wire>>
RcvGoes(p, r) == /\ rcv' = [rcv EXCEPT ![p] = r]
                 /\ UNCHANGED <<conf, left, s, ctx, survs, pst, sendQ, snd, wire>>
\* One context: put, or with a full queue drop the oldest message and then put.
offer(p) ==
    \E c \in rcv[p].todo :
      LET i == ctx[c].recvQ
          done == [rcv[p] EXCEPT !.todo = @ \ {c}]
          ready == {t \in Threads : At(t, "recv", "wait") /\ thr[t].q = i /\ q[i].cap = 0}
      IN \/ /\ Room(i)
            /\ q' = [q EXCEPT ![i].buf = Append(@, rcv[p].m)]
            /\ RcvGoes(p, done) /\ UNCHANGED <<lock, thr, last>>
         \/ /\ \E t \in ready : Got(t, rcv[p].m)
            /\ RcvGoes(p, done) /\ UNCHANGED <<lock, q>>
         \/ /\ ~Room(i) /\ ready = {}
            /\ RcvGoes(p, [done EXCEPT !.pc = "full", !.q = i]) /\ UNCHANGED <<lock, q, thr, last>>
dropOldest(i) == [q EXCEPT ![i].buf = IF @ = <<>> THEN @ ELSE Tail(@)]
makeRoom(p) == /\ q' = dropOldest(rcv[p].q)
               /\ RcvGoes(p, [rcv[p] EXCEPT !.pc = "put"]) /\ UNCHANGED <<lock, thr, last>>
subReceiver(p) ==
    \/ arriveTopic(p)
    \/ rcv[p].pc = "each" /\ offer(p)
    \/ rcv[p].pc = "full" /\ makeRoom(p)
    \/ /\ rcv[p].pc = "put" /\ Room(rcv[p].q)
       /\ q' = [q EXCEPT ![rcv[p].q].buf = Append(@, rcv[p].m)]
       /\ RcvGoes(p, Delivered(p)) /\ UNCHANGED <<lock, thr, last>>
    \/ /\ rcv[p].pc = "each" /\ rcv[p].todo = {}
       /\ lock' = None
       /\ RcvGoes(p, [NoGoroutine EXCEPT !.pc = "recv"]) /\ UNCHANGED <<q, thr, last>>
    \/ recvNil(p)

\* A new subscription; calls in progress may now return messages of this topic, too.
subscribe(c, topic) ==
    /\ ctx' = [ctx EXCEPT ![c].subs = @ \cup {topic}]
    /\ thr' = [t \in Threads |-> IF thr[t].op = "recv" /\ thr[t].c = c
                                 THEN [thr[t] EXCEPT !.want = @ \cup {topic}] ELSE thr[t]]
    /\ UNCHANGED <<lock, q>>
\* The context gets a new queue, and what it still wants of the old one is moved over,
\* all under the lock, which RecvMsg does not need to take from the old queue.
unsubscribe_Keep(t, c, topic) ==
    /\ topic \in ctx[c].subs
    /\ ctx' = [ctx EXCEPT ![c].subs = @ \ {topic}]
    /\ UNCHANGED <<thr, lock, q>>
unsubscribe(t, c, topic) ==
    /\ topic \in ctx[c].subs
    /\ ctx' = [ctx EXCEPT ![c].subs = @ \ {topic}, ![c].recvQ = Len(q) + 1]
    /\ q' = Resized(ctx[c].recvQ, ctx[c].qlen)
    /\ lock' = t
    /\ thr' = [thr EXCEPT ![t] = [NoCall EXCEPT !.op = "set", !.pc = "prune", !.c = c,
                                                !.q = ctx[c].recvQ]]
prune(t) ==
    /\ At(t, "set", "prune")
    /\ LET old == thr[t].q
           new == ctx[thr[t].c].recvQ
           m   == Head(q[old].buf)
       IN \/ /\ q[old].buf # <<>> /\ ~matches(ctx[thr[t].c].subs, m)
             /\ q' = [q EXCEPT ![old].buf = Tail(@)]
             /\ UNCHANGED <<thr, lock>>
          \/ /\ q[old].buf # <<>> /\ matches(ctx[thr[t].c].subs, m) /\ Room(new)
             /\ q' = [q EXCEPT ![old].buf = Tail(@), ![new].buf = Append(@, m)]
             /\ UNCHANGED <<thr, lock>>
          \/ /\ q[old].buf = <<>>
             /\ thr' = [thr EXCEPT ![t] = NoCall]
             /\ lock' = None
             /\ UNCHANGED q
    /\ UNCHANGED <<conf, left, s, ctx, survs, pst, sendQ, snd, rcv, last, wire>>
\* ReadQLen: what the old queue holds is lost to new calls.
subResize(c) ==
    \E n \in conf.qlens :
      /\ q' = Resized(ctx[c].recvQ, n)
      /\ ctx' = [ctx EXCEPT ![c].recvQ = Len(q) + 1, ![c].qlen = n]
      /\ UNCHANGED <<thr, lock>>
subSetOption(t) ==
    \/ \E c \in Ctxs :
         /\ Starts(t, "set", c) /\ Free /\ left.sets > 0
         /\ \/ \E topic \in conf.topics : subscribe(c, topic) \/ unsubscribe(t, c, topic)
            \/ "rqlen" \in conf.fields /\ subResize(c)
         /\ left' = [left EXCEPT !.sets = @ - 1]
         /\ UNCHANGED <<conf, s, survs, pst, sendQ, snd, rcv, last, wire>>
    \/ \E c \in Ctxs : Starts(t, "set", c) /\ flips(c, {"rexp"})
    \/ prune(t)

subOpenContext(c) ==
    /\ opens(c, [NoCtx EXCEPT !.st = "open", !.rexp = ctx[Master].rexp, !.qlen = ctx[Master].qlen,
                              !.recvQ = Len(q) + 1])
    /\ q' = Append(q, NewQ(ctx[Master].qlen))
\* The context is marked closed under the lock and its closeQ closed after it.
subContextClose(c) ==
    /\ \/ /\ c \in conf.closes \/ c \in s.closing
          /\ ctx[c].st = "open" /\ Free
          /\ ctx' = [ctx EXCEPT ![c].st = "shut"]
       \/ /\ ctx[c].st = "shut"
          /\ ctx' = [ctx EXCEPT ![c].st = "closed"]
    /\ Listed(c)
    /\ UNCHANGED <<conf, left, lock, q, survs, pst, sendQ, snd, rcv, thr, last, wire>>
subClose == closeList
subAddPipe(p) == attach(p, "off")
subRemovePipe(p) == moves(p, "closed", "gone")

-----------------------------------------------------------------------------
(* The protocols together. *)

\* The contexts' and the socket's structures as NewProtocol makes them, with the
\* options of the scenario set.
NewProtocol ==
    /\ s = [closed |-> FALSE, closing |-> {}, closeQ |-> FALSE, recvQ |-> 1,
            wqlen |-> conf.wqlen, ttl |-> conf.ttl]
    /\ ctx = [c \in Ctxs |-> IF c = Master
                THEN [NoCtx EXCEPT !.st = "open", !.qlen = conf.rqlen, !.best = conf.best,
                                   !.sexp = conf.sexp, !.rexp = conf.rexp, !.subs = conf.subs]
                ELSE NoCtx]
    /\ q = <<NewQ(IF Is("rep") THEN 0 ELSE conf.rqlen)>>
    /\ survs = <<>>

Init ==
    /\ conf \in Scenarios
    /\ left = [arrivals |-> conf.arrivals, sends |-> conf.sends, sets |-> conf.sets]
    /\ NewProtocol
    /\ lock = None
    /\ pst = [p \in Pipes |-> "new"]
    /\ sendQ = [p \in Pipes |-> [cap |-> 0, buf |-> <<>>]]
    /\ snd = [p \in Pipes |-> NoGoroutine]
    /\ rcv = [p \in Pipes |-> NoGoroutine]
    /\ thr = [t \in Threads |-> NoCall]
    /\ last = [t \in Threads |-> NoMsg]
    /\ wire = [p \in Pipes |-> <<>>]

Call(t) ==
    \/ Is("rep") /\ (repRecvMsg(t) \/ repSendMsg(t))
    \/ Is("respondent") /\ (respondentRecvMsg(t) \/ respondentSendMsg(t))
    \/ Is("surveyor") /\ (surveyorRecvMsg(t) \/ surveyorSendMsg(t))
    \/ Is("sub") /\ (subRecvMsg(t) \/ subSetOption(t))
SetOption ==
    \/ Is("rep") /\ repSetOption
    \/ Is("respondent") /\ respondentSetOption
    \/ Is("surveyor") /\ surveyorSetOption
OpenContext(c) ==
    \/ Is("rep") /\ repOpenContext(c)
    \/ Is("respondent") /\ respondentOpenContext(c)
    \/ Is("surveyor") /\ surveyorOpenContext(c)
    \/ Is("sub") /\ subOpenContext(c)
CloseContext(c) ==
    \/ Is("rep") /\ repContextClose(c)
    \/ Is("respondent") /\ respondentContextClose(c)
    \/ Is("surveyor") /\ surveyorContextClose(c)
    \/ Is("sub") /\ subContextClose(c)
Close ==
    \/ Is("rep") /\ repClose
    \/ Is("respondent") /\ respondentClose
    \/ Is("surveyor") /\ surveyorClose
    \/ Is("sub") /\ subClose
AddPipe(p) ==
    \/ Is("rep") /\ repAddPipe(p)
    \/ Is("respondent") /\ respondentAddPipe(p)
    \/ Is("surveyor") /\ surveyorAddPipe(p)
    \/ Is("sub") /\ subAddPipe(p)
RemovePipe(p) ==
    \/ Is("rep") /\ repRemovePipe(p)
    \/ Is("respondent") /\ respondentRemovePipe(p)
    \/ Is("surveyor") /\ surveyorRemovePipe(p)
    \/ Is("sub") /\ subRemovePipe(p)
Receiver(p) ==
    \/ Is("rep") /\ repReceiver(p)
    \/ Is("respondent") /\ respondentReceiver(p)
    \/ Is("surveyor") /\ surveyorReceiver(p)
    \/ Is("sub") /\ subReceiver(p)
\* The peer goes away, or the core closes the pipes of a closed socket.
ClosePipe(p) == (p \in conf.drops \/ (s.closed /\ s.closing = {})) /\ moves(p, "open", "closed")

Next ==
    \/ \E t \in Threads : Call(t)
    \/ SetOption
    \/ \E c \in Ctxs : OpenContext(c) \/ CloseContext(c)
    \/ Close
    \/ \E p \in Pipes : AddPipe(p) \/ RemovePipe(p) \/ ClosePipe(p) \/ sender(p) \/ Receiver(p)
    \/ \E i \in DOMAIN survs : cancel(i)

Spec == Init /\ [][Next]_vars

\* Calls in progress and goroutines go on, timers fire, Close goes through its list and
\* the core then closes and removes the pipes.  Nothing is asked of the peers.
Fairness ==
    /\ \A t \in Threads : WF_vars(thr[t].op # "none" /\ Call(t))
    /\ \A c \in Ctxs : WF_vars((c \in s.closing \/ ctx[c].st = "shut") /\ CloseContext(c))
    /\ \A p \in Pipes : /\ WF_vars((snd[p].pc # "send" \/ pst[p] # "open") /\ sender(p))
                        /\ WF_vars((rcv[p].pc # "recv" \/ pst[p] # "open") /\ Receiver(p))
                        /\ WF_vars(RemovePipe(p) \/ (s.closed /\ ClosePipe(p)))
    /\ WF_vars(\E i \in DOMAIN survs : cancel(i))
FairSpec == Spec /\ Fairness

-----------------------------------------------------------------------------
(* Properties. *)

\* What pipe p has been, is being or will be sent.
Track(p) == ToSet(wire[p]) \cup ToSet(sendQ[p].buf) \cup ({snd[p].m} \ {NoMsg})
            \cup {thr[t].m : t \in {t \in Threads : thr[t].op = "send" /\ p \in thr[t].to}}
Replying == Is("rep") \/ Is("respondent")

\* REP and RESPONDENT: a request, or the right to answer it, is in one place from the time
\* it arrives to the time the reply is transmitted, so no request is answered twice.
Having(id) ==
      Cardinality({p \in Pipes : rcv[p].m # NoMsg /\ rcv[p].m.hdr = id})
    + Cardinality({p \in Pipes : snd[p].m # NoMsg /\ snd[p].m.hdr = id})
    + Cardinality({t \in Threads : thr[t].m # NoMsg /\ thr[t].m.hdr = id})
    + Cardinality({c \in Ctxs : ctx[c].bt # NoMsg /\ ctx[c].bt = id})
    + Cardinality({x \in UNION {{<<i, j>> : j \in DOMAIN q[i].buf} : i \in DOMAIN q} :
                     q[x[1]].buf[x[2]].hdr = id})
    + Cardinality({x \in UNION {{<<p, j>> : j \in DOMAIN sendQ[p].buf} : p \in Pipes} :
                     sendQ[x[1]].buf[x[2]].hdr = id})
    + Cardinality({x \in UNION {{<<p, j>> : j \in DOMAIN wire[p]} : p \in Pipes} :
                     wire[x[1]][x[2]].hdr = id})
OneAnswer == Replying => \A p \in Pipes, n \in 1 .. conf.arrivals : Having(<<p, n>>) <= 1

\* REP and RESPONDENT: a reply goes to the pipe its request came on, whatever other
\* requests the context has received or given up since; and threads with a context each
\* get their replies matched to the requests they answer, however their calls interleave,
\* fail or time out.
RepliesMatch ==
    Replying => \A p \in Pipes : \A m \in Track(p) : m.hdr[1] = p /\ (conf.own => m.id = m.hdr)

\* SURVEYOR: a receiver never finds a survey whose queue is closed (it would panic), and
\* a survey that is still in the map is its context's, or is being cancelled.
SurveyOpen ==
    \A i \in DOMAIN survs : InMap(i) => /\ ~q[survs[i].q].closed
                                        /\ ctx[survs[i].ctx].surv = i \/ survs[i].asked

\* SUB: what RecvMsg returns matches a subscription the context had during the call.
NoStaleTopic ==
    [][\A t \in Threads : Is("sub") /\ last'[t] # last[t] => matches(thr[t].want, last'[t])]_vars


Ended(p) == snd[p].pc \in {"off", "done"} /\ rcv[p].pc \in {"off", "done"}

\* Goroutines end: those of every pipe, and every call, once the socket is closed; and
\* in REP those of a removed pipe, even if the application neither receives nor closes.
\* (The receiver of RESPONDENT stays as long as the receive queue is full.)
Releases ==
    /\ s.closed ~> (\A t \in Threads : thr[t].op = "none") /\ (\A p \in Pipes : Ended(p))
    /\ \A p \in Pipes : (Is("rep") /\ pst[p] = "gone") ~> Ended(p)

\* SURVEYOR: a call of RecvMsg that waits on a survey returns once the survey is replaced
\* or its time is over.
SurveyReturns ==
    \A t \in Threads :
      (Is("surveyor") /\ thr[t].op = "recv" /\ (conf.stime # "long" \/ \E i \in DOMAIN survs :
         survs[i].q = thr[t].q /\ survs[i].asked)) ~> thr[t].op = "none"

=============================================================================
