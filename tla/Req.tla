-------------------------------- MODULE Req ---------------------------------
(***************************************************************************)
(* The REQ protocol (protocol/req): contexts that send requests over any   *)
(* pipe that is ready, wait for the reply, send again when the retry time  *)
(* passes or the pipe goes away, and are cancelled by a later request, by  *)
(* a deadline or by Close.                                                 *)
(*                                                                         *)
(* Every section under the socket's lock is one action.  A call that waits *)
(* on the context's condition variable runs again only after a Broadcast.  *)
(* A request, and the reply to it, is identified by its request ID; the    *)
(* peer may answer a request that reached it any number of times, or not   *)
(* at all, and pipes may go away at any time.                              *)
(*                                                                         *)
(* An operator named X_Y is X with a mistake that Y names; it is not part  *)
(* of the specification, and shows that the properties would notice it.    *)
(***************************************************************************)
EXTENDS Integers, Sequences, FiniteSets

CONSTANTS
    Contexts,      \* contexts, the default context included
    Default,       \* socket.defCtx, which is there from the start
    Callers,       \* goroutines that call SendMsg and RecvMsg
    Uses,          \* the contexts that each caller uses
    Pipes,         \* pipes that may be added
    MaxID,         \* bound: how many requests are sent
    Retry,         \* contexts with OptionRetryTime > 0
    BestEffort,    \* contexts with OptionBestEffort
    FailNoPeers,   \* contexts with OptionFailNoPeers
    SendExpire,    \* sign of OptionSendDeadline, per context
    ReceiveExpire, \* sign of OptionRecvDeadline, per context
    NoContext, NoPipe

ASSUME ReqAssumption ==
    /\ Default \in Contexts
    /\ NoContext \notin Contexts
    /\ NoPipe \notin Pipes
    /\ MaxID \in Nat
    /\ Uses \in [Callers -> SUBSET Contexts]
    /\ Retry \cup BestEffort \cup FailNoPeers \subseteq Contexts
    /\ SendExpire \in [Contexts -> {-1, 0, 1}]
    /\ ReceiveExpire \in [Contexts -> {-1, 0, 1}]

VARIABLES
    s,      \* the part of the socket that send and cancel change, a record: ctx, sendQ,
            \* readyQ, ctxByID, busy (what each pipe's sendCtx transmits), resends (retry
            \* timers and resendMessage goroutines), fired (deadline timers whose callback is
            \* about to take the lock), woken (callers a Broadcast woke), sent (history: the
            \* requests that each context handed to a pipe)
    closed, \* socket.closed
    open,   \* socket.contexts
    pst,    \* each pipe: "none", "open" (in socket.pipes), "closed"
    nextID, \* socket.nextID
    call,   \* what each caller is doing
    ret,    \* what each caller's last call returned
    peer    \* the requests that reached the peer of each pipe

vars == <<s, closed, open, pst, nextID, call, ret, peer>>

Ids == 1 .. MaxID    \* a request ID; 0 stands for no request and no message

Idle == [op |-> "idle", ctx |-> NoContext, id |-> 0, expired |-> FALSE]

Init ==
    /\ s = [ctx |-> [c \in Contexts |->
                        [reqID |-> 0, sendMsg |-> 0, reqMsg |-> 0, repMsg |-> 0,
                         lastPipe |-> NoPipe, receiveWait |-> FALSE, queued |-> FALSE,
                         closed |-> FALSE, sendTimer |-> 0, receiveTimer |-> 0]],
            sendQ |-> <<>>, readyQ |-> <<>>, ctxByID |-> [i \in 0 .. MaxID |-> NoContext],
            busy |-> [p \in Pipes |-> 0], resends |-> {}, fired |-> {}, woken |-> {}, sent |-> {}]
    /\ closed = FALSE
    /\ open = {Default}
    /\ pst = [p \in Pipes |-> "none"]
    /\ nextID = 0
    /\ call = [t \in Callers |-> Idle]
    /\ ret = [t \in Callers |-> [id |-> 0, reply |-> 0, err |-> "none"]]
    /\ peer = [p \in Pipes |-> {}]

(***************************************************************************)
(* What the handlers are made of: functions of the socket's state.         *)
(***************************************************************************)
NoPeers(c) == c \in FailNoPeers /\ \A p \in Pipes : pst[p] # "open"

Broadcast(S, C) == [S EXCEPT !.woken = @ \cup {t \in Callers : call[t].ctx \in C}]

\* The queue Q without the members of R: what is left keeps its order.
Without(Q, R) ==
    LET kept == {i \in DOMAIN Q : Q[i] \notin R}
        nth(n) == CHOOSE i \in kept : Cardinality({j \in kept : j <= i}) = n
    IN  [n \in 1 .. Cardinality(kept) |-> Q[nth(n)]]

\* cancelSend and cancel, for each context of the set C.
cancelSend(S, C) ==
    [S EXCEPT !.sendQ = Without(@, {c \in C : S.ctx[c].queued}),
              !.ctx = [c \in Contexts |->
                          IF c \in C THEN [S.ctx[c] EXCEPT !.queued = FALSE] ELSE S.ctx[c]]]

unindex_Kept(S, C) == S

unindex(S, C) ==
    [S EXCEPT !.ctxByID = [i \in 0 .. MaxID |->
        IF i # 0 /\ \E c \in C : S.ctx[c].reqID = i THEN NoContext ELSE S.ctxByID[i]]]

forget_KeepsReply(S, C) ==
    [S EXCEPT !.ctx = [c \in Contexts |->
                  IF c \in C THEN [S.ctx[c] EXCEPT !.reqID = 0, !.reqMsg = 0,
                                                  !.sendTimer = 0, !.receiveTimer = 0]
                  ELSE S.ctx[c]],
              !.resends = {r \in S.resends : r[1] \notin C}]

\* Stop comes too late for a timer that has fired.  A retry of the request that is
\* given up is forgotten: it would find another reqID or no reqMsg and do nothing.
forget(S, C) ==
    [S EXCEPT !.ctx = [c \in Contexts |->
                  IF c \in C THEN [S.ctx[c] EXCEPT !.reqID = 0, !.repMsg = 0, !.reqMsg = 0,
                                                  !.sendTimer = 0, !.receiveTimer = 0]
                  ELSE S.ctx[c]],
              !.resends = {r \in S.resends : r[1] \notin C}]

cancel_Silent(S, C) == forget(unindex(cancelSend(S, C), C), C)

cancel(S, C) == Broadcast(forget(unindex(cancelSend(S, C), C), C), C)

\* The head of the send queue, c, hands its message m to the head of the ready queue, p.
give(S, c, p, m) ==
    [S EXCEPT !.sendQ = Tail(@),
              !.readyQ = Tail(@),
              !.ctx[c] = [@ EXCEPT !.queued = FALSE, !.reqMsg = m, !.sendMsg = 0, !.lastPipe = p],
              !.busy[p] = m,
              !.sent = @ \cup {<<c, m>>},
              !.resends = IF c \in Retry THEN @ \cup {<<c, S.ctx[c].reqID>>} ELSE @]

\* One round of send's loop.  There is never a second one: QueuesSound says that
\* one of the queues is empty again after each handler.
send(S) ==
    IF S.sendQ = <<>> \/ S.readyQ = <<>> THEN S
    ELSE LET c == Head(S.sendQ)
             first == S.ctx[c].sendMsg # 0
             T == give(S, c, Head(S.readyQ), IF first THEN S.ctx[c].sendMsg ELSE S.ctx[c].reqMsg)
         IN  IF first THEN Broadcast([T EXCEPT !.ctxByID[S.ctx[c].reqID] = c], {c}) ELSE T

\* The queue for c and the pipe p get a new member, and send runs.
enqueue(S, c) == send([S EXCEPT !.sendQ = Append(@, c), !.ctx[c].queued = TRUE])
ready(S, p) == send([S EXCEPT !.readyQ = Append(@, p)])

(***************************************************************************)
(* SendMsg and RecvMsg.                                                    *)
(***************************************************************************)
Known(c) == c \in open \/ s.ctx[c].closed

Returns(t, id, reply, err) ==
    /\ call' = [call EXCEPT ![t] = Idle]
    /\ ret' = [ret EXCEPT ![t] = [id |-> id, reply |-> reply, err |-> err]]

Waits(t, op, c, id) ==
    /\ call' = [call EXCEPT ![t] = [op |-> op, ctx |-> c, id |-> id, expired |-> FALSE]]
    /\ UNCHANGED ret

\* SendMsg from its loop on: t waits, or gives its message up, or is done.
sendLoop(S, t, c, id, expired) ==
    LET mine == S.ctx[c].sendMsg = id
        stop == expired \/ S.ctx[c].closed \/ NoPeers(c)
        T == IF mine /\ stop
             THEN [cancelSend(S, {c}) EXCEPT !.ctx[c] = [@ EXCEPT !.sendMsg = 0, !.reqID = 0]]
             ELSE S
        err == IF ~mine THEN "nil"
               ELSE IF S.ctx[c].closed THEN "ErrClosed"
               ELSE IF NoPeers(c) THEN "ErrNoPeers" ELSE "ErrSendTimeout"
    IN  /\ s' = [T EXCEPT !.woken = @ \ {t}]
        /\ IF mine /\ ~stop THEN Waits(t, "send", c, id) ELSE Returns(t, id, 0, err)

armed(c, id) == IF c \notin BestEffort /\ SendExpire[c] > 0 THEN id ELSE 0

request_TimerBeforeCancel(c, id) ==
    enqueue([cancel(s, {c}) EXCEPT !.ctx[c] = [@ EXCEPT !.reqID = id, !.sendMsg = id]], c)

\* The new request replaces the context's earlier one, and is sent or queued.
request(c, id) ==
    enqueue([cancel(s, {c}) EXCEPT !.ctx[c] = [@ EXCEPT !.reqID = id, !.sendMsg = id,
                                                        !.sendTimer = armed(c, id)]], c)

SendMsg(t, c) ==
    LET id == nextID + 1 IN
    /\ call[t] = Idle /\ c \in Uses[t] /\ Known(c)
    /\ nextID < MaxID
    /\ nextID' = id
    /\ IF closed \/ s.ctx[c].closed THEN Returns(t, id, 0, "ErrClosed") /\ UNCHANGED s
       ELSE IF NoPeers(c) THEN Returns(t, id, 0, "ErrNoPeers") /\ UNCHANGED s
       ELSE IF c \in BestEffort THEN Returns(t, id, 0, "nil") /\ s' = request(c, id)
       ELSE sendLoop(request(c, id), t, c, id, SendExpire[c] < 0)
    /\ UNCHANGED <<closed, open, pst, peer>>

sendWake(t) ==
    /\ call[t].op = "send"
    /\ t \in s.woken
    /\ sendLoop(s, t, call[t].ctx, call[t].id, call[t].expired)
    /\ UNCHANGED <<closed, open, pst, nextID, peer>>

\* RecvMsg from its loop on.
recvLoop(S, t, c, id, expired) ==
    LET pending == S.ctx[c].reqID = id /\ S.ctx[c].repMsg = 0
        late == expired \/ (pending /\ ReceiveExpire[c] < 0)
        T == IF pending /\ ReceiveExpire[c] < 0 THEN cancel(S, {c}) ELSE S
        U == Broadcast([T EXCEPT !.ctx[c] = [@ EXCEPT !.reqID = 0, !.repMsg = 0,
                                                      !.receiveWait = FALSE]], {c})
        err == IF T.ctx[c].repMsg # 0 THEN "nil"
               ELSE IF S.ctx[c].closed THEN "ErrClosed"
               ELSE IF late THEN "ErrRecvTimeout"
               ELSE IF NoPeers(c) THEN "ErrNoPeers" ELSE "ErrCanceled"
    IN  IF pending /\ ReceiveExpire[c] >= 0
        THEN s' = [S EXCEPT !.woken = @ \ {t}] /\ Waits(t, "recv", c, id)
        ELSE s' = [U EXCEPT !.woken = @ \ {t}] /\ Returns(t, id, T.ctx[c].repMsg, err)

RecvMsg(t, c) ==
    LET id == s.ctx[c].reqID IN
    /\ call[t] = Idle /\ c \in Uses[t] /\ Known(c)
    /\ IF closed \/ s.ctx[c].closed THEN Returns(t, 0, 0, "ErrClosed") /\ UNCHANGED s
       ELSE IF NoPeers(c) THEN Returns(t, 0, 0, "ErrNoPeers") /\ UNCHANGED s
       ELSE IF s.ctx[c].receiveWait \/ id = 0 THEN Returns(t, 0, 0, "ErrProtoState") /\ UNCHANGED s
       ELSE recvLoop([s EXCEPT !.ctx[c] =
                          [@ EXCEPT !.receiveWait = TRUE,
                                    !.receiveTimer = IF ReceiveExpire[c] > 0 THEN id
                                                     ELSE s.ctx[c].receiveTimer]],
                     t, c, id, FALSE)
    /\ UNCHANGED <<closed, open, pst, nextID, peer>>

recvWake(t) ==
    /\ call[t].op = "recv"
    /\ t \in s.woken
    /\ recvLoop(s, t, call[t].ctx, call[t].id, call[t].expired)
    /\ UNCHANGED <<closed, open, pst, nextID, peer>>

(***************************************************************************)
(* Timers.  A deadline fires, and its callback takes the lock later.       *)
(***************************************************************************)
fire(c) ==
    /\ \/ /\ s.ctx[c].sendTimer # 0
          /\ s' = [s EXCEPT !.fired = @ \cup {<<"send", c, s.ctx[c].sendTimer>>},
                            !.ctx[c].sendTimer = 0]
       \/ /\ s.ctx[c].receiveTimer # 0
          /\ s' = [s EXCEPT !.fired = @ \cup {<<"recv", c, s.ctx[c].receiveTimer>>},
                            !.ctx[c].receiveTimer = 0]
    /\ UNCHANGED <<closed, open, pst, nextID, call, ret, peer>>

expire(op, c, id) ==
    LET S == [s EXCEPT !.fired = @ \ {<<op, c, id>>}]
        due == id = IF op = "send" THEN s.ctx[c].sendMsg ELSE s.ctx[c].reqID
    IN  /\ <<op, c, id>> \in s.fired
        /\ s' = IF due THEN cancel(S, {c}) ELSE S
        /\ call' = [t \in Callers |->
                       IF due /\ call[t].op = op /\ call[t].ctx = c /\ call[t].id = id
                       THEN [call[t] EXCEPT !.expired = TRUE] ELSE call[t]]
        /\ UNCHANGED <<closed, open, pst, nextID, ret, peer>>

resendMessage(c, id) ==
    LET S == [s EXCEPT !.resends = @ \ {<<c, id>>}] IN
    /\ <<c, id>> \in s.resends
    /\ s' = IF s.ctx[c].reqID = id /\ s.ctx[c].reqMsg # 0 /\ ~s.ctx[c].queued
            THEN enqueue(S, c) ELSE S
    /\ UNCHANGED <<closed, open, pst, nextID, call, ret, peer>>

(***************************************************************************)
(* Pipes.                                                                  *)
(***************************************************************************)
\* The pipe's transport takes the request that sendCtx gave it.
transmit(p) ==
    /\ s.busy[p] # 0
    /\ pst[p] = "open"
    /\ peer' = [peer EXCEPT ![p] = @ \cup {s.busy[p]}]
    /\ UNCHANGED <<s, closed, open, pst, nextID, call, ret>>

Reusable_PipeGone(p) == ~closed

Reusable(p) == ~closed /\ pst[p] = "open"

\* The rest of sendCtx, once SendMsg has returned.
sendCtx(p) ==
    LET S == [s EXCEPT !.busy[p] = 0] IN
    /\ s.busy[p] # 0
    /\ pst[p] = "closed" \/ s.busy[p] \in peer[p]
    /\ s' = IF Reusable(p) THEN ready(S, p) ELSE S
    /\ UNCHANGED <<closed, open, pst, nextID, call, ret, peer>>

\* s.readyQ with p swapped to the front, if it is there.
Prefer(Q, p) ==
    LET at(i) == IF Q[i] = p THEN Q[1] ELSE IF i = 1 THEN p ELSE Q[i] IN
    IF \E i \in DOMAIN Q : Q[i] = p THEN [i \in DOMAIN Q |-> at(i)] ELSE Q

answer(S, c, id) ==
    Broadcast([cancelSend(S, {c}) EXCEPT !.ctx[c] = [@ EXCEPT !.reqMsg = 0, !.repMsg = id,
                                                              !.receiveTimer = 0],
                                         !.ctxByID[id] = NoContext,
                                         !.resends = {r \in @ : r[1] # c}], {c})

\* A reply arrives; it may have been on its way when the pipe was removed.
receiver(p, id) ==
    LET S == [s EXCEPT !.readyQ = Prefer(@, p)] IN
    /\ id \in peer[p]
    /\ s' = IF s.ctxByID[id] = NoContext THEN S ELSE answer(S, s.ctxByID[id], id)
    /\ UNCHANGED <<closed, open, pst, nextID, call, ret, peer>>

AddPipe_NoSend(p) ==
    /\ pst[p] = "none"
    /\ ~closed
    /\ pst' = [pst EXCEPT ![p] = "open"]
    /\ s' = [s EXCEPT !.readyQ = Append(@, p)]
    /\ UNCHANGED <<closed, open, nextID, call, ret, peer>>

AddPipe(p) ==
    /\ pst[p] = "none"
    /\ ~closed
    /\ pst' = [pst EXCEPT ![p] = "open"]
    /\ s' = ready(s, p)
    /\ UNCHANGED <<closed, open, nextID, call, ret, peer>>

MayResend_Always(c) == TRUE

MayResend(c) == c \in Retry

reschedule_ByTimer(S, C) == cancelSend(S, C)

reschedule(S, C) ==
    [cancelSend(S, C) EXCEPT !.resends = @ \cup {<<c, S.ctx[c].reqID>> : c \in C}]

RemovePipe(p) ==
    LET last == \A q \in Pipes \ {p} : pst[q] # "open"
        alone == {c \in open : c \in FailNoPeers /\ last}
        orphans == {c \in open \ alone : s.ctx[c].lastPipe = p /\ s.ctx[c].reqMsg # 0}
        again == {c \in orphans : MayResend(c)}
        S == [s EXCEPT !.readyQ = Without(@, {p}),
                       !.ctx = [c \in Contexts |->
                                   IF c \in orphans THEN [s.ctx[c] EXCEPT !.lastPipe = NoPipe]
                                   ELSE s.ctx[c]]]
    IN  /\ pst[p] = "open"
        /\ pst' = [pst EXCEPT ![p] = "closed"]
        /\ s' = reschedule(cancel(S, alone \cup (orphans \ again)), again)
        /\ UNCHANGED <<closed, open, nextID, call, ret, peer>>

(***************************************************************************)
(* Contexts and the socket.                                                *)
(***************************************************************************)

closeAll(C) ==
    /\ open' = open \ C
    /\ s' = cancel([s EXCEPT !.ctx = [c \in Contexts |->
                        IF c \in C THEN [s.ctx[c] EXCEPT !.closed = TRUE] ELSE s.ctx[c]]], C)
    /\ UNCHANGED <<pst, nextID, call, ret, peer>>

CloseContext(c) == c \in open \ {Default} /\ ~s.ctx[c].closed /\ closeAll({c}) /\ UNCHANGED closed

Close == ~closed /\ closed' = TRUE /\ closeAll(open)

OpenContext(c) ==
    /\ ~closed
    /\ c \notin open /\ ~s.ctx[c].closed
    /\ open' = open \cup {c}
    /\ UNCHANGED <<s, closed, pst, nextID, call, ret, peer>>

Next ==
    \/ \E t \in Callers, c \in Contexts : SendMsg(t, c) \/ RecvMsg(t, c)
    \/ \E t \in Callers : sendWake(t) \/ recvWake(t)
    \/ \E c \in Contexts : fire(c) \/ CloseContext(c) \/ OpenContext(c)
    \/ \E op \in {"send", "recv"}, c \in Contexts, id \in Ids : expire(op, c, id)
    \/ \E c \in Contexts, id \in 0 .. MaxID : resendMessage(c, id)
    \/ \E p \in Pipes : transmit(p) \/ sendCtx(p) \/ AddPipe(p) \/ RemovePipe(p)
    \/ \E p \in Pipes, id \in Ids : receiver(p, id)
    \/ Close

Spec == Init /\ [][Next]_vars

(***************************************************************************)
(* What the scheduling guarantees: woken goroutines and goroutines that    *)
(* wait for the lock run, timers fire, and pipes take what is sent as long *)
(* as they are open.  Replies, pipes and calls may fail to come.           *)
(***************************************************************************)
Fairness ==
    /\ \A t \in Callers : WF_vars(sendWake(t)) /\ WF_vars(recvWake(t))
    /\ \A c \in Contexts :
           /\ WF_vars(fire(c))
           /\ \A id \in Ids : /\ WF_vars(expire("send", c, id))
                              /\ WF_vars(expire("recv", c, id))
                              /\ WF_vars(resendMessage(c, id))
    /\ \A p \in Pipes : WF_vars(transmit(p)) /\ WF_vars(sendCtx(p))

FairSpec == Spec /\ Fairness

(***************************************************************************)
(* Properties.                                                             *)
(***************************************************************************)
Distinct(Q) == \A i, j \in DOMAIN Q : Q[i] = Q[j] => i = j
Elements(Q) == {Q[i] : i \in DOMAIN Q}

\* A RecvMsg that returns a reply returns the reply to the request that it
\* waited for, however late or often replies to earlier requests arrive.
RepliesMatch == \A t \in Callers : ret[t].reply # 0 => ret[t].reply = ret[t].id

\* The queues are exact.  The ready queue holds the pipes that are open and idle,
\* each once, so that no pipe drops out of use while the socket is open; the send
\* queue holds the contexts that are marked as queued, each once (cancelSend
\* takes out one entry and trusts the mark), and each has a message, which send
\* clones without looking; and no handler leaves both non-empty.
QueuesSound ==
    /\ Distinct(s.readyQ) /\ Distinct(s.sendQ)
    /\ \A p \in Elements(s.readyQ) : pst[p] = "open" /\ s.busy[p] = 0
    /\ ~closed => \A p \in Pipes : pst[p] = "open" => p \in Elements(s.readyQ) \/ s.busy[p] # 0
    /\ Elements(s.sendQ) = {c \in Contexts : s.ctx[c].queued}
    /\ \A c \in Contexts : s.ctx[c].queued => s.ctx[c].sendMsg # 0 \/ s.ctx[c].reqMsg # 0
    /\ s.sendQ = <<>> \/ s.readyQ = <<>>

\* The index of outstanding requests holds exactly the current request of each
\* context that has one at a peer, so that a reply to anything else is dropped.
IndexExact ==
    \A c \in Contexts, id \in Ids :
        s.ctxByID[id] = c <=> s.ctx[c].reqID = id /\ s.ctx[c].reqMsg = id

\* A request that was sent and has no reply yet is queued, or will be sent again
\* when a timer fires, or may not be sent again and its pipe is still there.
NotForgotten ==
    \A c \in open : s.ctx[c].reqMsg # 0 =>
        \/ s.ctx[c].queued
        \/ <<c, s.ctx[c].reqID>> \in s.resends
        \/ c \notin Retry /\ s.ctx[c].lastPipe # NoPipe /\ pst[s.ctx[c].lastPipe] = "open"

\* Without a retry time a request reaches one peer at most: RemovePipe gives it
\* up because it is "not necessarily idempotent".
SentToOnePeer ==
    \A r \in s.sent : r[1] \notin Retry => Cardinality({p \in Pipes : r[2] \in peer[p]}) <= 1

\* A call that should stop waiting has been woken; and a SendMsg that waits is in
\* the send queue, since otherwise no pipe can take its message.
NoLostWakeup ==
    \A t \in Callers \ s.woken :
        LET c == s.ctx[call[t].ctx] IN
        /\ call[t].op = "send" => c.sendMsg = call[t].id /\ ~call[t].expired /\ ~c.closed
                                  /\ ~NoPeers(call[t].ctx) /\ c.queued
        /\ call[t].op = "recv" => c.reqID = call[t].id /\ c.repMsg = 0

\* With a send deadline SendMsg returns.
SendReturns ==
    \A t \in Callers : (call[t].op = "send" /\ SendExpire[call[t].ctx] > 0) ~> call[t].op # "send"

\* A call returns: SendMsg and RecvMsg when they have a deadline, and every call
\* when the socket is closed.
CallsReturn ==
    /\ SendReturns
    /\ \A t \in Callers : (call[t].op = "recv" /\ ReceiveExpire[call[t].ctx] > 0) ~> call[t].op # "recv"
    /\ closed ~> \A t \in Callers : call[t] = Idle

\* A queued request is sent or given up, unless the last pipe goes away.
QueuedIsServed ==
    \A c \in Contexts :
        s.ctx[c].queued ~> (~s.ctx[c].queued \/ \A p \in Pipes : pst[p] # "open")

(***************************************************************************)
(* What the proofs need besides.  The conjuncts about s are predicates of  *)
(* a socket state S, since a handler goes through several of them; E is    *)
(* what the handler has not yet put right.                                 *)
(***************************************************************************)
CtxState ==
    [reqID : 0 .. MaxID, sendMsg : 0 .. MaxID, reqMsg : 0 .. MaxID, repMsg : 0 .. MaxID,
     lastPipe : Pipes \cup {NoPipe}, receiveWait : BOOLEAN, queued : BOOLEAN,
     closed : BOOLEAN, sendTimer : 0 .. MaxID, receiveTimer : 0 .. MaxID]

SockState ==
    [ctx : [Contexts -> CtxState], sendQ : Seq(Contexts), readyQ : Seq(Pipes),
     ctxByID : [0 .. MaxID -> Contexts \cup {NoContext}], busy : [Pipes -> 0 .. MaxID],
     resends : SUBSET (Contexts \X (0 .. MaxID)),
     fired : SUBSET ({"send", "recv"} \X Contexts \X Ids),
     woken : SUBSET Callers, sent : SUBSET (Contexts \X Ids)]

CallState ==
    [op : {"idle", "send", "recv"}, ctx : Contexts \cup {NoContext}, id : 0 .. MaxID,
     expired : BOOLEAN]

Errors == {"none", "nil", "ErrClosed", "ErrNoPeers", "ErrSendTimeout", "ErrRecvTimeout",
           "ErrProtoState", "ErrCanceled"}

ReqTypeOK ==
    /\ s \in SockState
    /\ closed \in BOOLEAN
    /\ open \in SUBSET Contexts
    /\ pst \in [Pipes -> {"none", "open", "closed"}]
    /\ nextID \in 0 .. MaxID
    /\ call \in [Callers -> CallState]
    /\ ret \in [Callers -> [id : 0 .. MaxID, reply : 0 .. MaxID, err : Errors]]
    /\ peer \in [Pipes -> SUBSET Ids]

\* The messages of a context x belong to its current request, and it has one of
\* them at a time; n is the last request ID.
OneRequest(x, n) ==
    /\ x.reqID <= n /\ x.sendMsg <= n
    /\ x.reqMsg # 0 => x.reqMsg = x.reqID
    /\ x.repMsg # 0 => x.repMsg = x.reqID /\ x.reqMsg = 0
    /\ x.sendMsg # 0 => x.reqMsg = 0 /\ x.repMsg = 0
    /\ x.queued => x.reqID # 0 /\ x.reqID = IF x.sendMsg # 0 THEN x.sendMsg ELSE x.reqMsg

\* Two contexts never have the same request.
Requests(S, n) ==
    /\ \A c \in Contexts : OneRequest(S.ctx[c], n)
    /\ \A c, d \in Contexts : S.ctx[c].reqID # 0 /\ S.ctx[c].reqID = S.ctx[d].reqID => c = d
    /\ \A c, d \in Contexts : S.ctx[c].sendMsg # 0 /\ S.ctx[c].sendMsg = S.ctx[d].sendMsg => c = d

Index(S) ==
    \A c \in Contexts, id \in Ids :
        S.ctxByID[id] = c <=> S.ctx[c].reqID = id /\ S.ctx[c].reqMsg = id

Queues(S, ps, cl, E) ==
    /\ Distinct(S.readyQ) /\ Distinct(S.sendQ)
    /\ \A p \in Elements(S.readyQ) : ps[p] = "open" /\ S.busy[p] = 0
    /\ \A p \in Pipes : ps[p] = "none" => S.busy[p] = 0
    /\ ~cl => \A p \in Pipes \ E : ps[p] = "open" => p \in Elements(S.readyQ) \/ S.busy[p] # 0
    /\ Elements(S.sendQ) = {c \in Contexts : S.ctx[c].queued}
    /\ S.sendQ = <<>> \/ S.readyQ = <<>>

\* Only requests with a retry time are sent again, and a context that is not open
\* has none outstanding.
Remembered(S, op, ps, E) ==
    /\ \A r \in S.resends : r[1] \in Retry
    /\ \A c \in Contexts \ op : S.ctx[c].reqMsg = 0 /\ ~S.ctx[c].queued
    /\ \A c \in op \ E : S.ctx[c].reqMsg # 0 =>
           \/ S.ctx[c].queued
           \/ <<c, S.ctx[c].reqID>> \in S.resends
           \/ c \notin Retry /\ S.ctx[c].lastPipe # NoPipe /\ ps[S.ctx[c].lastPipe] = "open"

At(S, pr, p, m) == S.busy[p] = m \/ m \in pr[p]

\* A message was handed to a pipe by the context whose request it is, for the first
\* time if sendMsg holds it, and once if the context has no retry time.
History(S, n, pr) ==
    /\ \A r \in S.sent : r[2] <= n
    /\ \A c \in Contexts : S.ctx[c].reqMsg # 0 => <<c, S.ctx[c].reqMsg>> \in S.sent
    /\ \A c, d \in Contexts : <<d, S.ctx[c].sendMsg>> \notin S.sent
    /\ \A c, d \in Contexts, m \in Ids : <<c, m>> \in S.sent /\ <<d, m>> \in S.sent => c = d
    /\ \A p \in Pipes, m \in Ids : At(S, pr, p, m) => \E c \in Contexts : <<c, m>> \in S.sent
    /\ \A c \in Contexts \ Retry : S.ctx[c].queued => S.ctx[c].sendMsg # 0
    /\ \A c \in Contexts \ Retry, m \in Ids : <<c, m>> \in S.sent =>
           \A p, q \in Pipes : At(S, pr, p, m) /\ At(S, pr, q, m) => p = q

\* A caller works on one of its contexts.  Nobody else makes a request there: the
\* request is the caller's, or it was cancelled.
Mine(t) ==
    /\ call[t].op # "idle" => call[t].ctx \in Uses[t] /\ call[t].id # 0 /\ call[t].id <= nextID
    /\ call[t].op = "idle" => call[t] = Idle
    /\ call[t].op = "recv" => s.ctx[call[t].ctx].reqID \in {0, call[t].id}

ReqInv ==
    /\ ReqTypeOK
    /\ Requests(s, nextID) /\ Index(s)
    /\ Queues(s, pst, closed, {})
    /\ Remembered(s, open, pst, {}) /\ (closed => open = {})
    /\ History(s, nextID, peer)
    /\ \A t \in Callers : Mine(t)
    /\ RepliesMatch

\* A SendMsg that has not been told to stop is in the send queue; only its own
\* deadline, which is not the one of a RecvMsg, can take it out.
Queued(t) ==
    LET c == call[t].ctx IN
    call[t].op = "send" =>
        /\ s.ctx[c].sendMsg = call[t].id /\ ~call[t].expired /\ ~s.ctx[c].closed => s.ctx[c].queued
        /\ s.ctx[c].receiveTimer # call[t].id
        /\ <<"recv", c, call[t].id>> \notin s.fired

\* A receive deadline belongs to a request that was made.
Timers ==
    /\ \A c \in Contexts : s.ctx[c].receiveTimer <= nextID
    /\ \A f \in s.fired : f[1] = "recv" => f[3] <= nextID

WakeInv == ReqInv /\ NoLostWakeup /\ Timers /\ \A t \in Callers : Queued(t)
=============================================================================
