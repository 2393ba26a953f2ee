---------------------------- MODULE StreamProofs ----------------------------
(***************************************************************************)
(* Proofs about the stream transports (tcp, tls+tcp, unix, winpipe, socket *)
(* and ws) with any number of connections: Close of the listener leaves    *)
(* connections that were handed out alone, and the listener implements the *)
(* safety part of the contract of TranListener.                            *)
(***************************************************************************)
EXTENDS Stream, TLAPS

\* What an observer of the listener sees of a connection in state r, and what
\* that may become in one step.
Fate(r, h) ==
    IF r.st \in {"none", "fd"} THEN "none"
    ELSE IF r.st = "given" THEN "accepted"
    ELSE IF r.st = "failed" \/ (h /\ ~r.sock) THEN "gone" ELSE "pending"

Onward(from, to) ==
    \/ from = to
    \/ from = "none" /\ to \in {"pending", "gone"}
    \/ from = "pending" /\ to = "gone"

\* A step is allowed to hand out x, if the listener is not closed.
Allowed(c, x) ==
    \/ conf.side[c] # "listener"
    \/ Onward(Fate(con[c], hsclosed), Fate(con'[c], hsclosed'))
    \/ /\ c = x /\ StreamShut = {}
       /\ Fate(con[c], hsclosed) = "pending" /\ Fate(con'[c], hsclosed') = "accepted"

Contract ==
    /\ conf' = conf /\ (closeq => closeq') /\ (hsclosed => hsclosed')
    /\ \E x : \A c \in Streams : Allowed(c, x)

\* The part of the invariant that is about connections.
Conns == con \in [Streams -> ConState] /\ \A c \in Streams : ConOK(c, con[c], hsclosed)

Becomes(c, r) ==
    /\ con' \in [Streams -> ConState] /\ con'[c] = r
    /\ \A d \in Streams \ {c} : con'[d] = con[d]

LEMMA InvIs ==
  ASSUME StreamInv
  PROVE  /\ Conns /\ Handshaking /\ Pending /\ AcceptOK
         /\ conf \in StreamRuns /\ closeq \in BOOLEAN /\ hsclosed \in BOOLEAN /\ running \in BOOLEAN
         /\ workq \in SUBSET Streams /\ doneq \in [Sides -> Seq(Result)]
         /\ conf.side \in [Streams -> Sides] /\ Tran \in Handshaken \cup {"ws"}
         /\ NoStream \notin Streams
  BY StreamAssumption DEF StreamInv, StreamTypeOK, Conns, Tran

LEMMA StageIs ==
  ASSUME con \in [Streams -> ConState], NEW c \in Streams, NEW st,
         st \in Alive \cup {"tls", "tlshs", "bad", "given", "failed"}, Stage(c, st)
  PROVE  \E r \in ConState : /\ Becomes(c, r) /\ r.st = st /\ r.sock = con[c].sock
                             /\ r.pcl = con[c].pcl /\ r.bye = con[c].bye
  <1>1. PICK q \in ConState : q = con[c]
    OBVIOUS
  <1>2. PICK r : r = [q EXCEPT !.st = st]
    BY Zenon
  <1>3. r \in ConState /\ r.st = st /\ r.sock = q.sock /\ r.pcl = q.pcl /\ r.bye = q.bye
    BY <1>2 DEF ConState
  <1>4. con' = [con EXCEPT ![c] = r]
    BY <1>1, <1>2 DEF Stage
  <1>5. Becomes(c, r)
    BY <1>3, <1>4 DEF Becomes
  <1> QED
    BY <1>1, <1>3, <1>5

LEMMA ClosedIs ==
  ASSUME NEW r \in ConState
  PROVE  Closed(r) \in ConState /\ Closed(r).st = r.st /\ Closed(r).sock = FALSE /\ Closed(r).bye = r.bye
  BY Zenon DEF Closed, ConState

LEMMA CloseConnsIs ==
  ASSUME con \in [Streams -> ConState], NEW C, NEW st,
         st \in Alive \cup {"tls", "tlshs", "bad", "given", "failed"}, con' = CloseConns(C, st)
  PROVE  /\ con' \in [Streams -> ConState]
         /\ \A c \in Streams : IF c \in C THEN con'[c].st = st /\ con'[c].sock = FALSE ELSE con'[c] = con[c]
  <1>1. ASSUME NEW c \in Streams
        PROVE  \E r \in ConState : r = Closed([con[c] EXCEPT !.st = st]) /\ r.st = st /\ r.sock = FALSE
    <2>1. PICK q \in ConState : q = con[c]
      OBVIOUS
    <2>2. PICK p : p = [q EXCEPT !.st = st]
      BY Zenon
    <2>3. p \in ConState /\ p.st = st
      BY <2>2 DEF ConState
    <2> QED
      BY <2>1, <2>2, <2>3, ClosedIs, Zenon
  <1>2. \A c \in Streams : con'[c] = IF c \in C THEN Closed([con[c] EXCEPT !.st = st]) ELSE con[c]
    BY DEF CloseConns
  <1>3. con' = [c \in Streams |-> IF c \in C THEN Closed([con[c] EXCEPT !.st = st]) ELSE con[c]]
    BY DEF CloseConns
  <1> QED
    BY <1>1, <1>2, <1>3, Zenon

LEMMA FailIs ==
  ASSUME con \in [Streams -> ConState], NEW c \in Streams, NEW st \in {"failed", "queued"},
         con' = CloseConns({c}, st)
  PROVE  \E r \in ConState : Becomes(c, r) /\ r.st = st /\ r.sock = FALSE
  <1>1. /\ con' \in [Streams -> ConState]
        /\ \A d \in Streams : IF d \in {c} THEN con'[d].st = st /\ con'[d].sock = FALSE ELSE con'[d] = con[d]
    BY CloseConnsIs, Zenon DEF Alive
  <1> QED
    BY <1>1 DEF Becomes

LEMMA InvNext ==
  ASSUME Conns', Handshaking', Pending', AcceptOK', conf' \in StreamRuns,
         closeq' \in BOOLEAN, hsclosed' \in BOOLEAN, running' \in BOOLEAN,
         workq' \in SUBSET Streams, doneq' \in [Sides -> Seq(Result)]
  PROVE  StreamInv'
  BY DEF StreamInv, StreamTypeOK, Conns

LEMMA EmptyPending ==
  ASSUME pend' = <<>>
  PROVE  Pending'
  <1>1. <<>> \in Seq(Streams) /\ DOMAIN <<>> = {}
    OBVIOUS
  <1> QED
    BY <1>1 DEF Pending

\* A step that leaves the connections and the handshakers alone.
LEMMA Quiet ==
  ASSUME StreamInv, conf' = conf, con' = con, hsclosed' = hsclosed, workq' = workq, doneq' = doneq,
         closeq' \in BOOLEAN, running' \in BOOLEAN, closeq => closeq',
         pend' = pend \/ pend' = <<>> \/ Tran \notin {"socket", "ws"},
         Tran = "ws" => loop' = loop, AcceptOK'
  PROVE  StreamInv' /\ Contract
  <1>1. /\ Conns /\ Handshaking /\ Pending /\ conf \in StreamRuns /\ hsclosed \in BOOLEAN
        /\ workq \in SUBSET Streams /\ doneq \in [Sides -> Seq(Result)]
    BY InvIs
  <1>2. Conns'
    BY <1>1 DEF Conns, ConOK, Tran
  <1>3. Handshaking'
    BY <1>1 DEF Handshaking, Tran
  <1>4. Pending'
    <2>1. CASE pend' = pend \/ Tran \notin {"socket", "ws"}
      BY <1>1, <2>1 DEF Pending, Tran
    <2>2. CASE pend' = <<>>
      BY <2>2, EmptyPending
    <2> QED
      BY <2>1, <2>2
  <1>5. Contract
    BY DEF Contract, Allowed, Onward
  <1> QED
    BY <1>1, <1>2, <1>3, <1>4, <1>5, InvNext

\* What the goroutines of a connection leave alone.
Frame ==
    /\ conf' = conf /\ lpc' = lpc /\ running' = running /\ cpc' = cpc /\ closeq' = closeq
    /\ hsclosed' = hsclosed /\ (Tran = "ws" => loop' = loop)
    /\ acc' \in {"check", "asleep"} => acc \in {"check", "asleep"}

LEMMA FrameIs ==
  ASSUME StreamInv, Frame
  PROVE  /\ AcceptOK' /\ conf' = conf /\ conf' \in StreamRuns /\ closeq' \in BOOLEAN
         /\ hsclosed' \in BOOLEAN /\ running' \in BOOLEAN /\ Tran' = Tran
  BY InvIs DEF Frame, AcceptOK, Tran

LEMMA ConnsOne ==
  ASSUME Conns, NEW c \in Streams, NEW r \in ConState, Becomes(c, r), conf' = conf, hsclosed' = hsclosed,
         ConOK(c, r, hsclosed)
  PROVE  Conns'
  <1>1. con' \in [Streams -> ConState] /\ con'[c] = r /\ \A d \in Streams \ {c} : con'[d] = con[d]
    BY DEF Becomes
  <1>2. \A d \in Streams : ConOK(d, con'[d], hsclosed)
    BY <1>1 DEF Conns
  <1>3. \A d \in Streams : ConOK(d, con[d], hsclosed)'
    BY <1>2 DEF ConOK, Tran
  <1> QED
    BY <1>1, <1>3 DEF Conns

LEMMA ContractOne ==
  ASSUME NEW c \in Streams, NEW r, Becomes(c, r), Frame,
         \/ conf.side[c] # "listener"
         \/ Onward(Fate(con[c], hsclosed), Fate(r, hsclosed))
         \/ /\ StreamShut = {} /\ Fate(con[c], hsclosed) = "pending" /\ Fate(r, hsclosed) = "accepted"
  PROVE  Contract
  <1>1. con'[c] = r /\ \A d \in Streams \ {c} : con'[d] = con[d]
    BY DEF Becomes
  <1>2. hsclosed' = hsclosed /\ conf' = conf /\ closeq' = closeq
    BY DEF Frame
  <1>3. \A d \in Streams \ {c} : Allowed(d, c)
    BY <1>1, <1>2 DEF Allowed, Onward
  <1>4. Allowed(c, c)
    BY <1>1, <1>2 DEF Allowed
  <1> QED
    BY <1>2, <1>3, <1>4 DEF Contract

\* A connection moves that the listener does not keep itself.
LEMMA PendingOne ==
  ASSUME Pending, NEW c \in Streams, NEW r, Becomes(c, r), conf' = conf, pend' = pend,
         con[c].st # IF Tran = "ws" THEN "queued" ELSE "fd"
  PROVE  Pending'
  <1>1. \A d \in Streams \ {c} : con'[d] = con[d]
    BY DEF Becomes
  <1>2. Tran' = Tran
    BY DEF Tran
  <1>3. ASSUME Tran \in {"socket", "ws"}, NEW i \in DOMAIN pend PROVE con'[pend[i]] = con[pend[i]]
    <2>1. pend \in Seq(Streams) /\ con[pend[i]].st = IF Tran = "ws" THEN "queued" ELSE "fd"
      BY <1>3 DEF Pending
    <2>2. pend[i] \in Streams /\ pend[i] # c
      BY <2>1
    <2> QED
      BY <1>1, <2>2
  <1> QED
    BY <1>2, <1>3 DEF Pending

\* One connection moves that no queue holds.
LEMMA OneMoves ==
  ASSUME StreamInv, NEW c \in Streams, NEW r \in ConState, Becomes(c, r), Frame,
         ConOK(c, r, hsclosed), con[c].st \notin {"queued", "fd"},
         pend' = pend \/ Tran \notin {"socket", "ws"}, doneq' = doneq,
         workq' \in SUBSET (workq \cup {c}), c \in workq' => r.st \in InWork,
         conf.side[c] # "listener" \/ Onward(Fate(con[c], hsclosed), Fate(r, hsclosed))
  PROVE  StreamInv' /\ Contract
  <1>1. /\ Conns /\ Handshaking /\ Pending /\ workq \in SUBSET Streams
        /\ doneq \in [Sides -> Seq(Result)]
    BY InvIs
  <1>2. /\ AcceptOK' /\ conf' = conf /\ conf' \in StreamRuns /\ closeq' \in BOOLEAN
        /\ hsclosed' \in BOOLEAN /\ running' \in BOOLEAN /\ Tran' = Tran /\ hsclosed' = hsclosed
        /\ (Tran = "ws" => loop' = loop)
    BY FrameIs DEF Frame
  <1>3. con'[c] = r /\ \A d \in Streams \ {c} : con'[d] = con[d]
    BY DEF Becomes
  <1>4. Conns'
    BY <1>1, <1>2, ConnsOne
  <1>5. Handshaking'
    <2>1. ASSUME NEW s \in Sides, NEW i \in DOMAIN doneq[s], doneq[s][i].c # NoStream
          PROVE  con'[doneq[s][i].c].st = "queued"
      <3>1. doneq[s][i] \in Result
        BY <1>1
      <3>2. doneq[s][i].c \in Streams
        BY <2>1, <3>1 DEF Result
      <3>3. con[doneq[s][i].c].st = "queued"
        BY <1>1, <2>1 DEF Handshaking
      <3> QED
        BY <1>3, <3>2, <3>3
    <2>2. \A d \in workq' : con'[d].st \in InWork
      BY <1>1, <1>3 DEF Handshaking
    <2> QED
      BY <1>1, <1>2, <2>1, <2>2 DEF Handshaking
  <1>6. Pending'
    BY <1>1, <1>2, <1>3 DEF Pending
  <1>7. Contract
    BY ContractOne
  <1> QED
    BY <1>1, <1>2, <1>4, <1>5, <1>6, <1>7, InvNext

LEMMA UnchFrame ==
  ASSUME conf' = conf, UnchL, UnchC, acc' \in {acc, Woken(acc)}, hsclosed' = hsclosed
  PROVE  Frame
  BY DEF UnchL, UnchC, Frame, Woken

\* A connection goes on to another stage of its negotiation.
LEMMA StageMoves ==
  ASSUME StreamInv, NEW c \in Streams, NEW st \in {"tls", "tlshs", "made", "work", "read", "ok", "bad"},
         Stage(c, st), Frame, con[c].st \in {"none", "tls", "tlshs", "made", "work", "read", "ok"},
         st \in {"tls", "tlshs"} => Tran = "tls", Tran = "ws" => st = "made",
         pend' = pend \/ Tran \notin {"socket", "ws"}, doneq' = doneq,
         workq' \in SUBSET (workq \cup {c}), c \in workq' => st \in InWork
  PROVE  StreamInv' /\ Contract
  <1>1. Conns /\ hsclosed \in BOOLEAN
    BY InvIs
  <1>2. PICK r \in ConState : Becomes(c, r) /\ r.st = st /\ r.sock = con[c].sock
    BY <1>1, StageIs DEF Conns, Alive
  <1>3. ConOK(c, con[c], hsclosed)
    BY <1>1 DEF Conns
  <1>4. ConOK(c, r, hsclosed)
    BY <1>2, <1>3 DEF ConOK, Alive
  <1>5. Onward(Fate(con[c], hsclosed), Fate(r, hsclosed))
    BY <1>2 DEF Onward, Fate
  <1> QED
    BY <1>2, <1>4, <1>5, OneMoves

LEMMA FailMoves ==
  ASSUME StreamInv, NEW c \in Streams, Fail(c), Frame,
         con[c].st \in {"none", "tls", "tlshs", "made"},
         pend' = pend \/ Tran \notin {"socket", "ws"}, doneq' = doneq, workq' = workq
  PROVE  StreamInv' /\ Contract
  <1>1. Conns /\ Handshaking /\ workq \in SUBSET Streams
    BY InvIs
  <1>2. PICK r \in ConState : Becomes(c, r) /\ r.st = "failed" /\ r.sock = FALSE
    BY <1>1, FailIs, Zenon DEF Conns, Fail
  <1>3. ConOK(c, r, hsclosed)
    BY <1>2 DEF ConOK, Alive
  <1>4. Onward(Fate(con[c], hsclosed), Fate(r, hsclosed))
    BY <1>2 DEF Onward, Fate
  <1>5. c \notin workq
    BY <1>1 DEF Handshaking, InWork
  <1>6. workq' \in SUBSET (workq \cup {c})
    OBVIOUS
  <1> QED
    BY <1>2, <1>3, <1>4, <1>5, <1>6, OneMoves

----------------------------------------------------------------------------
\* The handshake.
LEMMA hsReadStep ==
  ASSUME StreamInv, NEW c \in Streams, hsRead(c)
  PROVE  StreamInv' /\ Contract
  <1>1. con[c].st = "work" /\ Stage(c, "read") /\ conf' = conf /\ pend' = pend
        /\ doneq' = doneq /\ workq' = workq
    BY DEF hsRead, UnchH
  <1>2. Frame
    BY UnchFrame DEF hsRead, UnchH, UnchA
  <1>3. Tran # "ws" /\ workq' \in SUBSET (workq \cup {c})
    BY <1>1, InvIs DEF Conns, ConOK
  <1> QED
    BY <1>1, <1>2, <1>3, StageMoves DEF InWork

LEMMA hsFinishStep ==
  ASSUME StreamInv, NEW c \in Streams, hsFinish(c)
  PROVE  StreamInv' /\ Contract
  <1>1. PICK st \in {"bad", "ok"} : Stage(c, st)
    BY DEF hsFinish
  <1>2. con[c].st = "read" /\ conf' = conf /\ pend' = pend /\ doneq' = doneq /\ workq' = workq
    BY DEF hsFinish, UnchH
  <1>3. Frame
    BY UnchFrame DEF hsFinish, UnchH, UnchA
  <1>4. Tran # "ws" /\ workq' \in SUBSET (workq \cup {c})
    BY <1>2, InvIs DEF Conns, ConOK
  <1> QED
    BY <1>1, <1>2, <1>3, <1>4, StageMoves DEF InWork

LEMMA BreakStep ==
  ASSUME StreamInv, NEW c \in Streams, hsReadFails(c) \/ hsTimeout(c)
  PROVE  StreamInv' /\ Contract
  <1>1. Conns
    BY InvIs
  <1>2. con[c].st = "work" /\ con' = [con EXCEPT ![c].st = "bad", ![c].sock = FALSE]
        /\ conf' = conf /\ pend' = pend /\ doneq' = doneq /\ workq' = workq
    BY DEF hsReadFails, hsTimeout, UnchH
  <1>3. Frame
    BY UnchFrame DEF hsReadFails, hsTimeout, UnchH, UnchA
  <1>4. PICK r \in ConState : Becomes(c, r) /\ r.st = "bad" /\ r.sock = FALSE
    <2>1. PICK q \in ConState : q = con[c]
      BY <1>1 DEF Conns
    <2>2. PICK p : p = [q EXCEPT !.st = "bad"]
      BY Zenon
    <2>3. p \in ConState /\ p.st = "bad"
      BY <2>2 DEF ConState
    <2>4. PICK r : r = [p EXCEPT !.sock = FALSE]
      BY Zenon
    <2>5. r \in ConState /\ r.st = "bad" /\ r.sock = FALSE
      BY <2>3, <2>4, Zenon DEF ConState
    <2>6. con' = [con EXCEPT ![c] = r]
      BY <1>1, <1>2, <2>1, <2>2, <2>4, Zenon DEF Conns
    <2> QED
      BY <1>1, <2>5, <2>6 DEF Conns, Becomes
  <1>5. ConOK(c, con[c], hsclosed)
    BY <1>1 DEF Conns
  <1>6. ConOK(c, r, hsclosed)
    BY <1>2, <1>4, <1>5 DEF ConOK, Alive
  <1>7. Onward(Fate(con[c], hsclosed), Fate(r, hsclosed))
    BY <1>2, <1>4 DEF Onward, Fate
  <1>8. workq' \in SUBSET (workq \cup {c})
    BY <1>2
  <1> QED
    BY <1>2, <1>3, <1>4, <1>6, <1>7, <1>8, OneMoves DEF InWork

\* Start, for the caller of it.
LEMMA StartMoves ==
  ASSUME StreamInv, NEW c \in Streams, hsStart(c), Frame, Tran # "ws", pend' = pend, doneq' = doneq
  PROVE  StreamInv' /\ Contract
  <1>1. con[c].st = "made" /\ Stage(c, "work") /\ workq' \in SUBSET (workq \cup {c})
    BY DEF hsStart
  <1> QED
    BY <1>1, StageMoves DEF InWork

LEMMA AppendIs ==
  ASSUME NEW S, NEW Q \in Seq(S), NEW x \in S
  PROVE  /\ Append(Q, x) \in Seq(S) /\ DOMAIN Append(Q, x) = DOMAIN Q \cup {Len(Q) + 1}
         /\ Append(Q, x)[Len(Q) + 1] = x /\ Len(Q) + 1 \notin DOMAIN Q
         /\ \A i \in DOMAIN Q : Append(Q, x)[i] = Q[i]
  OBVIOUS

LEMMA TailIs ==
  ASSUME NEW S, NEW Q \in Seq(S), Q # <<>>
  PROVE  /\ Tail(Q) \in Seq(S) /\ Head(Q) = Q[1] /\ 1 \in DOMAIN Q /\ Head(Q) \in S
         /\ \A i \in DOMAIN Tail(Q) : i \in Nat /\ i + 1 \in DOMAIN Q /\ i + 1 # 1 /\ Tail(Q)[i] = Q[i + 1]
  OBVIOUS

\* A queue of results is sound: see Handshaking.
ResultsOK(s, Q, cn) ==
    \A i \in DOMAIN Q :
        /\ Q[i].e = "nil" => Q[i].c # NoStream
        /\ Q[i].c # NoStream => cn[Q[i].c].st = "queued" /\ conf.side[Q[i].c] = s
        /\ \A j \in DOMAIN Q : Q[i].c # NoStream /\ Q[i].c = Q[j].c => i = j

LEMMA HandshakingIs ==
  ASSUME StreamInv
  PROVE  \A s \in Sides : ResultsOK(s, doneq[s], con)
  BY InvIs DEF Handshaking, ResultsOK

LEMMA HandshakingNext ==
  ASSUME conf' = conf, \A s \in Sides : ResultsOK(s, doneq'[s], con'),
         \A c \in workq' : con'[c].st \in InWork, Tran # "ws"
  PROVE  Handshaking'
  <1>1. Tran' = Tran
    BY DEF Tran
  <1> QED
    BY <1>1 DEF Handshaking, ResultsOK

\* The handshakers of a ws endpoint hold nothing.
LEMMA QuietHandshaking ==
  ASSUME workq' = {}, ~hsclosed', loop' = "off", \A s \in Sides : doneq'[s] = <<>>
  PROVE  Handshaking'
  <1>1. \A s \in Sides : DOMAIN doneq'[s] = {}
    OBVIOUS
  <1> QED
    BY <1>1, Zenon DEF Handshaking

\* A queue is sound if a connection moves that it does not hold.
LEMMA ResultsKept ==
  ASSUME NEW s, NEW Q \in Seq(Result), NEW c \in Streams, NEW r, Becomes(c, r),
         ResultsOK(s, Q, con), \A i \in DOMAIN Q : Q[i].c # c
  PROVE  ResultsOK(s, Q, con')
  <1>1. \A d \in Streams \ {c} : con'[d] = con[d]
    BY DEF Becomes
  <1>2. \A i \in DOMAIN Q : Q[i] \in Result
    OBVIOUS
  <1>3. \A i \in DOMAIN Q : Q[i].c # NoStream => Q[i].c \in Streams
    BY <1>2 DEF Result
  <1> QED
    BY <1>1, <1>3 DEF ResultsOK

LEMMA ResultsAppend ==
  ASSUME NEW s, NEW Q \in Seq(Result), NEW x \in Result, NEW cn, ResultsOK(s, Q, cn),
         x.e = "nil" => x.c # NoStream,
         x.c # NoStream => cn[x.c].st = "queued" /\ conf.side[x.c] = s,
         \A i \in DOMAIN Q : x.c # NoStream => Q[i].c # x.c
  PROVE  ResultsOK(s, Append(Q, x), cn)
  <1>1. PICK R : R = Append(Q, x)
    BY Zenon
  <1>2. PICK n : n = Len(Q) + 1
    OBVIOUS
  <1>3. DOMAIN R = DOMAIN Q \cup {n} /\ R[n] = x /\ n \notin DOMAIN Q /\ \A i \in DOMAIN Q : R[i] = Q[i]
    BY <1>1, <1>2, AppendIs
  <1>4. ResultsOK(s, R, cn)
    BY <1>3 DEF ResultsOK
  <1> QED
    BY <1>1, <1>4

LEMMA ResultsTail ==
  ASSUME NEW s, NEW Q \in Seq(Result), Q # <<>>, NEW cn, ResultsOK(s, Q, cn)
  PROVE  /\ ResultsOK(s, Tail(Q), cn)
         /\ \A i \in DOMAIN Tail(Q) : Head(Q).c # NoStream => Tail(Q)[i].c # Head(Q).c
  <1>1. PICK R : R = Tail(Q)
    BY Zenon
  <1>2. /\ Head(Q) = Q[1] /\ 1 \in DOMAIN Q
        /\ \A i \in DOMAIN R : i \in Nat /\ i + 1 \in DOMAIN Q /\ i + 1 # 1 /\ R[i] = Q[i + 1]
    BY <1>1, TailIs
  <1>3. ResultsOK(s, R, cn)
    <2>1. \A i, j \in DOMAIN R : i + 1 = j + 1 => i = j
      BY <1>2
    <2> QED
      BY <1>2, <2>1 DEF ResultsOK
  <1>4. \A i \in DOMAIN R : Q[1].c # NoStream => R[i].c # Q[1].c
    BY <1>2 DEF ResultsOK
  <1> QED
    BY <1>1, <1>2, <1>3, <1>4

\* The worker queues the result of connection c, which then is in state r.
LEMMA Published ==
  ASSUME StreamInv, NEW c \in Streams, NEW r \in ConState, Becomes(c, r), Frame,
         NEW x \in Result, Publish(c, x), workq' = workq \ {c}, pend' = pend,
         con[c].st \in {"ok", "bad"}, x.e = "nil" => x.c # NoStream, x.c \in {c, NoStream},
         x.c = c => r.st = "queued", ConOK(c, r, hsclosed),
         Onward(Fate(con[c], hsclosed), Fate(r, hsclosed))
  PROVE  StreamInv' /\ Contract
  <1>1. /\ Conns /\ Handshaking /\ Pending /\ workq \in SUBSET Streams /\ NoStream \notin Streams
        /\ doneq \in [Sides -> Seq(Result)] /\ conf.side \in [Streams -> Sides]
    BY InvIs
  <1>2. /\ AcceptOK' /\ conf' = conf /\ conf' \in StreamRuns /\ closeq' \in BOOLEAN
        /\ hsclosed' \in BOOLEAN /\ running' \in BOOLEAN /\ Tran' = Tran /\ hsclosed' = hsclosed
    BY FrameIs DEF Frame
  <1>3. con'[c] = r /\ \A d \in Streams \ {c} : con'[d] = con[d]
    BY DEF Becomes
  <1>4. Conns'
    BY <1>1, <1>2, ConnsOne
  <1>5. Tran # "ws"
    BY <1>1, Zenon DEF Conns, ConOK
  <1>6. PICK side \in Sides : side = conf.side[c]
    BY <1>1
  <1>7. PICK R : R = Append(doneq[side], x)
    BY Zenon
  <1>8. R \in Seq(Result)
    BY <1>1, <1>7, AppendIs
  <1>9. doneq' = [doneq EXCEPT ![side] = R]
    BY <1>6, <1>7 DEF Publish
  <1>10. doneq' \in [Sides -> Seq(Result)] /\ doneq'[side] = R /\ \A s \in Sides \ {side} : doneq'[s] = doneq[s]
    BY <1>1, <1>8, <1>9
  <1>11. ASSUME NEW s \in Sides
         PROVE  ResultsOK(s, doneq[s], con') /\ \A i \in DOMAIN doneq[s] : doneq[s][i].c # c
    <2>1. ResultsOK(s, doneq[s], con)
      BY HandshakingIs
    <2>2. \A i \in DOMAIN doneq[s] : doneq[s][i].c # c
      BY <1>1, <2>1 DEF ResultsOK
    <2>3. doneq[s] \in Seq(Result)
      BY <1>1
    <2> QED
      BY <2>1, <2>2, <2>3, ResultsKept
  <1>12. ResultsOK(side, R, con')
    <2>1. doneq[side] \in Seq(Result)
      BY <1>1
    <2>2. x.c # NoStream => con'[x.c].st = "queued" /\ conf.side[x.c] = side
      BY <1>3, <1>6
    <2> QED
      BY <1>7, <1>11, <2>1, <2>2, ResultsAppend
  <1>13. \A s \in Sides : ResultsOK(s, doneq'[s], con')
    BY <1>10, <1>11, <1>12
  <1>14. \A d \in workq' : con'[d].st \in InWork
    BY <1>1, <1>3, Zenon DEF Handshaking
  <1>15. Handshaking'
    BY <1>2, <1>5, <1>13, <1>14, HandshakingNext
  <1>16. Pending'
    BY <1>1, <1>2, <1>5, PendingOne
  <1>17. Contract
    BY ContractOne
  <1> QED
    BY <1>1, <1>2, <1>4, <1>10, <1>15, <1>16, <1>17, InvNext

LEMMA ResultIs ==
  ASSUME NEW d \in Streams \cup {NoStream}, NEW e \in {"nil", "err", "closed"},
         NEW x, x = [c |-> d, e |-> e]
  PROVE  x \in Result /\ x.c = d /\ x.e = e
  BY DEF Result

LEMMA hsWorkerStep ==
  ASSUME StreamInv, NEW c \in Streams, hsWorker(c)
  PROVE  StreamInv' /\ Contract
  <1>1. Conns /\ NoStream \notin Streams
    BY InvIs
  <1>2. con[c].st \in {"ok", "bad"} /\ workq' = workq \ {c} /\ pend' = pend
    BY DEF hsWorker
  <1>3. Frame
    BY UnchFrame DEF hsWorker, Broadcast
  <1>4. ConOK(c, con[c], hsclosed)
    BY <1>1 DEF Conns
  <1>5. CASE con[c].st = "bad" /\ Fail(c) /\ Publish(c, [c |-> NoStream, e |-> "err"])
    <2>1. PICK r \in ConState : Becomes(c, r) /\ r.st = "failed" /\ r.sock = FALSE
      BY <1>1, <1>5, FailIs, Zenon DEF Conns, Fail
    <2>2. PICK x : x = [c |-> NoStream, e |-> "err"]
      BY Zenon
    <2>3. x \in Result /\ x.c = NoStream /\ x.e = "err"
      BY <2>2, ResultIs
    <2>4. ConOK(c, r, hsclosed) /\ Onward(Fate(con[c], hsclosed), Fate(r, hsclosed))
      BY <1>5, <2>1 DEF ConOK, Alive, Onward, Fate
    <2> QED
      BY <1>1, <1>2, <1>3, <1>5, <2>1, <2>2, <2>3, <2>4, Published
  <1>6. CASE /\ con[c].st = "ok" /\ conf.side[c] = "listener" /\ hsclosed
             /\ con' = CloseConns({c}, "queued") /\ Publish(c, [c |-> c, e |-> "closed"])
    <2>1. PICK r \in ConState : Becomes(c, r) /\ r.st = "queued" /\ r.sock = FALSE
      BY <1>1, <1>6, FailIs, Zenon DEF Conns
    <2>2. PICK x : x = [c |-> c, e |-> "closed"]
      BY Zenon
    <2>3. x \in Result /\ x.c = c /\ x.e = "closed"
      BY <2>2, ResultIs
    <2>4. ConOK(c, r, hsclosed) /\ Onward(Fate(con[c], hsclosed), Fate(r, hsclosed))
      BY <1>4, <1>6, <2>1 DEF ConOK, Alive, Onward, Fate
    <2>5. /\ con[c].st \in {"ok", "bad"} /\ x.c # NoStream /\ x.c \in {c, NoStream}
          /\ x.c = c => r.st = "queued"
      BY <1>1, <1>6, <2>1, <2>3
    <2>6. Publish(c, x)
      BY <1>6, <2>2
    <2> QED
      BY <1>2, <1>3, <2>1, <2>3, <2>4, <2>5, <2>6, Published
  <1>7. CASE /\ con[c].st = "ok" /\ ~(conf.side[c] = "listener" /\ hsclosed)
             /\ Stage(c, "queued") /\ Publish(c, [c |-> c, e |-> "nil"])
    <2>1. PICK r \in ConState : Becomes(c, r) /\ r.st = "queued" /\ r.sock = con[c].sock
      BY <1>1, <1>7, StageIs DEF Conns, Alive
    <2>2. PICK x : x = [c |-> c, e |-> "nil"]
      BY Zenon
    <2>3. x \in Result /\ x.c = c /\ x.e = "nil"
      BY <2>2, ResultIs
    <2>4. ConOK(c, r, hsclosed) /\ Onward(Fate(con[c], hsclosed), Fate(r, hsclosed))
      BY <1>4, <1>7, <2>1 DEF ConOK, Alive, Onward, Fate
    <2>5. /\ con[c].st \in {"ok", "bad"} /\ x.c # NoStream /\ x.c \in {c, NoStream}
          /\ x.c = c => r.st = "queued"
      BY <1>1, <1>7, <2>1, <2>3
    <2>6. Publish(c, x)
      BY <1>7, <2>2
    <2> QED
      BY <1>2, <1>3, <2>1, <2>3, <2>4, <2>5, <2>6, Published
  <1> QED
    BY <1>5, <1>6, <1>7 DEF hsWorker

\* Wait of either handshaker.
LEMMA WaitMoves ==
  ASSUME StreamInv, NEW s \in Sides, NEW w, NEW next, hsWait(s, w, next), Frame,
         workq' = workq, pend' = pend, Tran # "ws"
  PROVE  StreamInv' /\ Contract
  <1>1. /\ Conns /\ Handshaking /\ Pending /\ workq \in SUBSET Streams /\ NoStream \notin Streams
        /\ doneq \in [Sides -> Seq(Result)] /\ conf.side \in [Streams -> Sides]
    BY InvIs
  <1>2. /\ AcceptOK' /\ conf' = conf /\ conf' \in StreamRuns /\ closeq' \in BOOLEAN
        /\ hsclosed' \in BOOLEAN /\ running' \in BOOLEAN /\ Tran' = Tran /\ hsclosed' = hsclosed
        /\ closeq' = closeq
    BY FrameIs DEF Frame
  <1>3. CASE con' = con /\ doneq' = doneq
    BY <1>2, <1>3, Quiet
  <1>4. CASE ~(con' = con /\ doneq' = doneq)
    <2>1. /\ ~(s = "listener" /\ hsclosed) /\ doneq[s] # <<>>
          /\ doneq' = [doneq EXCEPT ![s] = Tail(doneq[s])]
          /\ IF Head(doneq[s]).e = "nil" THEN Stage(Head(doneq[s]).c, "given") ELSE con' = con
      BY <1>4 DEF hsWait
    <2>2. PICK Q, R, x : Q = doneq[s] /\ R = Tail(Q) /\ x = Head(Q)
      BY Zenon
    <2> Q \in Seq(Result)
      BY <1>1, <2>2
    <2>3. R \in Seq(Result) /\ x \in Result /\ x = Q[1] /\ 1 \in DOMAIN Q
      BY <2>1, <2>2, TailIs
    <2>4. /\ doneq' \in [Sides -> Seq(Result)] /\ doneq'[s] = R
          /\ \A u \in Sides \ {s} : doneq'[u] = doneq[u]
      BY <1>1, <2>1, <2>2, <2>3
    <2>5. \A u \in Sides : ResultsOK(u, doneq[u], con)
      BY HandshakingIs
    <2>6. ResultsOK(s, R, con) /\ \A i \in DOMAIN R : x.c # NoStream => R[i].c # x.c
      BY <2>1, <2>2, <2>5, ResultsTail, Zenon
    <2>7. CASE con' = con
      <3>0. /\ \A d \in workq' : con'[d].st \in InWork
            /\ \A u \in Sides : ResultsOK(u, doneq'[u], con')
        BY <1>1, <2>4, <2>5, <2>6, <2>7, Zenon DEF Handshaking
      <3>1. Handshaking'
        BY <1>2, <3>0, HandshakingNext
      <3>2. Conns' /\ Pending' /\ Contract
        BY <1>1, <1>2, <2>7 DEF Conns, ConOK, Tran, Pending, Contract, Allowed, Onward
      <3> QED
        BY <1>1, <1>2, <2>4, <3>1, <3>2, InvNext
    <2>8. CASE x.e = "nil" /\ Stage(x.c, "given")
      <3>1. PICK c : c = x.c
        OBVIOUS
      <3>2. c # NoStream /\ con[c].st = "queued" /\ conf.side[c] = s
        BY <2>2, <2>3, <2>5, <2>8, <3>1 DEF ResultsOK
      <3>3. c \in Streams
        BY <2>3, <3>1, <3>2 DEF Result
      <3>4. PICK r \in ConState : Becomes(c, r) /\ r.st = "given" /\ r.sock = con[c].sock
        BY <1>1, <2>8, <3>1, <3>3, StageIs DEF Conns
      <3>5. ConOK(c, con[c], hsclosed)
        BY <1>1, <3>3 DEF Conns
      <3>6. ConOK(c, r, hsclosed)
        BY <2>1, <3>2, <3>4, <3>5 DEF ConOK, Alive
      <3>7. Conns'
        BY <1>1, <1>2, <3>3, <3>4, <3>6, ConnsOne
      <3>8. ASSUME NEW u \in Sides PROVE ResultsOK(u, doneq'[u], con')
        <4>1. CASE u = s
          <5>1. \A i \in DOMAIN R : R[i].c # c
            BY <2>6, <3>1, <3>2
          <5> QED
            BY <2>3, <2>4, <2>6, <3>3, <3>4, <4>1, <5>1, ResultsKept
        <4>2. CASE u # s
          <5>1. doneq[u] \in Seq(Result) /\ \A i \in DOMAIN doneq[u] : doneq[u][i].c # c
            BY <1>1, <2>5, <3>2, <4>2 DEF ResultsOK
          <5> QED
            BY <2>4, <2>5, <3>3, <3>4, <4>2, <5>1, ResultsKept
        <4> QED
          BY <4>1, <4>2
      <3>9. \A d \in workq' : con'[d].st \in InWork
        <4>1. c \notin workq
          BY <1>1, <3>2 DEF Handshaking, InWork
        <4>2. \A d \in Streams \ {c} : con'[d] = con[d]
          BY <3>4 DEF Becomes
        <4> QED
          BY <1>1, <4>1, <4>2 DEF Handshaking
      <3>10. Handshaking'
        BY <1>2, <3>8, <3>9, HandshakingNext
      <3>11. Pending'
        BY <1>1, <1>2, <3>2, <3>3, <3>4, PendingOne
      <3>12. Contract
        <4>1. conf.side[c] # "listener" \/ StreamShut = {}
          BY <2>1, <3>2 DEF StreamShut
        <4>2. conf.side[c] # "listener" \/ Fate(con[c], hsclosed) = "pending"
          BY <2>1, <3>2 DEF Fate
        <4>3. Fate(r, hsclosed) = "accepted"
          BY <3>4 DEF Fate
        <4> QED
          BY <3>3, <3>4, <4>1, <4>2, <4>3, ContractOne
      <3> QED
        BY <1>1, <1>2, <2>4, <3>7, <3>10, <3>11, <3>12, InvNext
    <2> QED
      BY <2>1, <2>2, <2>7, <2>8
  <1> QED
    BY <1>3, <1>4

\* Many connections move at once: the invariant from its parts.
LEMMA ManyMove ==
  ASSUME StreamInv, conf' = conf, con' \in [Streams -> ConState], closeq' \in BOOLEAN,
         hsclosed' \in BOOLEAN, running' \in BOOLEAN, closeq => closeq', hsclosed => hsclosed',
         workq' \in SUBSET Streams, doneq' \in [Sides -> Seq(Result)],
         \A c \in Streams : /\ ConOK(c, con'[c], hsclosed')
                            /\ Onward(Fate(con[c], hsclosed), Fate(con'[c], hsclosed')),
         Handshaking', Pending', AcceptOK'
  PROVE  StreamInv' /\ Contract
  <1>1. conf \in StreamRuns
    BY InvIs
  <1>2. \A c \in Streams : ConOK(c, con[c], hsclosed)'
    BY DEF ConOK, Tran
  <1>3. Contract
    BY Zenon DEF Contract, Allowed
  <1> QED
    BY <1>1, <1>2, <1>3, InvNext DEF Conns

LEMMA RangeIs == \A Q : Range(Q) = {Q[i] : i \in DOMAIN Q}
  BY DEF Range

LEMMA QueuedIs ==
  ASSUME NEW Q \in Seq(Result), NEW c \in {i.c : i \in Range(Q)} \ {NoStream}
  PROVE  \E k \in DOMAIN Q : Q[k].c = c
  BY RangeIs

LEMMA closeHandshakerStep ==
  ASSUME StreamInv, closeHandshaker
  PROVE  StreamInv' /\ Contract
  <1> DEFINE queued == {i.c : i \in Range(doneq["listener"])} \ {NoStream}
             work == workq \cap Mine("listener")
  <1>1. /\ Conns /\ Handshaking /\ Pending /\ AcceptOK /\ workq \in SUBSET Streams /\ NoStream \notin Streams
        /\ doneq \in [Sides -> Seq(Result)] /\ conf.side \in [Streams -> Sides]
        /\ closeq \in BOOLEAN /\ running \in BOOLEAN
    BY InvIs
  <1>2. /\ conf' = conf /\ hsclosed' = TRUE /\ workq' = workq /\ pend' = pend /\ closeq' = closeq
        /\ running' = running /\ lpc' = lpc /\ cpc' \in {"hs", "done"} /\ Tran \in Handshaken
        /\ acc' = Woken(acc) /\ doneq' = [doneq EXCEPT !["listener"] = <<>>]
    BY DEF closeHandshaker, hsClose, UnchL, Broadcast
  <1>3. con' = [c \in Streams |-> IF c \in queued THEN Closed([con[c] EXCEPT !.st = "failed"])
                                  ELSE IF c \in work THEN Closed(con[c]) ELSE con[c]]
    BY DEF closeHandshaker, hsClose
  <1>4. /\ \A c \in queued \cap Streams : con[c].st = "queued" /\ conf.side[c] = "listener"
        /\ \A c \in work : con[c].st \in InWork /\ conf.side[c] = "listener"
    <2>1. doneq["listener"] \in Seq(Result) /\ ResultsOK("listener", doneq["listener"], con)
      BY <1>1, HandshakingIs DEF Sides
    <2>2. \A c \in queued : \E k \in DOMAIN doneq["listener"] : doneq["listener"][k].c = c
      BY <2>1, QueuedIs
    <2>3. \A c \in queued : c # NoStream
      OBVIOUS
    <2> HIDE DEF queued
    <2>4. \A c \in queued : con[c].st = "queued" /\ conf.side[c] = "listener"
      BY <2>1, <2>2, <2>3 DEF ResultsOK
    <2>5. \A c \in work : con[c].st \in InWork /\ conf.side[c] = "listener"
      BY <1>1 DEF Handshaking, Mine
    <2> QED
      BY <2>4, <2>5
  <1> HIDE DEF queued, work
  <1>5. ASSUME NEW c \in Streams
        PROVE  /\ con'[c] \in ConState
               /\ c \in queued => con'[c].st = "failed" /\ con'[c].sock = FALSE
               /\ c \in work \ queued => con'[c].st = con[c].st /\ con'[c].sock = FALSE
               /\ c \notin work \cup queued => con'[c] = con[c]
    <2>1. con[c] \in ConState
      BY <1>1 DEF Conns
    <2>2. PICK q : q = [con[c] EXCEPT !.st = "failed"]
      BY Zenon
    <2>3. q \in ConState /\ q.st = "failed"
      BY <2>1, <2>2 DEF ConState
    <2>4. con'[c] = IF c \in queued THEN Closed(q) ELSE IF c \in work THEN Closed(con[c]) ELSE con[c]
      BY <1>3, <2>2
    <2> QED
      BY <2>1, <2>3, <2>4, ClosedIs, Zenon
  <1>6. con' \in [Streams -> ConState]
    BY <1>3, <1>5, Zenon
  <1>7. ASSUME NEW c \in Streams
        PROVE  ConOK(c, con'[c], hsclosed') /\ Onward(Fate(con[c], hsclosed), Fate(con'[c], hsclosed'))
    <2>1. ConOK(c, con[c], hsclosed)
      BY <1>1 DEF Conns
    <2>2. CASE c \in queued
      BY <1>2, <1>4, <1>5, <2>2, Zenon DEF ConOK, Onward, Fate, Alive, Handshaken
    <2>3. CASE c \in work \ queued
      BY <1>2, <1>4, <1>5, <2>1, <2>3, Zenon DEF ConOK, Onward, Fate, Alive, InWork
    <2>4. CASE c \notin work \cup queued
      BY <1>2, <1>5, <2>1, <2>4, Zenon DEF ConOK, Onward, Fate
    <2> QED
      BY <2>2, <2>3, <2>4
  <1>8. doneq' \in [Sides -> Seq(Result)] /\ doneq'["listener"] = <<>> /\ doneq'["dialer"] = doneq["dialer"]
    BY <1>1, <1>2 DEF Sides
  <1>9. Handshaking'
    <2>1. ResultsOK("listener", <<>>, con')
      BY DEF ResultsOK
    <2>2. ResultsOK("dialer", doneq["dialer"], con')
      <3>1. doneq["dialer"] \in Seq(Result) /\ ResultsOK("dialer", doneq["dialer"], con)
        BY <1>1, HandshakingIs DEF Sides
      <3>2. \A i \in DOMAIN doneq["dialer"] : doneq["dialer"][i] \in Result
        BY <3>1
      <3>3. \A i \in DOMAIN doneq["dialer"] : doneq["dialer"][i].c # NoStream => doneq["dialer"][i].c \in Streams
        BY <3>2 DEF Result
      <3>4. \A c \in Streams : conf.side[c] = "dialer" => con'[c] = con[c]
        BY <1>4, <1>5, Zenon
      <3> QED
        BY <3>1, <3>3, <3>4 DEF ResultsOK
    <2>3. \A s \in Sides : ResultsOK(s, doneq'[s], con')
      BY <1>8, <2>1, <2>2 DEF Sides
    <2>4. \A c \in workq' : con'[c].st \in InWork
      <3>1. \A c \in workq : con[c].st \in InWork /\ c \in Streams
        BY <1>1 DEF Handshaking
      <3>2. \A c \in workq : c \notin queued
        BY <1>4, <3>1 DEF InWork
      <3> QED
        BY <1>2, <1>5, <3>1, <3>2, Zenon
    <2> QED
      BY <1>2, <2>3, <2>4, HandshakingNext DEF Handshaken
  <1>10. Pending'
    <2>1. \A c \in Streams : con[c].st = "fd" => con'[c] = con[c]
      BY <1>4, <1>5, Zenon DEF InWork
    <2>2. Tran' = Tran /\ Tran # "ws"
      BY <1>2 DEF Tran, Handshaken
    <2> QED
      BY <1>1, <1>2, <2>1, <2>2 DEF Pending
  <1>11. AcceptOK'
    BY <1>1, <1>2 DEF AcceptOK, Woken, Handshaken, Tran
  <1> QED
    BY <1>1, <1>2, <1>6, <1>7, <1>8, <1>9, <1>10, <1>11, ManyMove, Zenon

LEMMA tlsCloseConnsStep ==
  ASSUME StreamInv, tlsCloseConns
  PROVE  StreamInv' /\ Contract
  <1>1. /\ Conns /\ Handshaking /\ AcceptOK /\ workq \in SUBSET Streams /\ NoStream \notin Streams
        /\ doneq \in [Sides -> Seq(Result)] /\ closeq \in BOOLEAN /\ running \in BOOLEAN
        /\ hsclosed \in BOOLEAN
    BY InvIs
  <1>2. /\ conf' = conf /\ hsclosed' = hsclosed /\ workq' = workq /\ doneq' = doneq /\ pend' = pend
        /\ closeq' = closeq /\ running' = running /\ lpc' = lpc /\ cpc' = "sock" /\ Tran = "tls"
        /\ acc' = acc
    BY DEF tlsCloseConns, UnchH, UnchA
  <1>3. con' = [c \in Streams |-> [con[c] EXCEPT !.sock = con[c].sock /\ c \notin Range(pend)]]
    BY DEF tlsCloseConns
  <1>4. ASSUME NEW c \in Streams
        PROVE  con'[c] \in ConState /\ con'[c].st = con[c].st /\ (con'[c].sock => con[c].sock)
    <2>1. PICK q \in ConState : q = con[c]
      BY <1>1 DEF Conns
    <2>2. PICK b \in BOOLEAN : b = (q.sock /\ c \notin Range(pend))
      BY Zenon
    <2>3. PICK r : r = [q EXCEPT !.sock = b]
      BY Zenon
    <2>4. r \in ConState /\ r.st = q.st /\ r.sock = b
      BY <2>3 DEF ConState
    <2>5. con'[c] = r
      BY <1>3, <2>1, <2>2, <2>3
    <2> QED
      BY <2>1, <2>2, <2>4, <2>5, Zenon
  <1>5. con' \in [Streams -> ConState]
    BY <1>3, <1>4
  <1>6. ASSUME NEW c \in Streams
        PROVE  ConOK(c, con'[c], hsclosed') /\ Onward(Fate(con[c], hsclosed), Fate(con'[c], hsclosed'))
    BY <1>2, <1>4 DEF ConOK, Onward, Fate
  <1>7. Handshaking'
    <2>1. ASSUME NEW s \in Sides PROVE ResultsOK(s, doneq'[s], con')
      <3>1. doneq[s] \in Seq(Result) /\ ResultsOK(s, doneq[s], con)
        BY <1>1, HandshakingIs
      <3>2. \A i \in DOMAIN doneq[s] : doneq[s][i] \in Result
        BY <3>1
      <3>3. \A i \in DOMAIN doneq[s] : doneq[s][i].c # NoStream => doneq[s][i].c \in Streams
        BY <3>2 DEF Result
      <3> QED
        BY <1>2, <1>4, <3>1, <3>3 DEF ResultsOK
    <2>2. \A c \in workq' : con'[c].st \in InWork
      BY <1>1, <1>2, <1>4 DEF Handshaking
    <2> QED
      BY <1>2, <2>1, <2>2, HandshakingNext
  <1>8. Pending' /\ AcceptOK'
    BY <1>1, <1>2 DEF Pending, AcceptOK, Tran
  <1> QED
    BY <1>1, <1>2, <1>5, <1>6, <1>7, <1>8, ManyMove

\* The connections that a socket or ws listener keeps all go, to stage st.
LEMMA PendingGo ==
  ASSUME StreamInv, Tran \in {"socket", "ws"}, NEW st \in {"made", "failed"},
         st = "made" => Tran = "socket", con' \in [Streams -> ConState],
         \A c \in Streams :
             IF c \in Range(pend)
             THEN con'[c].st = st /\ con'[c].sock = (IF st = "failed" THEN FALSE ELSE con[c].sock)
             ELSE con'[c] = con[c],
         conf' = conf, hsclosed' = hsclosed, workq' = workq, doneq' = doneq, pend' = <<>>,
         closeq' \in BOOLEAN, running' \in BOOLEAN, closeq => closeq', Tran = "ws" => loop' = loop,
         AcceptOK'
  PROVE  StreamInv' /\ Contract
  <1>1. /\ Conns /\ Handshaking /\ Pending /\ workq \in SUBSET Streams /\ NoStream \notin Streams
        /\ doneq \in [Sides -> Seq(Result)] /\ hsclosed \in BOOLEAN
    BY InvIs
  <1>2. \A c \in Range(pend) : c \in Streams /\ con[c].st = IF Tran = "ws" THEN "queued" ELSE "fd"
    <2>1. pend \in Seq(Streams)
      BY <1>1 DEF Pending
    <2>2. \A i \in DOMAIN pend : pend[i] \in Streams /\ con[pend[i]].st = IF Tran = "ws" THEN "queued" ELSE "fd"
      BY <1>1, <2>1 DEF Pending
    <2> QED
      BY <2>2, RangeIs
  <1>3. ASSUME NEW c \in Streams
        PROVE  ConOK(c, con'[c], hsclosed') /\ Onward(Fate(con[c], hsclosed), Fate(con'[c], hsclosed'))
    <2>1. ConOK(c, con[c], hsclosed)
      BY <1>1 DEF Conns
    <2>2. CASE c \in Range(pend) /\ st = "failed"
      BY <1>2, <2>2, Zenon DEF ConOK, Onward, Fate, Alive
    <2>3. CASE c \in Range(pend) /\ st = "made"
      BY <1>2, <2>1, <2>3 DEF ConOK, Onward, Fate, Alive
    <2>4. CASE c \notin Range(pend)
      BY <2>1, <2>4, Zenon DEF ConOK, Onward
    <2> QED
      BY <2>2, <2>3, <2>4
  <1>4. Handshaking'
    <2>1. CASE Tran = "ws"
      <3>1. workq = {}
        BY <1>1, <2>1 DEF Handshaking, Conns, ConOK, InWork
      <3>2. ~hsclosed /\ loop = "off" /\ \A s \in Sides : doneq[s] = <<>>
        BY <1>1, <2>1 DEF Handshaking
      <3> QED
        BY <2>1, <3>1, <3>2, QuietHandshaking
    <2>2. CASE Tran # "ws"
      <3>1. \A c \in Streams : con[c].st # "fd" => con'[c] = con[c]
        BY <1>2, <2>2, Zenon
      <3>2. ASSUME NEW s \in Sides PROVE ResultsOK(s, doneq'[s], con')
        <4>1. doneq[s] \in Seq(Result) /\ ResultsOK(s, doneq[s], con)
          BY <1>1, HandshakingIs
        <4>2. \A i \in DOMAIN doneq[s] : doneq[s][i] \in Result
          BY <4>1
        <4>3. \A i \in DOMAIN doneq[s] : doneq[s][i].c # NoStream => doneq[s][i].c \in Streams
          BY <4>2 DEF Result
        <4> QED
          BY <3>1, <4>1, <4>3 DEF ResultsOK
      <3>3. \A c \in workq' : con'[c].st \in InWork
        BY <1>1, <3>1 DEF Handshaking, InWork
      <3> QED
        BY <2>2, <3>2, <3>3, HandshakingNext
    <2> QED
      BY <2>1, <2>2
  <1>5. Pending'
    BY EmptyPending
  <1> QED
    BY <1>1, <1>3, <1>4, <1>5, ManyMove

LEMMA socketListenStep ==
  ASSUME StreamInv, socketListen
  PROVE  StreamInv' /\ Contract
  <1>1. Conns /\ AcceptOK /\ closeq \in BOOLEAN /\ running \in BOOLEAN
    BY InvIs
  <1>2. /\ Tran = "socket" /\ lpc = "idle" /\ lpc' = "done" /\ pend' = <<>> /\ conf' = conf
        /\ hsclosed' = hsclosed /\ workq' = workq /\ doneq' = doneq /\ closeq' = closeq
        /\ running' = running /\ cpc' = cpc /\ acc' = acc
        /\ con' = [c \in Streams |-> IF c \in Range(pend) THEN [con[c] EXCEPT !.st = "made"] ELSE con[c]]
    BY DEF socketListen, UnchH, UnchC, UnchA
  <1>3. ASSUME NEW c \in Streams
        PROVE  /\ con'[c] \in ConState
               /\ IF c \in Range(pend) THEN con'[c].st = "made" /\ con'[c].sock = con[c].sock
                  ELSE con'[c] = con[c]
    <2>1. PICK q \in ConState : q = con[c]
      BY <1>1 DEF Conns
    <2>2. PICK r : r = [q EXCEPT !.st = "made"]
      BY Zenon
    <2>3. r \in ConState /\ r.st = "made" /\ r.sock = q.sock
      BY <2>2 DEF ConState, Alive
    <2>4. con'[c] = IF c \in Range(pend) THEN r ELSE q
      BY <1>2, <2>1, <2>2
    <2> QED
      BY <2>1, <2>3, <2>4
  <1>4. con' \in [Streams -> ConState]
    BY <1>2, <1>3
  <1>5. AcceptOK'
    BY <1>1, <1>2 DEF AcceptOK, Tran
  <1> QED
    BY <1>1, <1>2, <1>3, <1>4, <1>5, PendingGo

LEMMA KeeperClose ==
  ASSUME StreamInv, socketClose \/ wsClose
  PROVE  StreamInv' /\ Contract
  <1>1. Conns /\ AcceptOK /\ closeq \in BOOLEAN /\ running \in BOOLEAN
    BY InvIs
  <1>2. /\ Tran \in {"socket", "ws"} /\ closeq' = TRUE /\ cpc' # "idle" /\ pend' = <<>> /\ conf' = conf
        /\ con' = CloseConns(Range(pend), "failed")
        /\ hsclosed' = hsclosed /\ workq' = workq /\ doneq' = doneq /\ loop' = loop /\ lpc' = lpc
        /\ running' \in {running, FALSE} /\ (Tran = "ws" => running' = FALSE) /\ acc' \in {acc, Woken(acc)}
    BY Zenon DEF socketClose, wsClose, UnchH, UnchA, UnchL, Broadcast
  <1>3. /\ con' \in [Streams -> ConState]
        /\ \A c \in Streams : IF c \in Range(pend) THEN con'[c].st = "failed" /\ con'[c].sock = FALSE
                              ELSE con'[c] = con[c]
    BY <1>1, <1>2, CloseConnsIs, Zenon DEF Conns
  <1>4. AcceptOK'
    BY <1>1, <1>2 DEF AcceptOK, Woken, Tran
  <1> QED
    BY <1>1, <1>2, <1>3, <1>4, PendingGo, Zenon

----------------------------------------------------------------------------
\* Connections reach the listener.
LEMMA loopAcceptStep ==
  ASSUME StreamInv, NEW c \in Streams, loopAccept(c)
  PROVE  StreamInv' /\ Contract
  <1>1. /\ Tran \in Looping /\ con[c].st = "none" /\ pend' = pend /\ doneq' = doneq /\ workq' = workq
    BY DEF loopAccept, Arrives, UnchH
  <1>2. Frame
    BY <1>1 DEF loopAccept, UnchH, UnchC, UnchA, Frame, Looping
  <1>3. PICK st \in {"tls", "made"} : Stage(c, st) /\ (st = "tls" => Tran = "tls")
    BY DEF loopAccept
  <1>4. c \notin workq /\ workq' \in SUBSET (workq \cup {c})
    BY <1>1, InvIs DEF Handshaking, InWork
  <1> QED
    BY <1>1, <1>2, <1>3, <1>4, StageMoves DEF Looping

LEMMA loopStartStep ==
  ASSUME StreamInv, loopStart
  PROVE  StreamInv' /\ Contract
  <1>1. loop \in Streams /\ hsStart(loop) /\ pend' = pend /\ doneq' = doneq
    BY DEF loopStart
  <1>2. Tran # "ws"
    BY <1>1, InvIs, StreamAssumption DEF Handshaking
  <1>3. Frame
    BY <1>2 DEF loopStart, UnchC, UnchA, Frame
  <1> QED
    BY <1>1, <1>2, <1>3, StartMoves

LEMMA tlsStartStep ==
  ASSUME StreamInv, NEW c \in Streams, tlsStart(c) \/ tlsHandshake(c) \/ tlsHandshakeFails(c)
  PROVE  StreamInv' /\ Contract
  <1>1. /\ con[c].st \in {"tls", "tlshs"} /\ doneq' = doneq /\ workq' = workq
        /\ Fail(c) \/ \E st \in {"tlshs", "made"} : Stage(c, st)
    BY DEF tlsStart, tlsHandshake, tlsHandshakeFails, UnchH
  <1>2. Frame
    BY UnchFrame DEF tlsStart, tlsHandshake, tlsHandshakeFails, UnchH, UnchA
  <1>3. Tran = "tls" /\ c \notin workq /\ workq' \in SUBSET (workq \cup {c})
    BY <1>1, InvIs DEF Conns, ConOK, Handshaking, InWork
  <1>4. CASE Fail(c)
    BY <1>1, <1>2, <1>3, <1>4, FailMoves
  <1>5. ASSUME NEW st \in {"tlshs", "made"}, Stage(c, st) PROVE StreamInv' /\ Contract
    BY <1>1, <1>2, <1>3, <1>5, StageMoves
  <1> QED
    BY <1>1, <1>4, <1>5

LEMMA tlsHandOverStep ==
  ASSUME StreamInv, NEW c \in Streams, tlsHandOver(c)
  PROVE  StreamInv' /\ Contract
  <1>1. Frame
    BY UnchFrame DEF tlsHandOver, UnchA
  <1>2. hsStart(c) /\ Tran # "ws" /\ pend' = pend /\ doneq' = doneq
    BY DEF tlsHandOver
  <1> QED
    BY <1>1, <1>2, StartMoves

LEMMA socketStartStep ==
  ASSUME StreamInv, NEW c \in Streams, socketStart(c)
  PROVE  StreamInv' /\ Contract
  <1>1. Frame
    BY UnchFrame DEF socketStart, UnchA
  <1>2. con[c].st = "made" /\ Tran # "ws" /\ pend' = pend /\ doneq' = doneq
    BY DEF socketStart
  <1>3. CASE Fail(c) /\ workq' = workq
    BY <1>1, <1>2, <1>3, FailMoves
  <1>4. CASE hsStart(c)
    BY <1>1, <1>2, <1>4, StartMoves
  <1> QED
    BY <1>3, <1>4 DEF socketStart

LEMMA wsServeStep ==
  ASSUME StreamInv, NEW c \in Streams, wsServeHTTP(c) \/ wsUpgradeFails(c)
  PROVE  StreamInv' /\ Contract
  <1>1. /\ con[c].st \in {"none", "made"} /\ pend' = pend /\ doneq' = doneq /\ workq' = workq
        /\ Fail(c) \/ Stage(c, "made")
    BY DEF wsServeHTTP, wsUpgradeFails, UnchH, Arrives
  <1>2. Frame
    BY UnchFrame DEF wsServeHTTP, wsUpgradeFails, UnchH, UnchA
  <1>3. c \notin workq /\ workq' \in SUBSET (workq \cup {c})
    BY <1>1, InvIs DEF Handshaking, InWork
  <1>4. CASE Fail(c)
    BY <1>1, <1>2, <1>4, FailMoves
  <1>5. CASE Stage(c, "made")
    BY <1>1, <1>2, <1>3, <1>5, StageMoves
  <1> QED
    BY <1>1, <1>4, <1>5

\* A connection joins those that a socket or ws listener keeps.
LEMMA Kept ==
  ASSUME StreamInv, NEW c \in Streams, NEW st \in {"fd", "queued"}, Stage(c, st), Frame,
         Tran = IF st = "fd" THEN "socket" ELSE "ws", con[c].st = IF st = "fd" THEN "none" ELSE "made",
         pend' = Append(pend, c), doneq' = doneq, workq' = workq
  PROVE  StreamInv' /\ Contract
  <1>1. /\ Conns /\ Handshaking /\ Pending /\ workq \in SUBSET Streams /\ NoStream \notin Streams
        /\ doneq \in [Sides -> Seq(Result)]
    BY InvIs
  <1>2. /\ AcceptOK' /\ conf' = conf /\ conf' \in StreamRuns /\ closeq' \in BOOLEAN
        /\ hsclosed' \in BOOLEAN /\ running' \in BOOLEAN /\ Tran' = Tran /\ hsclosed' = hsclosed
        /\ (Tran = "ws" => loop' = loop)
    BY FrameIs DEF Frame
  <1>3. PICK r \in ConState : Becomes(c, r) /\ r.st = st /\ r.sock = con[c].sock
    BY <1>1, StageIs DEF Conns, Alive
  <1>4. con'[c] = r /\ \A d \in Streams \ {c} : con'[d] = con[d]
    BY <1>3 DEF Becomes
  <1>5. ConOK(c, con[c], hsclosed)
    BY <1>1 DEF Conns
  <1>6. ConOK(c, r, hsclosed) /\ Onward(Fate(con[c], hsclosed), Fate(r, hsclosed))
    BY <1>3, <1>5 DEF ConOK, Alive, Onward, Fate
  <1>7. Conns' /\ Contract
    BY <1>1, <1>2, <1>3, <1>6, ConnsOne, ContractOne
  <1>8. c \notin workq
    BY <1>1 DEF Handshaking, InWork
  <1>9. \A d \in workq' : con'[d].st \in InWork
    BY <1>1, <1>4, <1>8 DEF Handshaking
  <1>10. \A s \in Sides : ResultsOK(s, doneq'[s], con')
    <2> SUFFICES ASSUME NEW s \in Sides PROVE ResultsOK(s, doneq[s], con')
      OBVIOUS
    <2>1. doneq[s] \in Seq(Result) /\ ResultsOK(s, doneq[s], con)
      BY <1>1, HandshakingIs
    <2>2. \A i \in DOMAIN doneq[s] : doneq[s][i].c # c
      BY <1>1, <2>1 DEF ResultsOK
    <2> QED
      BY <1>3, <2>1, <2>2, ResultsKept
  <1>11. Handshaking'
    <2>1. CASE st = "fd"
      BY <1>2, <1>9, <1>10, <2>1, HandshakingNext
    <2>2. CASE st = "queued"
      <3>1. ~hsclosed /\ loop = "off" /\ \A s \in Sides : doneq[s] = <<>>
        BY <1>1, <2>2 DEF Handshaking
      <3> QED
        BY <1>2, <1>9, <2>2, <3>1 DEF Handshaking
    <2> QED
      BY <2>1, <2>2
  <1>12. Pending'
    <2>1. Tran \in {"socket", "ws"} /\ st = IF Tran = "ws" THEN "queued" ELSE "fd"
      OBVIOUS
    <2>2. pend \in Seq(Streams) /\ \A i \in DOMAIN pend :
              con[pend[i]].st = st /\ \A j \in DOMAIN pend : pend[i] = pend[j] => i = j
      BY <1>1, <2>1 DEF Pending
    <2>3. \A i \in DOMAIN pend : pend[i] \in Streams /\ pend[i] # c
      BY <2>2
    <2>4. PICK Q, n : Q = Append(pend, c) /\ n = Len(pend) + 1
      OBVIOUS
    <2>5. /\ Q \in Seq(Streams) /\ DOMAIN Q = DOMAIN pend \cup {n} /\ Q[n] = c /\ n \notin DOMAIN pend
          /\ \A i \in DOMAIN pend : Q[i] = pend[i]
      BY <2>2, <2>4, AppendIs
    <2>6. \A i \in DOMAIN Q : con'[Q[i]].st = st /\ \A j \in DOMAIN Q : Q[i] = Q[j] => i = j
      BY <1>3, <1>4, <2>2, <2>3, <2>5
    <2>7. pend' = Q
      BY <2>4
    <2> QED
      BY <1>2, <2>1, <2>5, <2>6, <2>7 DEF Pending
  <1> QED
    BY <1>1, <1>2, <1>7, <1>11, <1>12, InvNext

LEMMA setSocketFDStep ==
  ASSUME StreamInv, NEW c \in Streams, setSocketFD(c)
  PROVE  StreamInv' /\ Contract
  <1>1. Frame
    BY UnchFrame DEF setSocketFD, UnchA, UnchH
  <1>2. con[c].st = "none" /\ Tran = "socket" /\ doneq' = doneq /\ workq' = workq
    BY DEF setSocketFD, Arrives, UnchH
  <1>3. c \notin workq /\ workq' \in SUBSET (workq \cup {c})
    BY <1>2, InvIs DEF Handshaking, InWork
  <1>4. CASE Fail(c) /\ pend' = pend
    BY <1>1, <1>2, <1>4, FailMoves
  <1>5. CASE Stage(c, "fd") /\ pend' = Append(pend, c)
    BY <1>1, <1>2, <1>5, Kept
  <1>6. CASE Stage(c, "made") /\ pend' = pend
    BY <1>1, <1>2, <1>3, <1>6, StageMoves
  <1> QED
    BY <1>4, <1>5, <1>6 DEF setSocketFD

LEMMA wsHandlerStep ==
  ASSUME StreamInv, NEW c \in Streams, wsHandler(c)
  PROVE  StreamInv' /\ Contract
  <1>1. Frame
    BY UnchFrame DEF wsHandler, Broadcast, UnchH
  <1>2. /\ con[c].st = "made" /\ Tran = "ws" /\ Stage(c, "queued") /\ pend' = Append(pend, c)
        /\ doneq' = doneq /\ workq' = workq
    BY DEF wsHandler, UnchH
  <1> QED
    BY <1>1, <1>2, Kept

----------------------------------------------------------------------------
\* Accept.
LEMMA FrontIs ==
  ASSUME NEW Q \in Seq(Streams), Q # <<>>
  PROVE  /\ SubSeq(Q, 1, Len(Q) - 1) \in Seq(Streams)
         /\ \A i \in DOMAIN SubSeq(Q, 1, Len(Q) - 1) : i \in DOMAIN Q /\ i # Len(Q) /\ SubSeq(Q, 1, Len(Q) - 1)[i] = Q[i]
         /\ Len(Q) \in DOMAIN Q /\ Q[Len(Q)] \in Streams
  OBVIOUS

\* ws hands out a connection only before Close: running is still set.
LEMMA wsAcceptStep ==
  ASSUME StreamInv, wsAccept
  PROVE  StreamInv' /\ Contract
  <1>1. /\ Conns /\ Handshaking /\ Pending /\ AcceptOK /\ workq \in SUBSET Streams
        /\ doneq \in [Sides -> Seq(Result)] /\ closeq \in BOOLEAN /\ running \in BOOLEAN
    BY InvIs
  <1>2. Tran = "ws" /\ acc = "check" /\ doneq' = doneq /\ workq' = workq
    BY DEF wsAccept, UnchH
  <1>3. Frame
    BY <1>2 DEF wsAccept, Frame, UnchL, UnchH, UnchC
  <1>4. /\ AcceptOK' /\ conf' = conf /\ conf' \in StreamRuns /\ closeq' \in BOOLEAN
        /\ hsclosed' \in BOOLEAN /\ running' \in BOOLEAN /\ Tran' = Tran /\ hsclosed' = hsclosed
        /\ loop' = loop /\ closeq' = closeq
    BY <1>2, <1>3, FrameIs DEF Frame
  <1>5. CASE con' = con /\ pend' = pend
    BY <1>2, <1>4, <1>5, Quiet
  <1>6. CASE running /\ pend # <<>> /\ Stage(pend[Len(pend)], "given") /\ pend' = SubSeq(pend, 1, Len(pend) - 1)
    <2>1. pend \in Seq(Streams) /\ \A i \in DOMAIN pend :
              con[pend[i]].st = "queued" /\ \A j \in DOMAIN pend : pend[i] = pend[j] => i = j
      BY <1>1, <1>2 DEF Pending
    <2>2. PICK c, n, Q : c = pend[Len(pend)] /\ n = Len(pend) /\ Q = SubSeq(pend, 1, Len(pend) - 1)
      BY Zenon
    <2>3. /\ Q \in Seq(Streams) /\ n \in DOMAIN pend /\ c = pend[n] /\ c \in Streams
          /\ \A i \in DOMAIN Q : i \in DOMAIN pend /\ i # n /\ Q[i] = pend[i]
      BY <1>6, <2>1, <2>2, FrontIs
    <2>4. con[c].st = "queued"
      BY <2>1, <2>3
    <2>5. PICK r \in ConState : Becomes(c, r) /\ r.st = "given" /\ r.sock = con[c].sock
      BY <1>1, <1>6, <2>2, <2>3, StageIs DEF Conns
    <2>6. con'[c] = r /\ \A d \in Streams \ {c} : con'[d] = con[d]
      BY <2>5 DEF Becomes
    <2>7. ~hsclosed /\ loop = "off" /\ \A s \in Sides : doneq[s] = <<>>
      BY <1>1, <1>2 DEF Handshaking
    <2>8. ConOK(c, con[c], hsclosed)
      BY <1>1, <2>3 DEF Conns
    <2>9. ConOK(c, r, hsclosed)
      BY <1>2, <2>4, <2>5, <2>7, <2>8 DEF ConOK, Alive
    <2>10. Conns'
      BY <1>1, <1>4, <2>3, <2>5, <2>9, ConnsOne
    <2>11. Handshaking'
      <3>1. workq = {}
        BY <1>1, <1>2 DEF Handshaking, Conns, ConOK, InWork
      <3> QED
        BY <1>2, <1>4, <2>7, <3>1, QuietHandshaking
    <2>12. Pending'
      <3>1. \A i \in DOMAIN Q : Q[i] \in Streams /\ Q[i] # c
        BY <2>1, <2>3
      <3>2. \A i \in DOMAIN Q : con'[Q[i]].st = "queued" /\ \A j \in DOMAIN Q : Q[i] = Q[j] => i = j
        BY <2>1, <2>3, <2>6, <3>1
      <3>3. pend' = Q
        BY <1>6, <2>2
      <3> QED
        BY <1>2, <1>4, <2>3, <3>2, <3>3 DEF Pending
    <2>13. StreamShut = {}
      BY <1>1, <1>2, <1>6, <2>7 DEF AcceptOK, StreamShut
    <2>14. Fate(con[c], hsclosed) = "pending" /\ Fate(r, hsclosed) = "accepted"
      BY <2>4, <2>5, <2>7 DEF Fate
    <2>15. Contract
      BY <1>3, <2>3, <2>5, <2>13, <2>14, ContractOne
    <2> QED
      BY <1>1, <1>2, <1>4, <2>10, <2>11, <2>12, <2>15, InvNext
  <1> QED
    BY <1>5, <1>6 DEF wsAccept

LEMMA acceptPipeStep ==
  ASSUME StreamInv, acceptPipe
  PROVE  StreamInv' /\ Contract
  <1>1. hsWait("listener", acc, acc') /\ workq' = workq /\ pend' = pend /\ Tran # "ws" /\ acc = "check"
    BY DEF acceptPipe, hsWait, Handshaken
  <1>2. Frame
    BY <1>1 DEF acceptPipe, Frame, UnchL, UnchC
  <1> QED
    BY <1>1, <1>2, WaitMoves DEF Sides

LEMMA pipeCloseStep ==
  ASSUME StreamInv, NEW c \in Streams, pipeClose(c)
  PROVE  StreamInv' /\ Contract
  <1>1. Conns /\ Handshaking /\ workq \in SUBSET Streams
    BY InvIs
  <1>2. /\ con[c].st = "given" /\ pend' = pend /\ doneq' = doneq /\ workq' = workq
        /\ con' = [con EXCEPT ![c] = [Closed(con[c]) EXCEPT !.bye = TRUE]]
    BY DEF pipeClose, UnchH
  <1>3. Frame
    BY UnchFrame DEF pipeClose, UnchH, UnchA
  <1>4. PICK q : q = Closed(con[c])
    OBVIOUS
  <1>5. q \in ConState /\ q.st = "given"
    BY <1>1, <1>2, <1>4, ClosedIs, Zenon DEF Conns
  <1>6. PICK r : r = [q EXCEPT !.bye = TRUE]
    BY Zenon
  <1>7. r \in ConState /\ r.st = "given" /\ r.bye = TRUE
    BY <1>5, <1>6, Zenon DEF ConState
  <1>8. con' = [con EXCEPT ![c] = r]
    BY <1>2, <1>4, <1>6
  <1>9. Becomes(c, r)
    BY <1>1, <1>7, <1>8 DEF Conns, Becomes
  <1>10. ConOK(c, con[c], hsclosed)
    BY <1>1 DEF Conns
  <1>11. ConOK(c, r, hsclosed) /\ Onward(Fate(con[c], hsclosed), Fate(r, hsclosed))
    BY <1>2, <1>7, <1>10 DEF ConOK, Alive, Onward, Fate
  <1>12. c \notin workq /\ workq' \in SUBSET (workq \cup {c})
    BY <1>1, <1>2 DEF Handshaking, InWork
  <1> QED
    BY <1>2, <1>3, <1>7, <1>9, <1>11, <1>12, OneMoves

----------------------------------------------------------------------------
\* Dial.
LEMMA DialFrame ==
  ASSUME UnchDial
  PROVE  Frame /\ pend' = pend
  BY UnchFrame DEF UnchDial

LEMMA ConnectStep ==
  ASSUME StreamInv, NEW c \in Streams, NEW st \in {"made", "tls"}, Connect(c, st), Tran # "ws",
         st = "tls" => Tran = "tls"
  PROVE  StreamInv' /\ Contract
  <1>1. con[c].st = "none" /\ Stage(c, st) /\ workq' = workq /\ doneq' = doneq /\ pend' = pend /\ Frame
    BY DialFrame DEF Connect
  <1>2. c \notin workq /\ workq' \in SUBSET (workq \cup {c})
    BY <1>1, InvIs DEF Handshaking, InWork
  <1> QED
    BY <1>1, <1>2, StageMoves

LEMMA NegotiateStep ==
  ASSUME StreamInv, NEW c \in Streams, Negotiate(c), Tran # "ws"
  PROVE  StreamInv' /\ Contract
  BY DialFrame, StartMoves DEF Negotiate

LEMMA AwaitOwnStep ==
  ASSUME StreamInv, AwaitOwn, Tran # "ws"
  PROVE  StreamInv' /\ Contract
  <1>1. hsWait("dialer", dpc, dpc') /\ workq' = workq /\ pend' = pend /\ Frame
    BY DialFrame DEF AwaitOwn
  <1> QED
    BY <1>1, WaitMoves DEF Sides

LEMMA tlsDialStep ==
  ASSUME StreamInv, NEW c \in Streams, tlsDial(c)
  PROVE  StreamInv' /\ Contract
  <1>1. Tran = "tls"
    BY DEF tlsDial
  <1>2. CASE Connect(c, "tls")
    BY <1>1, <1>2, ConnectStep
  <1>3. CASE Negotiate(c)
    BY <1>1, <1>3, NegotiateStep
  <1>4. CASE AwaitOwn
    BY <1>1, <1>4, AwaitOwnStep
  <1>5. CASE con[c].st = "tls" /\ (Stage(c, "made") \/ Fail(c)) /\ workq' = workq /\ doneq' = doneq /\ UnchDial
    <2>1. Frame /\ pend' = pend
      BY <1>5, DialFrame
    <2>2. c \notin workq /\ workq' \in SUBSET (workq \cup {c})
      BY <1>5, InvIs DEF Handshaking, InWork
    <2>3. CASE Stage(c, "made")
      BY <1>1, <1>5, <2>1, <2>2, <2>3, StageMoves
    <2>4. CASE Fail(c)
      BY <1>1, <1>5, <2>1, <2>4, FailMoves
    <2> QED
      BY <1>5, <2>3, <2>4
  <1> QED
    BY <1>2, <1>3, <1>4, <1>5 DEF tlsDial

LEMMA wsDialStep ==
  ASSUME StreamInv, NEW c \in Streams, wsDial(c)
  PROVE  StreamInv' /\ Contract
  <1>1. /\ con[c].st = "none" /\ conf.side[c] = "dialer" /\ Tran = "ws" /\ workq' = workq /\ doneq' = doneq
        /\ Stage(c, "given") \/ Fail(c)
    BY DEF wsDial, Mine
  <1>2. Frame /\ pend' = pend
    BY DialFrame DEF wsDial
  <1>3. CASE Fail(c)
    BY <1>1, <1>2, <1>3, FailMoves
  <1>4. CASE Stage(c, "given")
    <2>1. Conns
      BY InvIs
    <2>2. PICK r \in ConState : Becomes(c, r) /\ r.st = "given" /\ r.sock = con[c].sock
      BY <1>4, <2>1, StageIs DEF Conns
    <2>3. ConOK(c, con[c], hsclosed)
      BY <2>1 DEF Conns
    <2>4. ConOK(c, r, hsclosed)
      BY <1>1, <2>2, <2>3 DEF ConOK, Alive
    <2>5. c \notin workq /\ workq' \in SUBSET (workq \cup {c})
      BY <1>1, InvIs DEF Handshaking, InWork
    <2> QED
      BY <1>1, <1>2, <2>2, <2>4, <2>5, OneMoves
  <1> QED
    BY <1>1, <1>3, <1>4

LEMMA DialingStep ==
  ASSUME StreamInv, Dialing
  PROVE  StreamInv' /\ Contract
  <1>1. PICK c \in Streams : tcpDial(c) \/ unixDial(c) \/ winpipeDial(c) \/ tlsDial(c) \/ wsDial(c)
    BY DEF Dialing
  <1>2. CASE tcpDial(c) \/ unixDial(c) \/ winpipeDial(c)
    <2>1. Tran # "ws" /\ (Connect(c, "made") \/ Negotiate(c) \/ AwaitOwn)
      BY <1>2 DEF tcpDial, unixDial, winpipeDial
    <2> QED
      BY <2>1, ConnectStep, NegotiateStep, AwaitOwnStep
  <1> QED
    BY <1>1, <1>2, tlsDialStep, wsDialStep

----------------------------------------------------------------------------
\* Listen and Close.
LEMMA BindIs ==
  ASSUME NEW ok, Bind(ok), Tran = "ws"
  PROVE  loop' = loop
  BY DEF Bind, Looping

\* While Listen has not returned nobody is in Accept.
LEMMA ListenStep ==
  ASSUME StreamInv,
         listenClosed \/ listenCheck \/ tcpListen \/ tlsListen \/ unixListen \/ winpipeListen
         \/ wsListen \/ wsUseHandler
  PROVE  StreamInv' /\ Contract
  <1>1. /\ lpc \in {"idle", "checked"} /\ conf' = conf /\ con' = con /\ hsclosed' = hsclosed
        /\ workq' = workq /\ doneq' = doneq /\ closeq' = closeq /\ cpc' = cpc /\ acc' = acc
    BY DEF listenClosed, listenCheck, tcpListen, tlsListen, unixListen, winpipeListen, wsListen,
           wsUseHandler, UnchBind, UnchH, UnchC, UnchA
  <1>2. pend' = pend \/ pend' = <<>>
    BY DEF listenClosed, listenCheck, tcpListen, tlsListen, unixListen, winpipeListen, wsListen,
           wsUseHandler, UnchBind
  <1>3. closeq \in BOOLEAN /\ running \in BOOLEAN /\ AcceptOK
    BY InvIs
  <1>4. running' \in BOOLEAN
    BY <1>3, Zenon DEF listenClosed, listenCheck, tcpListen, tlsListen, unixListen, winpipeListen, wsListen,
           wsUseHandler, UnchBind
  <1>5. Tran = "ws" => loop' = loop
    BY BindIs DEF listenClosed, listenCheck, tcpListen, tlsListen, unixListen, winpipeListen, wsListen,
           wsUseHandler
  <1>6. AcceptOK'
    BY <1>1, <1>3 DEF AcceptOK
  <1> QED
    BY <1>1, <1>2, <1>3, <1>4, <1>5, <1>6, Quiet

LEMMA CloseStep ==
  ASSUME StreamInv,
         tcpClose \/ tlsClose \/ unixClose \/ unixCloseq \/ winpipeClose \/ setListenFD \/ loopEnds
  PROVE  StreamInv' /\ Contract
  <1>1. /\ conf' = conf /\ con' = con /\ hsclosed' = hsclosed /\ workq' = workq /\ doneq' = doneq
        /\ pend' = pend /\ acc' = acc /\ lpc' = lpc /\ running' = running
        /\ closeq' \in {closeq, TRUE} /\ (closeq' # closeq => cpc' # "idle")
        /\ cpc' = cpc \/ cpc' # "idle"
        /\ Tran # "ws"
    BY Zenon DEF tcpClose, tlsClose, unixClose, unixCloseq, winpipeClose, setListenFD, loopEnds,
           UnchH, UnchA, UnchL, UnchC, Looping
  <1>2. closeq \in BOOLEAN /\ running \in BOOLEAN /\ AcceptOK
    BY InvIs
  <1>3. AcceptOK'
    BY <1>1, <1>2 DEF AcceptOK, Tran
  <1> QED
    BY <1>1, <1>2, <1>3, Quiet, Zenon

LEMMA serveStep ==
  ASSUME StreamInv, serve
  PROVE  StreamInv' /\ Contract
  <1>1. /\ conf' = conf /\ con' = con /\ hsclosed' = hsclosed /\ workq' = workq /\ doneq' = doneq
        /\ pend' = pend /\ lpc = "done" /\ lpc' = lpc /\ running' = running /\ loop' = loop
        /\ closeq' = closeq /\ cpc' = cpc /\ acc' = IF cpc = "idle" THEN "check" ELSE "over"
    BY DEF serve, UnchL, UnchH, UnchC
  <1>2. closeq \in BOOLEAN /\ running \in BOOLEAN /\ AcceptOK
    BY InvIs
  <1>3. AcceptOK'
    BY <1>1, <1>2 DEF AcceptOK, Tran
  <1> QED
    BY <1>1, <1>2, <1>3, Quiet

LEMMA tlsForgetStep ==
  ASSUME StreamInv, NEW c \in Streams, tlsForget(c)
  PROVE  StreamInv' /\ Contract
  <1>1. /\ conf' = conf /\ con' = con /\ Tran = "tls" /\ UnchL /\ UnchH /\ UnchC /\ UnchA
    BY DEF tlsForget
  <1>2. Frame
    BY <1>1, UnchFrame DEF UnchH, UnchA
  <1>3. AcceptOK' /\ closeq' \in BOOLEAN /\ running' \in BOOLEAN
    BY <1>2, FrameIs
  <1> QED
    BY <1>1, <1>3, Quiet DEF UnchH, UnchC

----------------------------------------------------------------------------
LEMMA StreamStep ==
  ASSUME StreamInv, [StreamNext]_svars
  PROVE  StreamInv' /\ Contract
  <1>1. ASSUME NEW c \in Streams, Worker(c) PROVE StreamInv' /\ Contract
    BY <1>1, hsReadStep, hsFinishStep, BreakStep, hsWorkerStep, socketStartStep, wsServeStep,
       wsHandlerStep, tlsStartStep, tlsHandOverStep DEF Worker, Handshake
  <1>2. ASSUME NEW c \in Streams, tlsForget(c) \/ loopAccept(c) \/ setSocketFD(c) \/ wsServeHTTP(c) \/ pipeClose(c)
        PROVE  StreamInv' /\ Contract
    BY <1>2, tlsForgetStep, loopAcceptStep, setSocketFDStep, wsServeStep, pipeCloseStep
  <1>3. CASE Listening \/ listenClosed \/ listenCheck \/ unixListen \/ winpipeListen \/ wsUseHandler
    BY <1>3, ListenStep DEF Listening
  <1>4. CASE Accepting \/ Looping1 \/ socketListen \/ setListenFD
    BY <1>4, serveStep, acceptPipeStep, wsAcceptStep, loopStartStep, CloseStep, socketListenStep
       DEF Accepting, Looping1
  <1>5. CASE CloseBegins \/ CloseGoesOn
    BY <1>5, CloseStep, KeeperClose, tlsCloseConnsStep, closeHandshakerStep DEF CloseBegins, CloseGoesOn
  <1>6. CASE UNCHANGED svars
    <2>1. /\ conf' = conf /\ con' = con /\ hsclosed' = hsclosed /\ workq' = workq /\ doneq' = doneq
          /\ pend' = pend /\ lpc' = lpc /\ running' = running /\ loop' = loop
          /\ closeq' = closeq /\ cpc' = cpc /\ acc' = acc
      BY <1>6, Zenon DEF svars
    <2>2. closeq \in BOOLEAN /\ running \in BOOLEAN /\ AcceptOK
      BY InvIs
    <2>3. AcceptOK'
      BY <2>1, <2>2 DEF AcceptOK, Tran
    <2> QED
      BY <2>1, <2>2, <2>3, Quiet
  <1> QED
    BY <1>1, <1>2, <1>3, <1>4, <1>5, <1>6, DialingStep DEF StreamNext

LEMMA StreamInitially ==
  ASSUME StreamInit
  PROVE  StreamInv
  <1>1. PICK r : r = [st |-> "none", sock |-> TRUE, pcl |-> FALSE, bye |-> FALSE]
    BY Zenon
  <1>2. r \in ConState /\ r.st = "none" /\ r.sock = TRUE
    BY <1>1 DEF ConState, Alive
  <1>3. con = [c \in Streams |-> r]
    BY <1>1 DEF StreamInit
  <1>4. /\ conf \in StreamRuns /\ acc = "idle" /\ loop = "off" /\ closeq = FALSE /\ running = FALSE
        /\ pend = <<>> /\ hsclosed = FALSE /\ workq = {} /\ doneq = [s \in Sides |-> <<>>]
    BY DEF StreamInit
  <1>5. <<>> \in Seq(Result) /\ <<>> \in Seq(Streams) /\ DOMAIN <<>> = {}
    OBVIOUS
  <1>6. StreamTypeOK
    BY <1>2, <1>3, <1>4, <1>5, Zenon DEF StreamTypeOK
  <1>7. \A c \in Streams : ConOK(c, con[c], hsclosed)
    BY <1>2, <1>3 DEF ConOK, Alive
  <1>8. Handshaking /\ Pending /\ AcceptOK
    BY <1>4, <1>5 DEF Handshaking, Pending, AcceptOK
  <1> QED
    BY <1>6, <1>7, <1>8 DEF StreamInv

LEMMA StreamInvariant == StreamSpec => []StreamInv
  BY StreamInitially, StreamStep, PTL DEF StreamSpec

\* Over any stream transport but tls+tcp, whatever Close of the listener races
\* with, a connection that Accept or Dial returned is closed only by its owner.
THEOREM EstablishedStay == StreamSpec => []EstablishedUnaffected
  <1>1. StreamInv => EstablishedUnaffected
    BY DEF StreamInv, ConOK, EstablishedUnaffected
  <1> QED
    BY <1>1, StreamInvariant, PTL

LEMMA FateIs == \A c : StreamFate(c) = Fate(con[c], hsclosed)
  BY DEF StreamFate, Fate

\* What an observer of the listener sees of any connection.
Seen(c) == IF c \in Mine("listener") THEN StreamFate(c) ELSE "none"

LEMMA SeenStep ==
  ASSUME Contract, NEW x, NEW c \in Streams, Allowed(c, x)
  PROVE  \/ Seen(c)' = Seen(c)
         \/ Seen(c) = "none" /\ Seen(c)' \in {"pending", "gone"}
         \/ Seen(c) = "pending" /\ Seen(c)' = "gone"
         \/ c = x /\ StreamShut = {} /\ Seen(c) = "pending" /\ Seen(c)' = "accepted"
  <1>1. conf' = conf
    BY DEF Contract
  <1>2. Seen(c) = IF conf.side[c] = "listener" THEN Fate(con[c], hsclosed) ELSE "none"
    BY FateIs DEF Seen, Mine
  <1>3. Seen(c)' = IF conf.side[c] = "listener" THEN Fate(con'[c], hsclosed') ELSE "none"
    <2>1. StreamFate(c)' = Fate(con'[c], hsclosed')
      BY DEF StreamFate, Fate
    <2> QED
      BY <1>1, <2>1 DEF Seen, Mine
  <1> QED
    BY <1>2, <1>3 DEF Allowed, Onward

\* Over every stream transport the listener keeps the contract of TranListener: a
\* connection is handed out once, before Close, or it is closed.
THEOREM StreamImplements == StreamSpec => StreamEndpoint!EndpointSafety
  <1> DEFINE Shown == [c \in Streams |-> Seen(c)]
  <1>1. StreamInit => StreamEndpoint!EndpointInit
    <2> SUFFICES ASSUME StreamInit
                 PROVE  StreamShut = {} /\ Shown = [c \in Streams |-> "none"]
      BY DEF StreamEndpoint!EndpointInit, Seen
    <2>1. StreamShut = {}
      BY DEF StreamInit, StreamShut
    <2>2. \A c \in Streams : con[c].st = "none"
      BY DEF StreamInit
    <2>3. \A c \in Streams : Seen(c) = "none"
      BY <2>2, FateIs DEF Seen, Fate
    <2> QED
      BY <2>1, <2>3
  <1>2. StreamInv /\ [StreamNext]_svars => StreamEndpoint!EndpointNext
    <2> SUFFICES ASSUME StreamInv, [StreamNext]_svars PROVE StreamEndpoint!EndpointNext
      OBVIOUS
    <2>1. Contract
      BY StreamStep
    <2>2. PICK x : \A c \in Streams : Allowed(c, x)
      BY <2>1 DEF Contract
    <2>3. StreamShut' \in {StreamShut \cup ls : ls \in SUBSET {"listener"}}
      <3>1. StreamShut' = StreamShut \cup StreamShut' /\ StreamShut' \in SUBSET {"listener"}
        BY <2>1 DEF StreamShut, Contract, Tran
      <3> QED
        BY <3>1
    <2>4. \A c \in Streams : Shown[c] = Seen(c) /\ Shown'[c] = Seen(c)'
      OBVIOUS
    <2>5. \A c \in Streams :
             \/ Shown'[c] = Shown[c]
             \/ Shown[c] = "none" /\ Shown'[c] \in {"pending", "gone"}
             \/ Shown[c] = "pending" /\ Shown'[c] = "gone"
             \/ c = x /\ StreamShut = {} /\ Shown[c] = "pending" /\ Shown'[c] = "accepted"
      <3> HIDE DEF Shown
      <3> TAKE c \in Streams
      <3>1. Allowed(c, x)
        BY <2>2
      <3>2. \/ Seen(c)' = Seen(c)
            \/ Seen(c) = "none" /\ Seen(c)' \in {"pending", "gone"}
            \/ Seen(c) = "pending" /\ Seen(c)' = "gone"
            \/ c = x /\ StreamShut = {} /\ Seen(c) = "pending" /\ Seen(c)' = "accepted"
        BY <2>1, <3>1, SeenStep
      <3> QED
        BY <2>4, <3>2, Zenon
    <2>6. \A c, d \in Streams :
             /\ Shown[c] = "pending" /\ Shown'[c] = "accepted"
             /\ Shown[d] = "pending" /\ Shown'[d] = "accepted"
             => c = d
      <3> HIDE DEF Shown
      <3> QED
        BY <2>5
    <2>7. DOMAIN Shown' = Streams
      OBVIOUS
    <2>8. \A c \in Streams :
             /\ StreamEndpoint!Stays(c) <=> Shown'[c] = Shown[c]
             /\ StreamEndpoint!Arrive(c) <=> Shown[c] = "none" /\ Shown'[c] = "pending"
             /\ StreamEndpoint!Goes(c, "none", "gone") <=> Shown[c] = "none" /\ Shown'[c] = "gone"
             /\ StreamEndpoint!Goes(c, "pending", "gone") <=> Shown[c] = "pending" /\ Shown'[c] = "gone"
             /\ StreamEndpoint!Goes(c, "pending", "accepted") <=> Shown[c] = "pending" /\ Shown'[c] = "accepted"
      BY Zenon DEF StreamEndpoint!Stays, StreamEndpoint!Arrive, StreamEndpoint!Goes, Seen
    <2>9. \A c \in Streams :
             StreamEndpoint!Accept(c) <=>
                 "listener" \notin StreamShut /\ Shown[c] = "pending" /\ Shown'[c] = "accepted"
      <3>1. \A c \in Streams : [d \in Streams |-> "listener"][c] = "listener"
        OBVIOUS
      <3> HIDE DEF Shown
      <3> QED
        BY <2>8, <3>1, Zenon DEF StreamEndpoint!Accept
    <2>10. \A c \in Streams : \/ StreamEndpoint!Stays(c) \/ StreamEndpoint!Arrive(c)
                              \/ StreamEndpoint!Drop(c) \/ StreamEndpoint!Accept(c)
      <3> HIDE DEF Shown
      <3> QED
        BY <2>5, <2>8, <2>9 DEF StreamEndpoint!Drop
    <2>11. \A c, d \in Streams : StreamEndpoint!Accept(c) /\ StreamEndpoint!Accept(d) => c = d
      <3> HIDE DEF Shown
      <3> QED
        BY <2>6, <2>9
    <2> QED
      BY <2>3, <2>7, <2>10, <2>11, Zenon DEF StreamEndpoint!EndpointNext, Seen
  <1> QED
    BY <1>1, <1>2, StreamInvariant, PTL DEF StreamSpec, StreamEndpoint!EndpointSafety
=============================================================================
