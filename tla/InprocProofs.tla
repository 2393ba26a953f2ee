---------------------------- MODULE InprocProofs ----------------------------
(***************************************************************************)
(* Proofs about the inproc transport, for any number of listeners and      *)
(* dials: the table of listeners and the pairs it makes are exact, and a   *)
(* listener implements the safety part of the contract of TranListener.    *)
(***************************************************************************)
EXTENDS Inproc, TLAPS

\* A server pipe belongs to a listener.
LEMMA ServerOf == \A s \in Servers : s[1] \in Doors
  BY DEF Servers

(***************************************************************************)
(* What assignments to a field of a listener, call or pipe do.             *)
(***************************************************************************)

\* A Broadcast changes neither the peers of the dials nor which have one.
LEMMA CliAwake ==
  ASSUME cli \in [Clients -> CliState], cli' = Awake
  PROVE  /\ cli' \in [Clients -> CliState]
         /\ \A c \in Clients : /\ cli'[c].peer = cli[c].peer
                               /\ cli'[c].pc \in {"link", "done"} <=> cli[c].pc \in {"link", "done"}
  BY DEF Awake, CliState

LEMMA CliMoves ==
  ASSUME cli \in [Clients -> CliState], NEW d \in Clients,
         NEW a \in {"check", "asleep", "done", "refused", "badproto"},
         cli' = [cli EXCEPT ![d].pc = a]
  PROVE  /\ cli' \in [Clients -> CliState]
         /\ \A c \in Clients : /\ cli'[c].peer = cli[c].peer
                               /\ cli'[c].pc = IF c = d THEN a ELSE cli[c].pc
  BY DEF CliState

LEMMA SrvMoves ==
  ASSUME srv \in [Servers -> SrvState], NEW x,
         NEW a \in {"free", "queued", "popped", "ready", "accepted"},
         srv' = [srv EXCEPT ![x].st = a]
  PROVE  /\ srv' \in [Servers -> SrvState]
         /\ \A s \in Servers : /\ srv'[s].peer = srv[s].peer
                               /\ srv'[s].st = IF s = x THEN a ELSE srv[s].st
  BY DEF SrvState

LEMMA AccMoves ==
  ASSUME iacc \in [Doors -> AccState], NEW l \in Doors, NEW a \in {"off", "idle", "wait", "over"},
         iacc' = [iacc EXCEPT ![l].at = a]
  PROVE  iacc' \in [Doors -> AccState]
  BY DEF AccState

(***************************************************************************)
(* The queue of server pipes.                                              *)
(***************************************************************************)

LEMMA EmptyIsSeq == <<>> \in Seq(Servers)
  OBVIOUS

LEMMA AppendIsSeq ==
  ASSUME NEW Q \in Seq(Servers), NEW s \in Servers
  PROVE  Append(Q, s) \in Seq(Servers)
  OBVIOUS

LEMMA AppendElements ==
  ASSUME NEW Q \in Seq(Servers), NEW s \in Servers, NEW i \in DOMAIN Append(Q, s)
  PROVE  \/ i \in DOMAIN Q /\ Append(Q, s)[i] = Q[i]
         \/ i = Len(Q) + 1 /\ Append(Q, s)[i] = s
  OBVIOUS

LEMMA FrontFacts ==
  ASSUME NEW Q \in Seq(Servers), Q # <<>>
  PROVE  /\ SubSeq(Q, 1, Len(Q) - 1) \in Seq(Servers)
         /\ \A i \in DOMAIN SubSeq(Q, 1, Len(Q) - 1) : i \in DOMAIN Q /\ i # Len(Q) /\ SubSeq(Q, 1, Len(Q) - 1)[i] = Q[i]
         /\ Len(Q) \in DOMAIN Q /\ Q[Len(Q)] \in Servers
  OBVIOUS

LEMMA DoorListens ==
  ASSUME door \in [Doors -> DoorState], NEW l \in Doors, door' = [door EXCEPT ![l].active = TRUE]
  PROVE  /\ door' \in [Doors -> DoorState]
         /\ \A d \in Doors : /\ door'[d].accepters = door[d].accepters
                             /\ door'[d].closing = door[d].closing
                             /\ door'[d].closed <=> door[d].closed
                             /\ door'[d].active <=> (d = l \/ door[d].active)
  BY DEF DoorState

LEMMA DoorQueues ==
  ASSUME door \in [Doors -> DoorState], NEW l \in Doors, NEW Q \in Seq(Servers),
         door' = [door EXCEPT ![l].accepters = Q]
  PROVE  /\ door' \in [Doors -> DoorState]
         /\ \A d \in Doors : /\ door'[d].accepters = IF d = l THEN Q ELSE door[d].accepters
                             /\ door'[d].closing = door[d].closing
                             /\ door'[d].closed <=> door[d].closed
                             /\ door'[d].active <=> door[d].active
  BY DEF DoorState

LEMMA DoorCloses ==
  ASSUME door \in [Doors -> DoorState], NEW l \in Doors, NEW C \in SUBSET Servers,
         door' = [door EXCEPT ![l].closed = TRUE, ![l].closing = C, ![l].accepters = <<>>]
  PROVE  /\ door' \in [Doors -> DoorState]
         /\ \A d \in Doors : /\ door'[d].accepters = IF d = l THEN <<>> ELSE door[d].accepters
                             /\ door'[d].closing = IF d = l THEN C ELSE door[d].closing
                             /\ door'[d].closed <=> (d = l \/ door[d].closed)
                             /\ door'[d].active <=> door[d].active
  <1>1. PICK q \in DoorState : q = door[l]
    OBVIOUS
  <1>2. PICK r1 \in DoorState : r1 = [q EXCEPT !.closed = TRUE]
    BY DEF DoorState
  <1>3. PICK r2 \in DoorState : r2 = [r1 EXCEPT !.closing = C]
    BY DEF DoorState
  <1>a. PICK e \in Seq(Servers) : e = <<>>
    BY EmptyIsSeq
  <1>4. PICK r \in DoorState : r = [r2 EXCEPT !.accepters = e]
    BY DEF DoorState
  <1>5. door' = [door EXCEPT ![l] = r]
    BY <1>1, <1>2, <1>3, <1>a, <1>4
  <1>6. r.accepters = <<>> /\ r.closing = C /\ r.closed = TRUE /\ r.active = q.active
    BY <1>2, <1>3, <1>a, <1>4 DEF DoorState
  <1>7. \A d \in Doors : door'[d] = IF d = l THEN r ELSE door[d]
    BY <1>5
  <1>8. door' \in [Doors -> DoorState]
    BY <1>5
  <1> QED
    BY <1>1, <1>6, <1>7, <1>8

LEMMA DoorClosed ==
  ASSUME door \in [Doors -> DoorState], NEW l \in Doors, door' = [door EXCEPT ![l].closing = {}]
  PROVE  /\ door' \in [Doors -> DoorState]
         /\ \A d \in Doors : /\ door'[d].accepters = door[d].accepters
                             /\ door'[d].closing = IF d = l THEN {} ELSE door[d].closing
                             /\ door'[d].closed <=> door[d].closed
                             /\ door'[d].active <=> door[d].active
  BY DEF DoorState
(***************************************************************************)
(* The invariant.                                                          *)
(***************************************************************************)
LEMMA InprocInitInv == InprocInit => InprocInv
  <1> SUFFICES ASSUME InprocInit PROVE InprocInv
    OBVIOUS
  <1>1. InprocTypeOK
    BY DEF InprocInit, InprocTypeOK, Nobody, DoorState, AccState, SrvState, CliState
  <1>2. PairsExact
    BY InprocAssumption DEF InprocInit, PairsExact, Range, Nobody
  <1>3. QueueExact
    BY DEF InprocInit, QueueExact
  <1>4. JoinExact
    BY DEF InprocInit, JoinExact
  <1> QED
    BY <1>1, <1>2, <1>3, <1>4 DEF InprocInv

LEMMA ListenInv ==
  ASSUME InprocInv, NEW l \in Doors, inprocListen(l)
  PROVE  InprocInv'
  <1>1. InprocTypeOK /\ PairsExact /\ QueueExact /\ JoinExact
    BY DEF InprocInv
  <1>2. /\ door' = [door EXCEPT ![l].active = TRUE] /\ byAddr' = l /\ byAddr = NoDoor
        /\ ~door[l].closed /\ iacc' = [iacc EXCEPT ![l].at = "idle"]
        /\ cli' = Awake /\ srv' = srv /\ shutp' = shutp
    BY DEF inprocListen
  <1>3. InprocTypeOK'
    BY <1>1, <1>2, CliAwake, DoorListens, AccMoves DEF InprocTypeOK
  <1>4. \A d \in Doors : /\ door'[d].accepters = door[d].accepters
                         /\ door'[d].closing = door[d].closing
                         /\ door'[d].closed <=> door[d].closed
                         /\ door'[d].active <=> (d = l \/ door[d].active)
    BY <1>1, <1>2, DoorListens DEF InprocTypeOK
  <1>5. \A c \in Clients : /\ cli'[c].peer = cli[c].peer
                           /\ cli'[c].pc \in {"link", "done"} <=> cli[c].pc \in {"link", "done"}
    BY <1>1, <1>2, CliAwake DEF InprocTypeOK
  <1>6. PairsExact'
    <2>1. \A d \in Doors : byAddr' = d <=> door'[d].active /\ ~door'[d].closed
      BY <1>1, <1>2, <1>4, InprocAssumption DEF PairsExact
    <2>2. \A c \in Clients, d \in Doors : cli'[c].peer \notin Range(door'[d].accepters)
      BY <1>1, <1>4, <1>5 DEF PairsExact
    <2>3. \A c, d \in Clients : cli'[c].peer # Nobody /\ cli'[c].peer = cli'[d].peer => c = d
      BY <1>1, <1>5 DEF PairsExact
    <2>4. \A s \in Servers : srv'[s].peer # Nobody => cli'[srv'[s].peer].peer = s
      BY <1>1, <1>2, <1>5 DEF PairsExact, InprocTypeOK, SrvState
    <2> QED
      BY <2>1, <2>2, <2>3, <2>4 DEF PairsExact
  <1>7. QueueExact'
    BY <1>1, <1>2, <1>4 DEF QueueExact
  <1>8. JoinExact'
    BY <1>1, <1>2, <1>5 DEF JoinExact
  <1> QED
    BY <1>3, <1>6, <1>7, <1>8 DEF InprocInv

LEMMA SameTables ==
  ASSUME PairsExact, QueueExact, JoinExact,
         byAddr' = byAddr, door' = door, srv' = srv, cli' = cli, shutp' = shutp
  PROVE  PairsExact' /\ QueueExact' /\ JoinExact'
  <1>1. PairsExact'
    BY Zenon DEF PairsExact
  <1>2. QueueExact'
    BY DEF QueueExact
  <1>3. JoinExact'
    BY Zenon DEF JoinExact
  <1> QED
    BY <1>1, <1>2, <1>3

LEMMA AcceptInv ==
  ASSUME InprocInv, NEW l \in Doors, inprocAccept(l)
  PROVE  InprocInv'
  <1>1. InprocTypeOK /\ PairsExact /\ QueueExact /\ JoinExact
    BY DEF InprocInv
  <1>2. byAddr' = byAddr /\ shutp' = shutp
    BY DEF inprocAccept
  <1>3. CASE iacc' = [iacc EXCEPT ![l].at = "over"] /\ UNCHANGED <<door, srv, cli>>
    <2>1. InprocTypeOK'
      BY <1>1, <1>2, <1>3, AccMoves DEF InprocTypeOK
    <2> QED
      BY <1>1, <1>2, <1>3, <2>1, SameTables DEF InprocInv
  <1>4. ASSUME ~door[l].closed, cli' = Awake, NEW s \in Servers, Fresh(l, s),
               door' = [door EXCEPT ![l].accepters = Append(@, s)],
               srv' = [srv EXCEPT ![s].st = "queued"],
               iacc' = [iacc EXCEPT ![l] = [at |-> "wait", pipe |-> s]]
        PROVE  InprocInv'
    <2>1. door \in [Doors -> DoorState] /\ door[l].accepters \in Seq(Servers)
      BY <1>1 DEF InprocTypeOK, DoorState
    <2>2. PICK Q \in Seq(Servers) : Q = Append(door[l].accepters, s)
      BY <2>1, AppendIsSeq
    <2>3. door' = [door EXCEPT ![l].accepters = Q]
      BY <1>4, <2>2
    <2>4. \A d \in Doors : /\ door'[d].accepters = IF d = l THEN Q ELSE door[d].accepters
                           /\ door'[d].closing = door[d].closing
                           /\ door'[d].closed <=> door[d].closed
                           /\ door'[d].active <=> door[d].active
      BY <2>1, <2>3, DoorQueues
    <2>5. \A c \in Clients : /\ cli'[c].peer = cli[c].peer
                             /\ cli'[c].pc \in {"link", "done"} <=> cli[c].pc \in {"link", "done"}
      BY <1>1, <1>4, CliAwake DEF InprocTypeOK
    <2>6. \A t \in Servers : /\ srv'[t].peer = srv[t].peer
                             /\ srv'[t].st = IF t = s THEN "queued" ELSE srv[t].st
      BY <1>1, <1>4, SrvMoves DEF InprocTypeOK
    <2>7. s[1] = l /\ srv[s].st = "free" /\ s \notin shutp
      BY <1>1, <1>4 DEF Fresh, QueueExact
    <2>8. InprocTypeOK'
      <3>1. door' \in [Doors -> DoorState]
        BY <2>1, <2>3, DoorQueues
      <3>2. srv' \in [Servers -> SrvState] /\ cli' \in [Clients -> CliState]
        BY <1>1, <1>4, SrvMoves, CliAwake DEF InprocTypeOK
      <3>3. iacc' \in [Doors -> AccState]
        BY <1>1, <1>4 DEF InprocTypeOK, AccState
      <3> QED
        BY <1>1, <1>2, <3>1, <3>2, <3>3 DEF InprocTypeOK
    <2>9. ASSUME NEW i \in DOMAIN Q
          PROVE  \/ i \in DOMAIN door[l].accepters /\ Q[i] = door[l].accepters[i]
                 \/ i = Len(door[l].accepters) + 1 /\ Q[i] = s
      BY <2>1, <2>2, AppendElements
    <2>10. PairsExact'
      <3>1. \A d \in Doors : byAddr' = d <=> door'[d].active /\ ~door'[d].closed
        BY <1>1, <1>2, <2>4 DEF PairsExact
      <3>2. ASSUME NEW c \in Clients, NEW d \in Doors
            PROVE  cli'[c].peer \notin Range(door'[d].accepters)
        <4>1. CASE d # l
          BY <4>1, <1>1, <2>4, <2>5 DEF PairsExact
        <4>2. CASE d = l
          <5>1. cli[c].peer # s
            BY <1>1, <2>7, InprocAssumption DEF JoinExact, Nobody
          <5> QED
            BY <4>2, <5>1, <1>1, <2>4, <2>5, <2>9 DEF PairsExact, Range
        <4> QED
          BY <4>1, <4>2
      <3>3. \A c, d \in Clients : cli'[c].peer # Nobody /\ cli'[c].peer = cli'[d].peer => c = d
        BY <1>1, <2>5 DEF PairsExact
      <3>4. \A t \in Servers : srv'[t].peer # Nobody => cli'[srv'[t].peer].peer = t
        BY <1>1, <2>5, <2>6 DEF PairsExact, InprocTypeOK, SrvState
      <3> QED
        BY <3>1, <3>2, <3>3, <3>4 DEF PairsExact
    <2>11. QueueExact'
      <3>1. ASSUME NEW d \in Doors, NEW i \in DOMAIN door'[d].accepters
            PROVE  LET t == door'[d].accepters[i] IN
                   /\ t[1] = d /\ srv'[t].st = "queued" /\ t \notin shutp'
                   /\ \A j \in DOMAIN door'[d].accepters : door'[d].accepters[j] = t => i = j
        <4>1. CASE d # l
          <5>1. door[d].accepters[i] \in Servers
            BY <4>1, <2>1, <2>4 DEF DoorState
          <5> QED
            BY <4>1, <5>1, <1>1, <1>2, <2>4, <2>6 DEF QueueExact
        <4>2. CASE d = l
          <5>1. \A j \in DOMAIN door[l].accepters :
                   door[l].accepters[j] \in Servers /\ door[l].accepters[j] # s
            BY <1>1, <2>1, <2>7 DEF QueueExact
          <5> QED
            BY <4>2, <5>1, <1>1, <1>2, <2>4, <2>6, <2>7, <2>9 DEF QueueExact
        <4> QED
          BY <4>1, <4>2
      <3>2. ASSUME NEW d \in Doors, NEW t \in door'[d].closing
            PROVE  t[1] = d /\ srv'[t].st = "queued"
        <4>1. t \in Servers /\ t \in door[d].closing
          BY <2>1, <2>4 DEF DoorState
        <4> QED
          BY <1>1, <2>6, <4>1 DEF QueueExact
      <3>3. \A d \in Doors : door'[d].closing # {} => door'[d].closed
        BY <1>1, <2>4 DEF QueueExact
      <3>4. \A d \in Doors : door'[d].closed => door'[d].accepters = <<>>
        BY <1>1, <1>4, <2>4 DEF QueueExact
      <3>5. \A t \in Servers : srv'[t].st = "free" => t \notin shutp'
        BY <1>1, <1>2, <2>6 DEF QueueExact
      <3> QED
        BY <3>1, <3>2, <3>3, <3>4, <3>5 DEF QueueExact
    <2>12. JoinExact'
      BY <1>1, <2>5, <2>6, <2>7 DEF JoinExact, InprocTypeOK, CliState
    <2> QED
      BY <2>8, <2>10, <2>11, <2>12 DEF InprocInv
  <1> QED
    BY <1>3, <1>4 DEF inprocAccept

LEMMA AcceptReturnsInv ==
  ASSUME InprocInv, NEW l \in Doors, inprocAcceptReturns(l)
  PROVE  InprocInv'
  <1>1. InprocTypeOK /\ PairsExact /\ QueueExact /\ JoinExact
    BY DEF InprocInv
  <1>2. byAddr' = byAddr /\ door' = door /\ cli' = cli /\ shutp' = shutp
    BY DEF inprocAcceptReturns
  <1>3. CASE iacc' = [iacc EXCEPT ![l].at = "over"] /\ srv' = srv
    <2>1. InprocTypeOK'
      BY <1>1, <1>2, <1>3, AccMoves DEF InprocTypeOK
    <2> QED
      BY <1>1, <1>2, <1>3, <2>1, SameTables DEF InprocInv
  <1>4. ASSUME NEW x, srv[x].st = "ready", srv' = [srv EXCEPT ![x].st = "accepted"],
               iacc' = [iacc EXCEPT ![l].at = "idle"]
        PROVE  InprocInv'
    <2>1. srv' \in [Servers -> SrvState] /\ iacc' \in [Doors -> AccState]
      BY <1>1, <1>4, SrvMoves, AccMoves DEF InprocTypeOK
    <2>2. \A t \in Servers : /\ srv'[t].peer = srv[t].peer
                             /\ srv'[t].st = IF t = x THEN "accepted" ELSE srv[t].st
      BY <1>1, <1>4, SrvMoves DEF InprocTypeOK
    <2>3. InprocTypeOK'
      BY <1>1, <1>2, <2>1 DEF InprocTypeOK
    <2>4. PairsExact'
      BY <1>1, <1>2, <2>2 DEF PairsExact
    <2>5. QueueExact'
      <3>1. \A d \in Doors : \A i \in DOMAIN door[d].accepters : door[d].accepters[i] \in Servers
        BY <1>1 DEF InprocTypeOK, DoorState
      <3>2. \A d \in Doors : door[d].closing \subseteq Servers
        BY <1>1 DEF InprocTypeOK, DoorState
      <3> QED
        BY <1>1, <1>2, <1>4, <2>2, <3>1, <3>2 DEF QueueExact
    <2>6. JoinExact'
      BY <1>1, <1>2, <2>2 DEF JoinExact, InprocTypeOK, CliState
    <2> QED
      BY <2>3, <2>4, <2>5, <2>6 DEF InprocInv
  <1> QED
    BY <1>3, <1>4 DEF inprocAcceptReturns

LEMMA QueueAt ==
  ASSUME QueueExact, NEW d \in Doors, NEW i \in DOMAIN door[d].accepters
  PROVE  /\ door[d].accepters[i][1] = d
         /\ srv[door[d].accepters[i]].st = "queued"
         /\ door[d].accepters[i] \notin shutp
         /\ \A j \in DOMAIN door[d].accepters : door[d].accepters[j] = door[d].accepters[i] => i = j
  BY DEF QueueExact

LEMMA CloseInv ==
  ASSUME InprocInv, NEW l \in Doors, inprocClose(l)
  PROVE  InprocInv'
  <1>1. InprocTypeOK /\ PairsExact /\ QueueExact /\ JoinExact
    BY DEF InprocInv
  <1>2. /\ ~door[l].closed
        /\ byAddr' = IF byAddr = l THEN NoDoor ELSE byAddr
        /\ door' = [door EXCEPT ![l].closed = TRUE, ![l].closing = Range(door[l].accepters),
                                ![l].accepters = <<>>]
        /\ cli' = Awake /\ iacc' = iacc /\ srv' = srv /\ shutp' = shutp
    BY DEF inprocClose
  <1>3. \A d \in Doors : /\ \A i \in DOMAIN door[d].accepters : door[d].accepters[i] \in Servers
                         /\ door[d].closing \subseteq Servers
    BY <1>1 DEF InprocTypeOK, DoorState
  <1>4. PICK C \in SUBSET Servers : C = Range(door[l].accepters)
    BY <1>3 DEF Range
  <1>5. /\ door' \in [Doors -> DoorState]
        /\ \A d \in Doors : /\ door'[d].accepters = IF d = l THEN <<>> ELSE door[d].accepters
                            /\ door'[d].closing = IF d = l THEN C ELSE door[d].closing
                            /\ door'[d].closed <=> (d = l \/ door[d].closed)
                            /\ door'[d].active <=> door[d].active
    <2>1. door \in [Doors -> DoorState]
      BY <1>1 DEF InprocTypeOK
    <2>2. door' = [door EXCEPT ![l].closed = TRUE, ![l].closing = C, ![l].accepters = <<>>]
      BY <1>2, <1>4
    <2> QED
      BY <2>1, <2>2, DoorCloses
  <1>6. \A c \in Clients : /\ cli'[c].peer = cli[c].peer
                           /\ cli'[c].pc \in {"link", "done"} <=> cli[c].pc \in {"link", "done"}
    BY <1>1, <1>2, CliAwake DEF InprocTypeOK
  <1>7. InprocTypeOK'
    BY <1>1, <1>2, <1>5, CliAwake DEF InprocTypeOK
  <1>8. PairsExact'
    <2>1. \A d \in Doors : byAddr' = d <=> door'[d].active /\ ~door'[d].closed
      BY <1>1, <1>2, <1>5, InprocAssumption DEF PairsExact
    <2>2. \A c \in Clients, d \in Doors : cli'[c].peer \notin Range(door'[d].accepters)
      BY <1>1, <1>5, <1>6 DEF PairsExact, Range
    <2>3. \A c, d \in Clients : cli'[c].peer # Nobody /\ cli'[c].peer = cli'[d].peer => c = d
      BY <1>1, <1>6 DEF PairsExact
    <2>4. \A s \in Servers : srv'[s].peer # Nobody => cli'[srv'[s].peer].peer = s
      BY <1>1, <1>2, <1>6 DEF PairsExact, InprocTypeOK, SrvState
    <2> QED
      BY <2>1, <2>2, <2>3, <2>4 DEF PairsExact
  <1>9. QueueExact'
    <2>1. \A s \in C : s[1] = l /\ srv[s].st = "queued"
      BY <1>1, <1>4 DEF QueueExact, Range
    <2>2. ASSUME NEW d \in Doors, NEW i \in DOMAIN door'[d].accepters
          PROVE  /\ door'[d].accepters[i][1] = d
                 /\ srv'[door'[d].accepters[i]].st = "queued"
                 /\ door'[d].accepters[i] \notin shutp'
                 /\ \A j \in DOMAIN door'[d].accepters : door'[d].accepters[j] = door'[d].accepters[i] => i = j
      <3>1. DOMAIN <<>> = {}
        OBVIOUS
      <3>2. d # l
        <4>1. door'[l].accepters = <<>>
          BY <1>5
        <4> QED
          BY <2>2, <3>1, <4>1, Zenon
      <3>3. door'[d].accepters = door[d].accepters
        <4>1. \A b \in Doors : b # l => door'[b].accepters = door[b].accepters
          BY <1>5
        <4> QED
          BY <2>2, <3>2, <4>1, Zenon
      <3>4. i \in DOMAIN door[d].accepters
        BY <2>2, <3>3
      <3>5. /\ door[d].accepters[i][1] = d
            /\ srv[door[d].accepters[i]].st = "queued"
            /\ door[d].accepters[i] \notin shutp
            /\ \A j \in DOMAIN door[d].accepters : door[d].accepters[j] = door[d].accepters[i] => i = j
        BY <1>1, <3>4, QueueAt
      <3>6. srv' = srv /\ shutp' = shutp
        BY DEF inprocClose
      <3> QED
        BY <3>3, <3>5, <3>6, Zenon
    <2>3. \A d \in Doors : \A s \in door'[d].closing : s[1] = d /\ srv'[s].st = "queued"
      BY <1>1, <1>2, <1>5, <2>1 DEF QueueExact
    <2>4. \A d \in Doors : door'[d].closing # {} => door'[d].closed
      BY <1>1, <1>5 DEF QueueExact
    <2>5. \A d \in Doors : door'[d].closed => door'[d].accepters = <<>>
      BY <1>1, <1>5 DEF QueueExact
    <2>6. \A s \in Servers : srv'[s].st = "free" => s \notin shutp'
      BY <1>1, <1>2 DEF QueueExact
    <2> QED
      BY <2>2, <2>3, <2>4, <2>5, <2>6 DEF QueueExact
  <1>10. JoinExact'
    BY <1>1, <1>2, <1>6 DEF JoinExact
  <1> QED
    BY <1>7, <1>8, <1>9, <1>10 DEF InprocInv

LEMMA CloseServersInv ==
  ASSUME InprocInv, NEW l \in Doors, inprocCloseServers(l)
  PROVE  InprocInv'
  <1>1. InprocTypeOK /\ PairsExact /\ QueueExact /\ JoinExact
    BY DEF InprocInv
  <1>2. /\ door[l].closing # {} /\ shutp' = shutp \cup door[l].closing
        /\ door' = [door EXCEPT ![l].closing = {}]
        /\ byAddr' = byAddr /\ iacc' = iacc /\ srv' = srv /\ cli' = cli
    BY DEF inprocCloseServers
  <1>3. /\ door' \in [Doors -> DoorState]
        /\ \A d \in Doors : /\ door'[d].accepters = door[d].accepters
                            /\ door'[d].closing = IF d = l THEN {} ELSE door[d].closing
                            /\ door'[d].closed <=> door[d].closed
                            /\ door'[d].active <=> door[d].active
    BY <1>1, <1>2, DoorClosed DEF InprocTypeOK
  <1>4. InprocTypeOK'
    <2>1. door[l].closing \subseteq Servers
      BY <1>1 DEF InprocTypeOK, DoorState
    <2> QED
      BY <1>1, <1>2, <1>3, <2>1 DEF InprocTypeOK, InprocPipes
  <1>5. PairsExact'
    BY <1>1, <1>2, <1>3 DEF PairsExact
  <1>6. QueueExact'
    <2>1. ASSUME NEW d \in Doors, NEW i \in DOMAIN door[d].accepters
          PROVE  door[d].accepters[i] \notin door[l].closing
      BY <1>1, <1>2 DEF QueueExact
    <2>2. door[l].closing \subseteq Servers
      BY <1>1 DEF InprocTypeOK, DoorState
    <2>3. \A s \in Servers : srv'[s].st = "free" => s \notin shutp'
      BY <1>1, <1>2 DEF QueueExact
    <2> QED
      BY <1>1, <1>2, <1>3, <2>1, <2>3 DEF QueueExact
  <1>7. JoinExact'
    BY <1>1, <1>2 DEF JoinExact
  <1> QED
    BY <1>4, <1>5, <1>6, <1>7 DEF InprocInv

\* The steps of a dial that has no server pipe and takes none.
LEMMA DialMovesInv ==
  ASSUME InprocInv, NEW c \in Clients, cli[c].pc \in {"idle", "check"},
         NEW a \in {"check", "asleep", "refused", "badproto"}, cli' = [cli EXCEPT ![c].pc = a],
         byAddr' = byAddr, door' = door, iacc' = iacc, srv' = srv, shutp' = shutp
  PROVE  InprocInv'
  <1>1. InprocTypeOK /\ PairsExact /\ QueueExact /\ JoinExact
    BY DEF InprocInv
  <1>2. /\ cli' \in [Clients -> CliState]
        /\ \A e \in Clients : /\ cli'[e].peer = cli[e].peer
                              /\ cli'[e].pc = IF e = c THEN a ELSE cli[e].pc
    <2>1. cli \in [Clients -> CliState]
      BY <1>1 DEF InprocTypeOK
    <2>2. a \in {"check", "asleep", "done", "refused", "badproto"}
      OBVIOUS
    <2> QED
      BY <2>1, <2>2 DEF CliState
  <1>3. InprocTypeOK'
    BY <1>1, <1>2 DEF InprocTypeOK
  <1>4. PairsExact'
    <2>1. \A e \in Clients, d \in Doors : cli'[e].peer \notin Range(door'[d].accepters)
      BY <1>1, <1>2 DEF PairsExact
    <2>2. \A e, d \in Clients : cli'[e].peer # Nobody /\ cli'[e].peer = cli'[d].peer => e = d
      BY <1>1, <1>2 DEF PairsExact
    <2>3. \A s \in Servers : srv'[s].peer # Nobody => cli'[srv'[s].peer].peer = s
      BY <1>1, <1>2 DEF PairsExact, InprocTypeOK, SrvState
    <2> QED
      BY <1>1, <2>1, <2>2, <2>3 DEF PairsExact
  <1>5. QueueExact'
    BY <1>1 DEF QueueExact
  <1>6. JoinExact'
    BY <1>1, <1>2 DEF JoinExact
  <1> QED
    BY <1>3, <1>4, <1>5, <1>6 DEF InprocInv

LEMMA DialCallInv ==
  ASSUME InprocInv, NEW c \in Clients, inprocDialCall(c)
  PROVE  InprocInv'
  <1>1. InprocTypeOK /\ PairsExact /\ QueueExact /\ JoinExact
    BY DEF InprocInv
  <1>2. /\ cli[c].pc = "idle" /\ cli' = [cli EXCEPT ![c].pc = "check"]
        /\ byAddr' = byAddr /\ door' = door /\ iacc' = iacc /\ srv' = srv /\ shutp' = shutp
    BY DEF inprocDialCall
  <1> QED
    BY <1>1, <1>2, DialMovesInv DEF InprocInv

LEMMA DialInv ==
  ASSUME InprocInv, NEW c \in Clients, inprocDial(c)
  PROVE  InprocInv'
  <1>1. InprocTypeOK /\ PairsExact /\ QueueExact /\ JoinExact
    BY DEF InprocInv
  <1>2. cli[c].pc = "check" /\ byAddr' = byAddr /\ iacc' = iacc /\ shutp' = shutp
    BY DEF inprocDial
  <1>3. ASSUME NEW a \in {"refused", "badproto", "asleep"}, DialEnds(c, a)
        PROVE  InprocInv'
    BY <1>2, <1>3, DialMovesInv DEF DialEnds
  <1>4. ASSUME byAddr # NoDoor, door[byAddr].accepters # <<>>,
               NEW s, s = door[byAddr].accepters[Len(door[byAddr].accepters)],
               cli' = [cli EXCEPT ![c] = [pc |-> "link", peer |-> s]],
               srv' = [srv EXCEPT ![s].st = "popped"],
               door' = [door EXCEPT ![byAddr].accepters = SubSeq(@, 1, Len(@) - 1)]
        PROVE  InprocInv'
    <2>1. PICK l \in Doors : l = byAddr
      BY <1>1, <1>4 DEF InprocTypeOK
    <2>2. /\ door \in [Doors -> DoorState] /\ door[l].accepters \in Seq(Servers)
          /\ \A d \in Doors : \A i \in DOMAIN door[d].accepters : door[d].accepters[i] \in Servers
      BY <1>1 DEF InprocTypeOK, DoorState
    <2>3. PICK P \in Seq(Servers) : P = door[l].accepters
      BY <2>2
    <2>4. P # <<>> /\ s = P[Len(P)]
      BY <1>4, <2>1, <2>3
    <2>5. PICK Q \in Seq(Servers) : Q = SubSeq(P, 1, Len(P) - 1)
      BY <2>4, FrontFacts
    <2>6. PICK n : n = Len(P)
      OBVIOUS
    <2>7. /\ \A i \in DOMAIN Q : i \in DOMAIN P /\ i # n /\ Q[i] = P[i]
          /\ n \in DOMAIN P /\ s = P[n] /\ s \in Servers
      BY <2>4, <2>5, <2>6, FrontFacts
    <2>8. door' = [door EXCEPT ![l].accepters = Q]
      BY <1>4, <2>1, <2>3, <2>5
    <2>9. /\ door' \in [Doors -> DoorState]
          /\ \A d \in Doors : /\ door'[d].accepters = IF d = l THEN Q ELSE door[d].accepters
                              /\ door'[d].closing = door[d].closing
                              /\ door'[d].closed <=> door[d].closed
                              /\ door'[d].active <=> door[d].active
      BY <2>2, <2>8, DoorQueues
    <2>10. /\ srv' \in [Servers -> SrvState]
           /\ \A t \in Servers : /\ srv'[t].peer = srv[t].peer
                                 /\ srv'[t].st = IF t = s THEN "popped" ELSE srv[t].st
      <3>1. srv \in [Servers -> SrvState]
        BY <1>1 DEF InprocTypeOK
      <3>2. srv' = [srv EXCEPT ![s].st = "popped"]
        BY <1>4
      <3> QED
        BY <3>1, <3>2 DEF SrvState
    <2>11. /\ cli' \in [Clients -> CliState]
           /\ \A e \in Clients : cli'[e] = IF e = c THEN [pc |-> "link", peer |-> s] ELSE cli[e]
      BY <1>1, <1>4, <2>7 DEF InprocTypeOK, CliState
    <2>12. s[1] = l /\ srv[s].st = "queued" /\ s \notin shutp /\ cli[c].peer = Nobody
      BY <1>1, <1>2, <2>3, <2>7 DEF QueueExact, JoinExact
    <2>13. \A e \in Clients : cli[e].peer # s
      BY <1>1, <2>3, <2>7 DEF PairsExact, Range
    <2>14. InprocTypeOK'
      BY <1>1, <1>2, <2>9, <2>10, <2>11 DEF InprocTypeOK
    <2>15. PairsExact'
      <3>1. \A d \in Doors : byAddr' = d <=> door'[d].active /\ ~door'[d].closed
        BY <1>1, <1>2, <2>9 DEF PairsExact
      <3>2. ASSUME NEW e \in Clients, NEW d \in Doors, NEW i \in DOMAIN door'[d].accepters
            PROVE  cli'[e].peer # door'[d].accepters[i]
        <4>1. /\ i \in DOMAIN door[d].accepters /\ door'[d].accepters[i] = door[d].accepters[i]
              /\ d = l => i # n
          BY <2>3, <2>7, <2>9
        <4>2. door[d].accepters[i] # s
          BY <1>1, <2>3, <2>7, <2>12, <4>1 DEF QueueExact
        <4>3. CASE e = c
          BY <4>1, <4>2, <4>3, <2>11
        <4>4. CASE e # c
          BY <1>1, <4>1, <4>4, <2>11 DEF PairsExact, Range
        <4> QED
          BY <4>3, <4>4
      <3>3. \A e, d \in Clients : cli'[e].peer # Nobody /\ cli'[e].peer = cli'[d].peer => e = d
        BY <1>1, <2>11, <2>13 DEF PairsExact
      <3>4. \A t \in Servers : srv'[t].peer # Nobody => cli'[srv'[t].peer].peer = t
        <4>1. \A t \in Servers : srv[t].peer # c
          BY <1>1, <2>12, InprocAssumption DEF PairsExact, Nobody
        <4> QED
          BY <1>1, <2>10, <2>11, <4>1 DEF PairsExact, InprocTypeOK, SrvState
      <3> QED
        BY <3>1, <3>2, <3>3, <3>4 DEF PairsExact, Range
    <2>16. QueueExact'
      <3>1. ASSUME NEW d \in Doors, NEW i \in DOMAIN door'[d].accepters
            PROVE  LET t == door'[d].accepters[i] IN
                   /\ t[1] = d /\ srv'[t].st = "queued" /\ t \notin shutp'
                   /\ \A j \in DOMAIN door'[d].accepters : door'[d].accepters[j] = t => i = j
        <4>1. \A j \in DOMAIN door'[d].accepters :
                 /\ j \in DOMAIN door[d].accepters /\ door'[d].accepters[j] = door[d].accepters[j]
                 /\ d = l => j # n
          BY <2>3, <2>7, <2>9
        <4>2. door[d].accepters[i] # s /\ door[d].accepters[i] \in Servers
          BY <1>1, <2>2, <2>3, <2>7, <2>12, <4>1 DEF QueueExact
        <4> QED
          BY <1>1, <1>2, <4>1, <4>2, <2>10 DEF QueueExact
      <3>2. ~door[l].closed
        BY <1>1, <2>1 DEF PairsExact
      <3>3. ASSUME NEW d \in Doors, NEW t \in door'[d].closing
            PROVE  t[1] = d /\ srv'[t].st = "queued"
        <4>1. t \in Servers /\ t \in door[d].closing
          BY <2>2, <2>9 DEF DoorState
        <4>2. t[1] = d /\ srv[t].st = "queued" /\ door[d].closed
          BY <1>1, <4>1 DEF QueueExact
        <4> QED
          BY <2>10, <2>12, <3>2, <4>1, <4>2
      <3>4. \A d \in Doors : door'[d].closing # {} => door'[d].closed
        BY <1>1, <2>9 DEF QueueExact
      <3>5. \A d \in Doors : door'[d].closed => door'[d].accepters = <<>>
        BY <1>1, <2>9, <3>2 DEF QueueExact
      <3>6. \A t \in Servers : srv'[t].st = "free" => t \notin shutp'
        BY <1>1, <1>2, <2>10 DEF QueueExact
      <3> QED
        BY <3>1, <3>3, <3>4, <3>5, <3>6 DEF QueueExact
    <2>17. JoinExact'
      <3>1. s # Nobody
        BY <2>7, InprocAssumption DEF Nobody
      <3>2. \A b \in Clients : cli[b].peer \in Servers \cup {Nobody}
        BY <1>1 DEF InprocTypeOK, CliState
      <3>3. \A b \in Clients : cli'[b].peer # Nobody <=> cli'[b].pc \in {"link", "done"}
        BY <1>1, <2>11, <3>1 DEF JoinExact
      <3>4. ASSUME NEW b \in Clients, cli'[b].peer # Nobody
            PROVE  srv'[cli'[b].peer].st \in {"popped", "ready", "accepted"}
        <4>1. CASE b = c
          BY <2>7, <2>10, <2>11, <4>1
        <4>2. CASE b # c
          <5>1. cli'[b].peer = cli[b].peer /\ cli[b].peer \in Servers
            BY <2>11, <3>2, <3>4, <4>2
          <5>2. srv[cli[b].peer].st \in {"popped", "ready", "accepted"}
            BY <1>1, <3>4, <5>1 DEF JoinExact
          <5> QED
            BY <2>10, <5>1, <5>2
        <4> QED
          BY <4>1, <4>2
      <3> QED
        BY <3>3, <3>4 DEF JoinExact
    <2> QED
      BY <2>14, <2>15, <2>16, <2>17 DEF InprocInv
  <1> QED
    BY <1>3, <1>4 DEF inprocDial

LEMMA LinkInv ==
  ASSUME InprocInv, NEW c \in Clients, inprocLink(c)
  PROVE  InprocInv'
  <1>1. InprocTypeOK /\ PairsExact /\ QueueExact /\ JoinExact
    BY DEF InprocInv
  <1>2. /\ cli[c].pc = "link" /\ cli' = [cli EXCEPT ![c].pc = "done"]
        /\ byAddr' = byAddr /\ door' = door /\ iacc' = iacc /\ shutp' = shutp
    BY DEF inprocLink
  <1>3. PICK s \in Servers : s = cli[c].peer
    BY <1>1, <1>2 DEF JoinExact, InprocTypeOK, CliState
  <1>4. srv' = [srv EXCEPT ![s] = [st |-> "ready", peer |-> c]]
    BY <1>3 DEF inprocLink
  <1>5. /\ cli' \in [Clients -> CliState]
        /\ \A e \in Clients : /\ cli'[e].peer = cli[e].peer
                              /\ cli'[e].pc = IF e = c THEN "done" ELSE cli[e].pc
    <2>1. cli \in [Clients -> CliState]
      BY <1>1 DEF InprocTypeOK
    <2> QED
      BY <1>2, <2>1, CliMoves
  <1>6. /\ srv' \in [Servers -> SrvState]
        /\ \A t \in Servers : srv'[t] = IF t = s THEN [st |-> "ready", peer |-> c] ELSE srv[t]
    BY <1>1, <1>4 DEF InprocTypeOK, SrvState
  <1>7. srv[s].st \in {"popped", "ready", "accepted"}
    BY <1>1, <1>2, <1>3 DEF JoinExact
  <1>8. InprocTypeOK'
    BY <1>1, <1>2, <1>5, <1>6 DEF InprocTypeOK
  <1>9. PairsExact'
    <2>1. \A d \in Doors : byAddr' = d <=> door'[d].active /\ ~door'[d].closed
      BY <1>1, <1>2 DEF PairsExact
    <2>2. \A e \in Clients, d \in Doors : cli'[e].peer \notin Range(door'[d].accepters)
      BY <1>1, <1>2, <1>5 DEF PairsExact
    <2>3. \A e, d \in Clients : cli'[e].peer # Nobody /\ cli'[e].peer = cli'[d].peer => e = d
      BY <1>1, <1>5 DEF PairsExact
    <2>4. ASSUME NEW t \in Servers, srv'[t].peer # Nobody
          PROVE  cli'[srv'[t].peer].peer = t
      <3>1. CASE t = s
        BY <1>3, <1>5, <1>6, <3>1
      <3>2. CASE t # s
        <4>1. srv'[t] = srv[t] /\ srv[t].peer \in Clients
          BY <1>1, <1>6, <2>4, <3>2 DEF InprocTypeOK, SrvState
        <4> QED
          BY <1>1, <1>5, <2>4, <4>1 DEF PairsExact
      <3> QED
        BY <3>1, <3>2
    <2> QED
      BY <2>1, <2>2, <2>3, <2>4 DEF PairsExact
  <1>10. QueueExact'
    <2>1. ASSUME NEW d \in Doors, NEW i \in DOMAIN door[d].accepters
          PROVE  srv'[door[d].accepters[i]].st = "queued"
      <3>1. door[d].accepters[i] \in Servers /\ srv[door[d].accepters[i]].st = "queued"
        BY <1>1 DEF QueueExact, InprocTypeOK, DoorState
      <3> QED
        BY <1>6, <1>7, <3>1
    <2>2. ASSUME NEW d \in Doors, NEW t \in door[d].closing
          PROVE  srv'[t].st = "queued"
      <3>1. t \in Servers /\ srv[t].st = "queued"
        BY <1>1 DEF QueueExact, InprocTypeOK, DoorState
      <3> QED
        BY <1>6, <1>7, <3>1
    <2>3. \A t \in Servers : srv'[t].st = "free" => t \notin shutp'
      BY <1>1, <1>2, <1>6 DEF QueueExact
    <2> QED
      BY <1>1, <1>2, <2>1, <2>2, <2>3 DEF QueueExact
  <1>11. JoinExact'
    <2>1. \A e \in Clients : cli'[e].peer # Nobody <=> cli'[e].pc \in {"link", "done"}
      BY <1>1, <1>2, <1>5 DEF JoinExact
    <2>2. ASSUME NEW e \in Clients, cli'[e].peer # Nobody
          PROVE  srv'[cli'[e].peer].st \in {"popped", "ready", "accepted"}
      <3>1. cli[e].peer \in Servers /\ srv[cli[e].peer].st \in {"popped", "ready", "accepted"}
        BY <1>1, <1>5, <2>2 DEF JoinExact, InprocTypeOK, CliState
      <3> QED
        BY <1>5, <1>6, <3>1
    <2> QED
      BY <2>1, <2>2 DEF JoinExact
  <1> QED
    BY <1>8, <1>9, <1>10, <1>11 DEF InprocInv

LEMMA PairFrame ==
  ASSUME NEW p,
         \/ inprocSend(p) \/ inprocRecv(p) \/ inprocTransfer(p)
         \/ inprocSendFails(p) \/ inprocRecvFails(p) \/ inprocPipeClose(p)
  PROVE  UnchSetup /\ (UNCHANGED shutp \/ (Live(p) /\ shutp' = shutp \cup {p}))
  <1>1. CASE inprocSend(p)
    BY <1>1 DEF inprocSend
  <1>2. CASE inprocRecv(p)
    BY <1>2 DEF inprocRecv
  <1>3. CASE inprocTransfer(p)
    BY <1>3 DEF inprocTransfer
  <1>4. CASE inprocSendFails(p)
    BY <1>4 DEF inprocSendFails
  <1>5. CASE inprocRecvFails(p)
    BY <1>5 DEF inprocRecvFails
  <1>6. CASE inprocPipeClose(p)
    BY <1>6 DEF inprocPipeClose
  <1> QED
    BY <1>1, <1>2, <1>3, <1>4, <1>5, <1>6

\* Steps on a pair of pipes change neither the table nor the pairs; only a
\* pipe that is in use is closed.
LEMMA PairInv ==
  ASSUME InprocInv, NEW p \in InprocPipes,
         \/ inprocSend(p) \/ inprocRecv(p) \/ inprocTransfer(p)
         \/ inprocSendFails(p) \/ inprocRecvFails(p) \/ inprocPipeClose(p)
  PROVE  InprocInv'
  <1>1. InprocTypeOK /\ PairsExact /\ QueueExact /\ JoinExact
    BY DEF InprocInv
  <1>a. UnchSetup /\ (UNCHANGED shutp \/ (Live(p) /\ shutp' = shutp \cup {p}))
    BY PairFrame
  <1>2. /\ byAddr' = byAddr /\ door' = door /\ iacc' = iacc /\ srv' = srv /\ cli' = cli
        /\ shutp' = shutp \/ (Live(p) /\ shutp' = shutp \cup {p})
    BY <1>a DEF UnchSetup
  <1>3. p \in Servers => shutp' = shutp \/ srv[p].st = "accepted"
    <2>1. p \in Servers => p \notin Clients
      BY InprocAssumption
    <2> QED
      BY <1>2, <2>1 DEF Live
  <1>4. InprocTypeOK'
    BY <1>1, <1>2 DEF InprocTypeOK
  <1>5. PairsExact' /\ JoinExact'
    BY <1>1, <1>2 DEF PairsExact, JoinExact
  <1>6. QueueExact'
    <2>1. ASSUME NEW d \in Doors, NEW i \in DOMAIN door[d].accepters
          PROVE  door[d].accepters[i] \notin shutp'
      <3>a. srv[door[d].accepters[i]].st = "queued" /\ door[d].accepters[i] \notin shutp
        BY <1>1 DEF QueueExact
      <3>b. door \in [Doors -> DoorState]
        BY <1>1 DEF InprocTypeOK
      <3>1. /\ door[d].accepters[i] \in Servers /\ srv[door[d].accepters[i]].st = "queued"
            /\ door[d].accepters[i] \notin shutp
        BY <3>a, <3>b DEF DoorState
      <3> QED
        BY <1>2, <1>3, <3>1
    <2>2. \A t \in Servers : srv'[t].st = "free" => t \notin shutp'
      BY <1>1, <1>2, <1>3 DEF QueueExact
    <2>3. ASSUME NEW d \in Doors, NEW i \in DOMAIN door'[d].accepters
          PROVE  LET s == door'[d].accepters[i] IN
                 /\ s[1] = d /\ srv'[s].st = "queued" /\ s \notin shutp'
                 /\ \A j \in DOMAIN door'[d].accepters : door'[d].accepters[j] = s => i = j
      BY <1>1, <1>2, <2>1, QueueAt
    <2>4. /\ \A d \in Doors : \A s \in door'[d].closing : s[1] = d /\ srv'[s].st = "queued"
          /\ \A d \in Doors : door'[d].closing # {} => door'[d].closed
          /\ \A d \in Doors : door'[d].closed => door'[d].accepters = <<>>
      BY <1>1, <1>2 DEF QueueExact
    <2> QED
      BY <2>2, <2>3, <2>4, Zenon DEF QueueExact
  <1> QED
    BY <1>4, <1>5, <1>6 DEF InprocInv

LEMMA InprocNextInv == InprocInv /\ [InprocNext]_ivars => InprocInv'
  <1> SUFFICES ASSUME InprocInv, [InprocNext]_ivars PROVE InprocInv'
    OBVIOUS
  <1>1. CASE UNCHANGED ivars
    <2>1. InprocTypeOK /\ PairsExact /\ QueueExact /\ JoinExact
      BY DEF InprocInv
    <2>2. /\ byAddr' = byAddr /\ door' = door /\ iacc' = iacc /\ srv' = srv
          /\ cli' = cli /\ shutp' = shutp
      BY <1>1, Zenon DEF ivars
    <2>3. InprocTypeOK'
      BY <2>1, <2>2 DEF InprocTypeOK
    <2>4. PairsExact' /\ QueueExact' /\ JoinExact'
      BY <2>1, <2>2, SameTables
    <2> QED
      BY <2>3, <2>4 DEF InprocInv
  <1>2. CASE InprocNext
    BY <1>2, ListenInv, AcceptInv, AcceptReturnsInv, CloseInv, CloseServersInv,
       DialCallInv, DialInv, LinkInv, PairInv DEF InprocNext
  <1> QED
    BY <1>1, <1>2

LEMMA InprocInvariant == InprocSpec => []InprocInv
  BY InprocInitInv, InprocNextInv, PTL DEF InprocSpec

\* For any listeners and dials, the table of listeners and the pairs that it
\* makes are exact (listener.Listen, Accept and Close, dialer.Dial).
THEOREM PairsAlwaysExact == InprocSpec => []PairsExact
  <1>1. InprocInv => PairsExact
    BY DEF InprocInv
  <1> QED
    BY <1>1, InprocInvariant, PTL

(***************************************************************************)
(* The contract of TranListener.                                           *)
(***************************************************************************)

\* What a step does to the server pipes: one stays as it is, is queued, is
\* taken by a dial from an open listener, or goes on after that.
PipeStep(s, x) ==
    \/ srv'[s].st = srv[s].st /\ (s \in shutp => s \in shutp')
    \/ srv[s].st = "free" /\ srv'[s].st = "queued" /\ s \notin shutp'
    \/ s = x /\ srv[s].st = "queued" /\ srv'[s].st = "popped" /\ s \notin shutp /\ ~door[s[1]].closed
    \/ srv[s].st \in {"popped", "ready", "accepted"} /\ srv'[s].st \in {"popped", "ready", "accepted"}
PipeSteps ==
    /\ \A d \in Doors : door[d].closed => door'[d].closed
    /\ \E x : \A s \in Servers : PipeStep(s, x)

LEMMA FrameSteps ==
  ASSUME srv' = srv, shutp \subseteq shutp', \A d \in Doors : door[d].closed => door'[d].closed
  PROVE  PipeSteps
  BY DEF PipeSteps, PipeStep

LEMMA AcceptSteps ==
  ASSUME InprocInv, NEW l \in Doors, inprocAccept(l)
  PROVE  PipeSteps
  <1>1. InprocTypeOK /\ QueueExact /\ shutp' = shutp
    BY DEF InprocInv, inprocAccept
  <1>2. CASE door' = door /\ srv' = srv
    BY <1>1, <1>2, FrameSteps
  <1>3. ASSUME NEW s \in Servers, Fresh(l, s), door' = [door EXCEPT ![l].accepters = Append(@, s)],
               srv' = [srv EXCEPT ![s].st = "queued"]
        PROVE  PipeSteps
    <2>1. srv[s].st = "free" /\ s \notin shutp
      BY <1>1, <1>3 DEF Fresh, QueueExact
    <2>2. \A t \in Servers : srv'[t].st = IF t = s THEN "queued" ELSE srv[t].st
      BY <1>1, <1>3, SrvMoves DEF InprocTypeOK
    <2>3. \A d \in Doors : door'[d].closed = door[d].closed
      BY <1>1, <1>3 DEF InprocTypeOK, DoorState
    <2> QED
      BY <1>1, <2>1, <2>2, <2>3 DEF PipeSteps, PipeStep
  <1> QED
    BY <1>2, <1>3 DEF inprocAccept

LEMMA AcceptReturnsSteps ==
  ASSUME InprocInv, NEW l \in Doors, inprocAcceptReturns(l)
  PROVE  PipeSteps
  <1>1. InprocTypeOK /\ door' = door /\ shutp' = shutp
    BY DEF InprocInv, inprocAcceptReturns
  <1>2. CASE srv' = srv
    BY <1>1, <1>2, FrameSteps
  <1>3. ASSUME NEW x, srv[x].st = "ready", srv' = [srv EXCEPT ![x].st = "accepted"]
        PROVE  PipeSteps
    <2>1. \A t \in Servers : srv'[t].st = IF t = x THEN "accepted" ELSE srv[t].st
      BY <1>1, <1>3, SrvMoves DEF InprocTypeOK
    <2> QED
      BY <1>1, <1>3, <2>1 DEF PipeSteps, PipeStep
  <1> QED
    BY <1>2, <1>3 DEF inprocAcceptReturns

LEMMA OneTaken ==
  ASSUME NEW s \in Servers, srv[s].st = "queued", s \notin shutp, ~door[s[1]].closed, shutp' = shutp,
         \A t \in Servers : srv'[t].st = IF t = s THEN "popped" ELSE srv[t].st,
         \A d \in Doors : door[d].closed => door'[d].closed
  PROVE  PipeSteps
  <1>1. \A t \in Servers : PipeStep(t, s)
    BY DEF PipeStep
  <1> QED
    BY <1>1 DEF PipeSteps

LEMMA DialSteps ==
  ASSUME InprocInv, NEW c \in Clients, inprocDial(c)
  PROVE  PipeSteps
  <1>1. InprocTypeOK /\ PairsExact /\ QueueExact /\ shutp' = shutp
    BY DEF InprocInv, inprocDial
  <1>2. CASE door' = door /\ srv' = srv
    BY <1>1, <1>2, FrameSteps
  <1>3. ASSUME byAddr # NoDoor, door[byAddr].accepters # <<>>,
               NEW s, s = door[byAddr].accepters[Len(door[byAddr].accepters)],
               srv' = [srv EXCEPT ![s].st = "popped"],
               door' = [door EXCEPT ![byAddr].accepters = SubSeq(@, 1, Len(@) - 1)]
        PROVE  PipeSteps
    <2>1. PICK l \in Doors : l = byAddr
      BY <1>1, <1>3 DEF InprocTypeOK
    <2>2. door \in [Doors -> DoorState] /\ srv \in [Servers -> SrvState]
      BY <1>1 DEF InprocTypeOK
    <2>3. PICK P \in Seq(Servers) : P = door[l].accepters
      BY <2>2 DEF DoorState
    <2>4. P # <<>> /\ s = P[Len(P)]
      BY <1>3, <2>1, <2>3
    <2>5. PICK n : n = Len(P)
      OBVIOUS
    <2>6. n \in DOMAIN P /\ s = P[n] /\ s \in Servers
      BY <2>4, <2>5, FrontFacts
    <2>7. s[1] = l /\ srv[s].st = "queued" /\ s \notin shutp
      BY <1>1, <2>3, <2>6 DEF QueueExact
    <2>8. ~door[l].closed
      BY <1>1, <2>1 DEF PairsExact
    <2>9. \A d \in Doors : door[d].closed => door'[d].closed
      BY <1>3, <2>1, <2>2 DEF DoorState
    <2>10. srv' = [srv EXCEPT ![s].st = "popped"]
      BY <1>3
    <2>11. \A t \in Servers : srv'[t].st = IF t = s THEN "popped" ELSE srv[t].st
      BY <2>2, <2>10 DEF SrvState
    <2>12. s \in Servers /\ s \notin shutp /\ srv[s].st = "queued" /\ ~door[s[1]].closed
      BY <2>6, <2>7, <2>8
    <2> QED
      BY <1>1, <2>9, <2>11, <2>12, OneTaken
  <1> QED
    BY <1>2, <1>3 DEF inprocDial, DialEnds

LEMMA LinkSteps ==
  ASSUME InprocInv, NEW c \in Clients, inprocLink(c)
  PROVE  PipeSteps
  <1>1. InprocTypeOK /\ JoinExact /\ door' = door /\ shutp' = shutp /\ cli[c].pc = "link"
    BY DEF InprocInv, inprocLink
  <1>2. PICK s \in Servers : s = cli[c].peer
    BY <1>1 DEF JoinExact, InprocTypeOK, CliState
  <1>3. srv[s].st \in {"popped", "ready", "accepted"}
    BY <1>1, <1>2 DEF JoinExact
  <1>4. srv' = [srv EXCEPT ![s] = [st |-> "ready", peer |-> c]]
    BY <1>2 DEF inprocLink
  <1>5. \A t \in Servers : srv'[t].st = IF t = s THEN "ready" ELSE srv[t].st
    BY <1>1, <1>4 DEF InprocTypeOK, SrvState
  <1> QED
    BY <1>1, <1>3, <1>5 DEF PipeSteps, PipeStep

LEMMA Latched ==
  ASSUME door \in [Doors -> DoorState], NEW l \in Doors, NEW C,
         door' = [door EXCEPT ![l].closed = TRUE, ![l].closing = C, ![l].accepters = <<>>]
  PROVE  \A d \in Doors : door[d].closed => door'[d].closed
  <1>1. PICK q \in DoorState : q = door[l]
    OBVIOUS
  <1>2. door'[l] = [q EXCEPT !.closed = TRUE, !.closing = C, !.accepters = <<>>]
    BY <1>1
  <1>3. door'[l].closed
    BY <1>2 DEF DoorState
  <1>4. \A d \in Doors : d # l => door'[d] = door[d]
    OBVIOUS
  <1> QED
    BY <1>3, <1>4

LEMMA CloseSteps ==
  ASSUME InprocInv, NEW l \in Doors, inprocClose(l)
  PROVE  PipeSteps
  <1>1. door \in [Doors -> DoorState]
    BY DEF InprocInv, InprocTypeOK
  <1>2. srv' = srv /\ shutp \subseteq shutp'
    BY DEF inprocClose
  <1>3. PICK C : C = Range(door[l].accepters)
    OBVIOUS
  <1>4. door' = [door EXCEPT ![l].closed = TRUE, ![l].closing = C, ![l].accepters = <<>>]
    <2>1. door' = [door EXCEPT ![l].closed = TRUE, ![l].closing = Range(door[l].accepters),
                              ![l].accepters = <<>>]
      BY Zenon DEF inprocClose
    <2> QED
      BY <1>3, <2>1, Zenon
  <1>5. \A d \in Doors : door[d].closed => door'[d].closed
    BY <1>1, <1>4, Latched
  <1> QED
    BY <1>2, <1>5, FrameSteps

LEMMA EveryStep == InprocInv /\ [InprocNext]_ivars => PipeSteps
  <1> SUFFICES ASSUME InprocInv, [InprocNext]_ivars PROVE PipeSteps
    OBVIOUS
  <1>1. door \in [Doors -> DoorState]
    BY DEF InprocInv, InprocTypeOK
  <1>2. ASSUME NEW l \in Doors, inprocListen(l) PROVE PipeSteps
    <2>1. \A d \in Doors : door'[d].closed <=> door[d].closed
      BY <1>1, <1>2, DoorListens DEF inprocListen
    <2> QED
      BY <1>2, <2>1, FrameSteps DEF inprocListen
  <1>3. ASSUME NEW l \in Doors, inprocClose(l) PROVE PipeSteps
    BY <1>3, CloseSteps
  <1>4. ASSUME NEW l \in Doors, inprocCloseServers(l) PROVE PipeSteps
    <2>1. \A d \in Doors : door'[d].closed <=> door[d].closed
      BY <1>1, <1>4, DoorClosed DEF inprocCloseServers
    <2> QED
      BY <1>4, <2>1, FrameSteps DEF inprocCloseServers
  <1>5. ASSUME NEW c \in Clients, inprocDialCall(c) PROVE PipeSteps
    BY <1>5, FrameSteps DEF inprocDialCall
  <1>6. ASSUME NEW p \in InprocPipes,
               \/ inprocSend(p) \/ inprocRecv(p) \/ inprocTransfer(p)
               \/ inprocSendFails(p) \/ inprocRecvFails(p) \/ inprocPipeClose(p)
        PROVE  PipeSteps
    <2>1. UnchSetup /\ shutp \subseteq shutp'
      BY <1>6, PairFrame
    <2> QED
      BY <2>1, FrameSteps DEF UnchSetup
  <1>7. CASE UNCHANGED ivars
    BY <1>7, FrameSteps DEF ivars
  <1> QED
    BY <1>2, <1>3, <1>4, <1>5, <1>6, <1>7, AcceptSteps, AcceptReturnsSteps, DialSteps, LinkSteps
       DEF InprocNext

\* The state of a server pipe as the contract sees it.
Seen(s) == IF s \in shutp /\ srv[s].st = "queued" THEN "gone"
           ELSE IF srv[s].st = "queued" THEN "pending"
           ELSE IF srv[s].st = "free" THEN "none" ELSE "accepted"

LEMMA SeenStep ==
  ASSUME NEW s \in Servers, NEW x, PipeStep(s, x)
  PROVE  \/ Seen(s)' = Seen(s)
         \/ Seen(s) = "none" /\ Seen(s)' = "pending"
         \/ Seen(s) = "pending" /\ Seen(s)' = "gone"
         \/ s = x /\ ~door[s[1]].closed /\ Seen(s) = "pending" /\ Seen(s)' = "accepted"
  BY DEF PipeStep, Seen

\* However dials, accepts and closes meet, an inproc listener keeps the contract
\* of TranListener: a connection is handed out once, by a listener that is not
\* closed, or it is closed.
THEOREM InprocImplements == InprocSpec => InprocEndpoint!EndpointSafety
  <1> DEFINE Shut == {l \in Doors : door[l].closed}
             Conns == [s \in Servers |-> Seen(s)]
  <1>1. InprocInit => InprocEndpoint!EndpointInit
    <2> SUFFICES ASSUME InprocInit
                 PROVE  Shut = {} /\ Conns = [s \in Servers |-> "none"]
      BY DEF InprocEndpoint!EndpointInit, Seen
    <2>1. \A l \in Doors : ~door[l].closed
      BY DEF InprocInit
    <2>2. \A s \in Servers : srv[s].st = "free"
      BY DEF InprocInit
    <2>3. \A s \in Servers : Seen(s) = "none"
      BY <2>2 DEF Seen
    <2> QED
      BY <2>1, <2>3
  <1>2. InprocInv /\ [InprocNext]_ivars => InprocEndpoint!EndpointNext
    <2> SUFFICES ASSUME InprocInv, [InprocNext]_ivars PROVE InprocEndpoint!EndpointNext
      OBVIOUS
    <2>1. PICK x : \A s \in Servers : PipeStep(s, x)
      BY EveryStep DEF PipeSteps
    <2>2. \A d \in Doors : door[d].closed => door'[d].closed
      BY EveryStep DEF PipeSteps
    <2>3. Shut' \in {Shut \cup ls : ls \in SUBSET Doors}
      <3>1. Shut' = Shut \cup Shut' /\ Shut' \in SUBSET Doors
        BY <2>2
      <3> HIDE DEF Shut
      <3> QED
        BY <3>1
    <2>4. \A s \in Servers : Conns[s] = Seen(s) /\ Conns'[s] = Seen(s)'
      OBVIOUS
    <2>5. \A s \in Servers :
             \/ Conns'[s] = Conns[s]
             \/ Conns[s] = "none" /\ Conns'[s] = "pending"
             \/ Conns[s] = "pending" /\ Conns'[s] = "gone"
             \/ s = x /\ s[1] \notin Shut /\ Conns[s] = "pending" /\ Conns'[s] = "accepted"
      <3> SUFFICES ASSUME NEW s \in Servers
                   PROVE  \/ Conns'[s] = Conns[s]
                          \/ Conns[s] = "none" /\ Conns'[s] = "pending"
                          \/ Conns[s] = "pending" /\ Conns'[s] = "gone"
                          \/ s = x /\ s[1] \notin Shut /\ Conns[s] = "pending" /\ Conns'[s] = "accepted"
        OBVIOUS
      <3>1. PipeStep(s, x) /\ Conns[s] = Seen(s) /\ Conns'[s] = Seen(s)'
        BY <2>1, <2>4
      <3>2. ~door[s[1]].closed => s[1] \notin Shut
        OBVIOUS
      <3> QED
        BY <3>1, <3>2, SeenStep
    <2>6. \A c, d \in Servers :
             /\ Conns[c] = "pending" /\ Conns'[c] = "accepted"
             /\ Conns[d] = "pending" /\ Conns'[d] = "accepted"
             => c = d
      BY <2>5, Zenon
    <2>7. DOMAIN Conns' = Servers
      OBVIOUS
    <2>8. \A c \in Servers :
             /\ InprocEndpoint!Stays(c) <=> Conns'[c] = Conns[c]
             /\ InprocEndpoint!Arrive(c) <=> Conns[c] = "none" /\ Conns'[c] = "pending"
             /\ InprocEndpoint!Goes(c, "pending", "gone") <=> Conns[c] = "pending" /\ Conns'[c] = "gone"
             /\ InprocEndpoint!Goes(c, "pending", "accepted") <=> Conns[c] = "pending" /\ Conns'[c] = "accepted"
      BY Zenon DEF InprocEndpoint!Stays, InprocEndpoint!Arrive, InprocEndpoint!Goes, Seen
    <2>9. \A c \in Servers :
             InprocEndpoint!Accept(c) <=> c[1] \notin Shut /\ Conns[c] = "pending" /\ Conns'[c] = "accepted"
      BY <2>8 DEF InprocEndpoint!Accept
    <2>10. \A c \in Servers : \/ InprocEndpoint!Stays(c) \/ InprocEndpoint!Arrive(c)
                              \/ InprocEndpoint!Drop(c) \/ InprocEndpoint!Accept(c)
      <3> HIDE DEF Shut, Conns
      <3> QED
        BY <2>5, <2>8, <2>9 DEF InprocEndpoint!Drop
    <2>11. \A c, d \in Servers : InprocEndpoint!Accept(c) /\ InprocEndpoint!Accept(d) => c = d
      <3> HIDE DEF Shut, Conns
      <3> QED
        BY <2>6, <2>9
    <2> QED
      BY <2>3, <2>7, <2>10, <2>11, Zenon DEF InprocEndpoint!EndpointNext, Seen
  <1> QED
    BY <1>1, <1>2, InprocInvariant, PTL DEF InprocSpec, InprocEndpoint!EndpointSafety
=============================================================================
