------------------------------- MODULE Inproc -------------------------------
(***************************************************************************)
(* The inproc transport: listeners that share one address, the accept      *)
(* calls that queue server pipes, dials that take one of them or sleep on  *)
(* the condition variable of the listener table, and the rendezvous of     *)
(* Send and Recv on a pair of pipes.  Each Accept call and each Dial call  *)
(* makes a pipe, so pipes stand for the calls.                             *)
(***************************************************************************)
EXTENDS Naturals, FiniteSets, Sequences, Functions

CONSTANTS
    Doors,          \* listeners, all at the same address
    Clients,        \* Dial calls
    InprocRuns,     \* scenarios: who takes part
    NoDoor

VARIABLES
    part,           \* the scenario: listeners, dials, the dials of sockets whose
                    \* protocol does not match, and whether pipes carry messages
    byAddr,         \* listeners.byAddr at the address
    door,           \* every listener, with its call of Close
    iacc,           \* the core's serve loop of every listener
    srv,            \* the server pipe of every Accept call
    cli,            \* every Dial call, and its client pipe
    shutp,          \* pipes whose closeq is closed
    io              \* Send and Recv on every pipe

ivars == <<part, byAddr, door, iacc, srv, cli, shutp, io>>

\* Enough Accept calls for every dial.
Servers == Doors \X (1 .. Cardinality(Clients))
InprocPipes == Servers \cup Clients
Nobody == NoDoor

\* Listeners, calls and their pipes are different things.
ASSUME InprocAssumption ==
    /\ NoDoor \notin Doors \cup Clients \cup Servers
    /\ Clients \cap Servers = {}

InprocInit ==
    /\ part \in InprocRuns
    /\ byAddr = NoDoor
    /\ door = [l \in Doors |-> [active |-> FALSE, closed |-> FALSE, accepters |-> <<>>, closing |-> {}]]
    /\ iacc = [l \in Doors |-> [at |-> "off", pipe |-> Nobody]]
    /\ srv = [s \in Servers |-> [st |-> "free", peer |-> Nobody]]
    /\ cli = [c \in Clients |-> [pc |-> "idle", peer |-> Nobody]]
    /\ shutp = {}
    /\ io = [p \in InprocPipes |-> [s |-> "idle", r |-> "idle"]]

\* listeners.cv.Broadcast
Awake == [c \in Clients |-> [cli[c] EXCEPT !.pc = IF @ = "asleep" THEN "check" ELSE @]]

\* Listen: refused when closed, or while another listener has the address.
inprocListen(l) ==
    /\ l \in part.doors /\ ~door[l].active /\ ~door[l].closed /\ byAddr = NoDoor
    /\ door' = [door EXCEPT ![l].active = TRUE]
    /\ byAddr' = l
    /\ iacc' = [iacc EXCEPT ![l].at = "idle"]
    /\ cli' = Awake
    /\ UNCHANGED <<part, srv, shutp, io>>

\* Accept queues a server pipe and wakes the dials; after Close it fails.
Fresh(l, s) == s[1] = l /\ srv[s].st = "free" /\ \A n \in 1 .. s[2] - 1 : srv[<<l, n>>].st # "free"
inprocAccept_NoBroadcast(l) ==
    /\ iacc[l].at = "idle"
    /\ \/ door[l].closed /\ iacc' = [iacc EXCEPT ![l].at = "over"] /\ UNCHANGED <<door, srv, cli>>
       \/ /\ ~door[l].closed
          /\ \E s \in Servers : /\ Fresh(l, s)
                                /\ door' = [door EXCEPT ![l].accepters = Append(@, s)]
                                /\ srv' = [srv EXCEPT ![s].st = "queued"]
                                /\ iacc' = [iacc EXCEPT ![l] = [at |-> "wait", pipe |-> s]]
          /\ UNCHANGED cli
    /\ UNCHANGED <<part, byAddr, shutp, io>>
inprocAccept(l) ==
    /\ iacc[l].at = "idle"
    /\ \/ door[l].closed /\ iacc' = [iacc EXCEPT ![l].at = "over"] /\ UNCHANGED <<door, srv, cli>>
       \/ /\ ~door[l].closed
          /\ \E s \in Servers : /\ Fresh(l, s)
                                /\ door' = [door EXCEPT ![l].accepters = Append(@, s)]
                                /\ srv' = [srv EXCEPT ![s].st = "queued"]
                                /\ iacc' = [iacc EXCEPT ![l] = [at |-> "wait", pipe |-> s]]
          /\ cli' = Awake
    /\ UNCHANGED <<part, byAddr, shutp, io>>

\* Accept returns when its pipe is ready, or fails when Close closed it.
inprocAcceptReturns(l) ==
    /\ iacc[l].at = "wait"
    /\ \/ /\ srv[iacc[l].pipe].st = "ready"
          /\ srv' = [srv EXCEPT ![iacc[l].pipe].st = "accepted"]
          /\ iacc' = [iacc EXCEPT ![l].at = "idle"]
       \/ /\ iacc[l].pipe \in shutp
          /\ iacc' = [iacc EXCEPT ![l].at = "over"]
          /\ UNCHANGED srv
    /\ UNCHANGED <<part, byAddr, door, cli, shutp, io>>

\* Dial, one turn of its loop under the lock of the table.
inprocDialCall(c) ==
    /\ c \in part.clients /\ cli[c].pc = "idle"
    /\ cli' = [cli EXCEPT ![c].pc = "check"]
    /\ UNCHANGED <<part, byAddr, door, iacc, srv, shutp, io>>
DialEnds(c, pc) == cli' = [cli EXCEPT ![c].pc = pc] /\ UNCHANGED <<door, srv>>
inprocDial_Peek(c) ==
    /\ cli[c].pc = "check"
    /\ \/ byAddr = NoDoor /\ DialEnds(c, "refused")
       \/ byAddr # NoDoor /\ c \in part.strangers /\ DialEnds(c, "badproto")
       \/ byAddr # NoDoor /\ c \notin part.strangers /\ door[byAddr].accepters = <<>> /\ DialEnds(c, "asleep")
       \/ /\ byAddr # NoDoor /\ c \notin part.strangers /\ door[byAddr].accepters # <<>>
          /\ LET s == door[byAddr].accepters[Len(door[byAddr].accepters)] IN
                /\ cli' = [cli EXCEPT ![c] = [pc |-> "link", peer |-> s]]
                /\ srv' = [srv EXCEPT ![s].st = "popped"]
                /\ UNCHANGED door
    /\ UNCHANGED <<part, byAddr, iacc, shutp, io>>
inprocDial(c) ==
    /\ cli[c].pc = "check"
    /\ \/ byAddr = NoDoor /\ DialEnds(c, "refused")
       \/ byAddr # NoDoor /\ c \in part.strangers /\ DialEnds(c, "badproto")
       \/ byAddr # NoDoor /\ c \notin part.strangers /\ door[byAddr].accepters = <<>> /\ DialEnds(c, "asleep")
       \/ /\ byAddr # NoDoor /\ c \notin part.strangers /\ door[byAddr].accepters # <<>>
          /\ LET s == door[byAddr].accepters[Len(door[byAddr].accepters)] IN
                /\ cli' = [cli EXCEPT ![c] = [pc |-> "link", peer |-> s]]
                /\ srv' = [srv EXCEPT ![s].st = "popped"]
                /\ door' = [door EXCEPT ![byAddr].accepters = SubSeq(@, 1, Len(@) - 1)]
    /\ UNCHANGED <<part, byAddr, iacc, shutp, io>>

\* Without the lock, Dial joins the two pipes and tells both sides.
inprocLink(c) ==
    /\ cli[c].pc = "link"
    /\ cli' = [cli EXCEPT ![c].pc = "done"]
    /\ srv' = [srv EXCEPT ![cli[c].peer] = [st |-> "ready", peer |-> c]]
    /\ UNCHANGED <<part, byAddr, door, iacc, shutp, io>>

\* Close gives up the address if it has it, then closes the queued pipes
\* after it released the lock.
inprocClose_Abandons(l) ==
    /\ l \in part.doors /\ ~door[l].closed
    /\ byAddr' = IF byAddr = l THEN NoDoor ELSE byAddr
    /\ door' = [door EXCEPT ![l].closed = TRUE, ![l].closing = {},
                            ![l].accepters = <<>>]
    /\ cli' = Awake
    /\ UNCHANGED <<part, iacc, srv, shutp, io>>
inprocClose(l) ==
    /\ l \in part.doors /\ ~door[l].closed
    /\ byAddr' = IF byAddr = l THEN NoDoor ELSE byAddr
    /\ door' = [door EXCEPT ![l].closed = TRUE, ![l].closing = Range(door[l].accepters),
                            ![l].accepters = <<>>]
    /\ cli' = Awake
    /\ UNCHANGED <<part, iacc, srv, shutp, io>>
inprocCloseServers(l) ==
    /\ door[l].closing # {}
    /\ shutp' = shutp \cup door[l].closing
    /\ door' = [door EXCEPT ![l].closing = {}]
    /\ UNCHANGED <<part, byAddr, iacc, srv, cli, io>>

(***************************************************************************)
(* A pair of pipes: channels without a buffer.                             *)
(***************************************************************************)
Live(p) == IF p \in Clients THEN cli[p].pc = "done" ELSE srv[p].st = "accepted"
PeerOf(p) == IF p \in Clients THEN cli[p].peer ELSE srv[p].peer
Cut(p) == p \in shutp \/ PeerOf(p) \in shutp
UnchSetup == UNCHANGED <<part, byAddr, door, iacc, srv, cli>>

inprocSend(p) ==
    /\ part.talk /\ Live(p) /\ io[p].s = "idle"
    /\ io' = [io EXCEPT ![p].s = "wait"]
    /\ UNCHANGED shutp /\ UnchSetup
inprocRecv(p) ==
    /\ part.talk /\ Live(p) /\ io[p].r = "idle"
    /\ io' = [io EXCEPT ![p].r = "wait"]
    /\ UNCHANGED shutp /\ UnchSetup
\* A sender and a receiver meet.  They may even when a side has been closed:
\* select chooses among the cases that are ready.
inprocTransfer(p) ==
    /\ io[p].s = "wait" /\ io[PeerOf(p)].r = "wait"
    /\ io' = [io EXCEPT ![p].s = "ok", ![PeerOf(p)].r = "ok"]
    /\ UNCHANGED shutp /\ UnchSetup
inprocSendFails(p) ==
    /\ io[p].s = "wait" /\ Cut(p)
    /\ io' = [io EXCEPT ![p].s = "closed"]
    /\ UNCHANGED shutp /\ UnchSetup
inprocRecvFails(p) ==
    /\ io[p].r = "wait" /\ Cut(p)
    /\ io' = [io EXCEPT ![p].r = "closed"]
    /\ UNCHANGED shutp /\ UnchSetup
inprocPipeClose(p) ==
    /\ part.talk /\ Live(p) /\ p \notin shutp
    /\ shutp' = shutp \cup {p}
    /\ UNCHANGED io /\ UnchSetup

InprocNext ==
    \/ \E l \in Doors : \/ inprocListen(l) \/ inprocAccept(l) \/ inprocAcceptReturns(l)
                        \/ inprocClose(l) \/ inprocCloseServers(l)
    \/ \E c \in Clients : inprocDialCall(c) \/ inprocDial(c) \/ inprocLink(c)
    \/ \E p \in InprocPipes : \/ inprocSend(p) \/ inprocRecv(p) \/ inprocTransfer(p)
                              \/ inprocSendFails(p) \/ inprocRecvFails(p) \/ inprocPipeClose(p)

InprocSpec == InprocInit /\ [][InprocNext]_ivars

\* As long as some goroutine of the transport can run, one does.  (Weaker than
\* fairness to each, and enough: the calls are finitely many.)
InprocProgress ==
    \/ \E l \in Doors : inprocAccept(l) \/ inprocAcceptReturns(l) \/ inprocCloseServers(l)
    \/ \E c \in Clients : inprocDial(c) \/ inprocLink(c)
    \/ \E p \in InprocPipes : inprocTransfer(p) \/ inprocSendFails(p) \/ inprocRecvFails(p)
InprocFairness == WF_ivars(InprocProgress)

(***************************************************************************)
(* Properties.                                                             *)
(***************************************************************************)

\* The table is exact.  The address leads to the one listener that has
\* listened and not closed: Close of another listener does not take it away,
\* and no closed listener keeps it.  A dial and an accept call are joined one
\* to one: a server pipe that a dial has taken is no longer queued, no two
\* dials have the same, and the two sides agree about each other.
PairsExact ==
    /\ \A l \in Doors : byAddr = l <=> door[l].active /\ ~door[l].closed
    /\ \A c \in Clients, l \in Doors : cli[c].peer \notin Range(door[l].accepters)
    /\ \A c, d \in Clients : cli[c].peer # Nobody /\ cli[c].peer = cli[d].peer => c = d
    /\ \A s \in Servers : srv[s].peer # Nobody => cli[srv[s].peer].peer = s

Blocked(p) == "wait" \in {io[p].s, io[p].r}

\* Nobody sleeps for ever.  A dial is joined, or refused when the listener
\* goes away (Dial has no timeout of its own); the pipe it was joined to is
\* returned by Accept, even if the listener closes meanwhile; and closing
\* either end of a pair releases the calls blocked at both.
DialReturns ==
    /\ \A c \in Clients : cli[c].pc \in {"check", "asleep", "link"} ~> cli[c].pc \in {"done", "refused", "badproto"}
    /\ \A s \in Servers : srv[s].st = "popped" ~> srv[s].st = "accepted"
    /\ \A p \in InprocPipes : Blocked(p) /\ Cut(p) ~> ~Blocked(p)

\* An inproc listener implements the contract of TranListener: a connection
\* is a queued server pipe, accepted when a dial takes it; Close closes the
\* others, and with them ends their Accept calls.
InprocEndpoint == INSTANCE Endpoint WITH
    Listeners <- Doors, Conns <- Servers, Of <- [s \in Servers |-> s[1]],
    shut <- {l \in Doors : door[l].closed},
    conns <- [s \in Servers |-> IF s \in shutp /\ srv[s].st = "queued" THEN "gone"
                                ELSE IF srv[s].st = "queued" THEN "pending"
                                ELSE IF srv[s].st = "free" THEN "none" ELSE "accepted"]
InprocIsEndpoint ==
    /\ InprocEndpoint!EndpointSafety
    /\ \A s \in Servers : srv[s].st = "queued" /\ door[s[1]].closed ~> s \in shutp

(***************************************************************************)
(* What the proofs need besides.                                           *)
(***************************************************************************)
DoorState == [active : BOOLEAN, closed : BOOLEAN, accepters : Seq(Servers), closing : SUBSET Servers]
AccState == [at : {"off", "idle", "wait", "over"}, pipe : Servers \cup {Nobody}]
SrvState == [st : {"free", "queued", "popped", "ready", "accepted"}, peer : Clients \cup {Nobody}]
CliState == [pc : {"idle", "check", "asleep", "link", "done", "refused", "badproto"},
             peer : Servers \cup {Nobody}]
InprocTypeOK ==
    /\ byAddr \in Doors \cup {NoDoor}
    /\ door \in [Doors -> DoorState]
    /\ iacc \in [Doors -> AccState]
    /\ srv \in [Servers -> SrvState]
    /\ cli \in [Clients -> CliState]
    /\ shutp \subseteq InprocPipes

\* A server pipe waits in the queue of its listener, once, until a dial takes
\* it or Close moves it to the ones it will close.
QueueExact ==
    /\ \A l \in Doors : \A i \in DOMAIN door[l].accepters :
          LET s == door[l].accepters[i] IN
          /\ s[1] = l /\ srv[s].st = "queued" /\ s \notin shutp
          /\ \A j \in DOMAIN door[l].accepters : door[l].accepters[j] = s => i = j
    /\ \A l \in Doors : \A s \in door[l].closing : s[1] = l /\ srv[s].st = "queued"
    /\ \A l \in Doors : door[l].closing # {} => door[l].closed
    /\ \A l \in Doors : door[l].closed => door[l].accepters = <<>>
    /\ \A s \in Servers : srv[s].st = "free" => s \notin shutp

\* A dial has a server pipe from the moment it takes one, for good.
JoinExact ==
    /\ \A c \in Clients : cli[c].peer # Nobody <=> cli[c].pc \in {"link", "done"}
    /\ \A c \in Clients : cli[c].peer # Nobody => srv[cli[c].peer].st \in {"popped", "ready", "accepted"}

InprocInv == InprocTypeOK /\ PairsExact /\ QueueExact /\ JoinExact
=============================================================================
