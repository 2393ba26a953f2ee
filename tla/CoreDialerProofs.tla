-------------------------- MODULE CoreDialerProofs --------------------------
(***************************************************************************)
(* Proofs about the dialers of Core: one connection, or one attempt, at a  *)
(* time, handed over from goroutine to timer to pipe without being lost;   *)
(* and reconnect delays within the configured limits.                      *)
(***************************************************************************)
EXTENDS CoreProofs

USE EndpointAssumption, NumberAssumption
USE DEF vars, socketVars, endpointVars, dialerVars, pipeVars, idVars

\* The part of a dialer's turn that is a goroutine or a timer.
Work(d) ==
    tasks[d]["dial"] + tasks[d]["dialOnce"] + tasks[d]["connect"] + tasks[d]["connectOnce"]
        + tasks[d]["timer"] + tasks[d]["pipeClosed"]

\* The inductive form of OneConnectionPerDialer: a dialer that was not started
\* has no work at all.
DialerTurns ==
    \A d \in Dialers :
        /\ TokenCount(d) <= 1
        /\ ~active[d] => TokenCount(d) = 0
        /\ active[d] /\ ~stopped[d] /\ ~eclosed[d] => TokenCount(d) = 1

LEMMA WorkType ==
    ASSUME TypeOK, NEW d \in Dialers
    PROVE  /\ Work(d) \in Nat
           /\ \A k \in TokenKinds : tasks[d][k] \in Nat /\ tasks[d][k] <= Work(d)
  BY DEF TypeOK, Work, TaskKinds, TokenKinds, DialKinds, ConnKinds

\* The pipes of a dialer are finitely many.
LEMMA LiveFinite ==
    ASSUME NEW d \in Dialers
    PROVE  IsFiniteSet(LivePipes(d)) /\ Cardinality(LivePipes(d)) \in Nat
<1>1. LivePipes(d) \subseteq Pipes
  BY DEF LivePipes
<1> QED
  BY <1>1, FS_Subset, FS_CardinalityType

LEMMA CountType ==
    ASSUME TypeOK, NEW d \in Dialers
    PROVE  TokenCount(d) = Work(d) + Cardinality(LivePipes(d)) /\ TokenCount(d) \in Nat
  BY WorkType, LiveFinite DEF TokenCount, Work

\* A step that neither creates a pipe nor completes a Close leaves the live
\* pipes of every dialer as they are.
LEMMA LiveSame ==
    ASSUME NEW d \in Dialers, UNCHANGED owner,
           \A p \in Pipes : cst'[p] = "closed" <=> cst[p] = "closed"
    PROVE  LivePipes(d)' = LivePipes(d)
  BY DEF LivePipes

\* One goroutine less.
LEMMA WorkEnds ==
    ASSUME TypeOK, NEW d \in Dialers, NEW k \in TokenKinds, Ends(d, k)
    PROVE  /\ Work(d)' = Work(d) - 1
           /\ Work(d) > 0
           /\ \A x \in Dialers \ {d} : Work(x)' = Work(x)
<1>1. k \in TaskKinds /\ tasks[d] \in [TaskKinds -> Nat] /\ tasks[d][k] \in Nat
  <2>1. k \in TaskKinds
    BY DEF TaskKinds
  <2> QED
    BY <2>1 DEF TypeOK
<1>0. tasks[d][k] > 0
  BY DEF Ends
<1>2. /\ tasks'[d] = [tasks[d] EXCEPT ![k] = @ - 1]
      /\ \A x \in Dialers \ {d} : tasks'[x] = tasks[x]
  BY DEF Ends, TypeOK
<1>3. Work(d)' = Work(d) - 1
  BY <1>1, <1>2 DEF Work, TaskKinds, TokenKinds, DialKinds, ConnKinds
<1>4. Work(d) > 0
  BY <1>0, <1>1, WorkType
<1> QED
  BY <1>2, <1>3, <1>4 DEF Work

\* A hand-over from one kind of goroutine or timer to another keeps the
\* amount of work.
LEMMA WorkBecomes ==
    ASSUME TypeOK, NEW d \in Dialers, NEW k \in TokenKinds, NEW m \in TokenKinds,
           k # m, Becomes(d, k, m)
    PROVE  \A x \in Dialers : Work(x)' = Work(x)
<1>1. /\ k \in TaskKinds /\ m \in TaskKinds
      /\ tasks[d][k] \in Nat /\ tasks[d][m] \in Nat /\ tasks[d] \in [TaskKinds -> Nat]
  BY DEF Becomes, TypeOK, TaskKinds
<1>2. /\ tasks'[d] = [tasks[d] EXCEPT ![k] = @ - 1, ![m] = @ + 1]
      /\ \A x \in Dialers \ {d} : tasks'[x] = tasks[x]
  BY <1>1 DEF Becomes, TypeOK
<1>3. Work(d)' = Work(d)
  BY <1>1, <1>2 DEF Work, TaskKinds, TokenKinds, DialKinds, ConnKinds
<1> QED
  BY <1>2, <1>3 DEF Work

\* A notification of the dialer of p: "pipeClosed" is work, "pipeConnected" is not.
LEMMA WorkNotify ==
    ASSUME TypeOK, NEW p \in Pipes, NEW x \in Dialers
    PROVE  /\ Notify(p, "pipeConnected") => Work(x)' = Work(x)
           /\ Notify(p, "pipeClosed") =>
                 Work(x)' = Work(x) + (IF x = owner[p] THEN 1 ELSE 0)
<1>1. tasks[x] \in [TaskKinds -> Nat]
  BY DEF TypeOK
<1>2. ASSUME NEW k \in TaskKinds, Notify(p, k)
      PROVE  tasks'[x] = IF x = owner[p] THEN [tasks[x] EXCEPT ![k] = @ + 1] ELSE tasks[x]
  BY <1>2 DEF Notify
<1> QED
  BY <1>1, <1>2 DEF Work, TaskKinds, TokenKinds, DialKinds, ConnKinds

\* With the same work and the same live pipes, and no dialer started, given up
\* or reopened, every dialer keeps its turn.
LEMMA TurnsSame ==
    ASSUME TypeOK, TypeOK', DialerTurns,
           \A x \in Dialers : TokenCount(x)' = TokenCount(x),
           \A x \in Dialers : active'[x] = active[x],
           \A x \in Dialers : stopped[x] => stopped'[x],
           \A x \in Dialers : eclosed[x] => eclosed'[x]
    PROVE  DialerTurns'
  BY DEF DialerTurns

\* A goroutine of a dialer that is closed or gives up may end.
LEMMA TurnsEnd ==
    ASSUME TypeOK, TypeOK', DialerTurns, NEW d \in Dialers,
           TokenCount(d)' = TokenCount(d) - 1, Work(d) > 0,
           stopped'[d] \/ eclosed'[d],
           \A x \in Dialers \ {d} : TokenCount(x)' = TokenCount(x),
           \A x \in Dialers : active'[x] = active[x],
           \A x \in Dialers : stopped[x] => stopped'[x],
           \A x \in Dialers : eclosed[x] => eclosed'[x]
    PROVE  DialerTurns'
<1>1. TokenCount(d) \in Nat /\ TokenCount(d) > 0
  BY CountType, WorkType, LiveFinite
<1>2. TokenCount(d) = 1 /\ active[d]
  BY <1>1 DEF DialerTurns
<1> QED
  BY <1>2 DEF DialerTurns

LEMMA TurnsStep ==
    TypeOK /\ TypeOK' /\ StagesAgree /\ DialerTurns /\ [Next]_vars => DialerTurns'
<1> SUFFICES ASSUME TypeOK, TypeOK', StagesAgree, DialerTurns, [Next]_vars PROVE DialerTurns'
  OBVIOUS
<1>a. \A x \in Dialers : /\ TokenCount(x) = Work(x) + Cardinality(LivePipes(x))
                         /\ TokenCount(x)' = Work(x)' + Cardinality(LivePipes(x))'
                         /\ Work(x) \in Nat /\ Work(x)' \in Nat
  <2>1. \A x \in Dialers : TokenCount(x) = Work(x) + Cardinality(LivePipes(x)) /\ Work(x) \in Nat
    BY CountType, WorkType
  <2>2. \A x \in Dialers : TokenCount(x)' = Work(x)' + Cardinality(LivePipes(x))'
    BY DEF TokenCount, Work
  <2>3. \A x \in Dialers : Work(x)' \in Nat
    BY DEF TypeOK, Work, TaskKinds, TokenKinds, DialKinds, ConnKinds
  <2> QED
    BY <2>1, <2>2, <2>3
<1>b. \A x \in Dialers : Cardinality(LivePipes(x)) \in Nat
  BY LiveFinite
<1>c. Dialers \subseteq Endpoints /\ NoEndpoint \notin Dialers
  BY DEF Endpoints
<1>d. PipeTypes
  BY DEF TypeOK, PipeTypes
\* Steps of a pipe that move neither work nor live pipes.
<1>1. ASSUME NEW p \in Pipes, addPipeStep(p) PROVE DialerTurns'
  <2>1. UNCHANGED <<owner, active, stopped, eclosed>>
    BY <1>1 DEF addPipeStep, addPipeList, addPipeAttaching, addPipeRejected, addPipeRefused,
                addPipeAccepted, addPipeUnlist, addPipeAttached
  <2>2. \A q \in Pipes : cst'[q] = "closed" <=> cst[q] = "closed"
    <3>1. UNCHANGED cst \/ addPipeUnlist(p)
      BY <1>1 DEF addPipeStep, addPipeList, addPipeAttaching, addPipeRejected, addPipeRefused,
                  addPipeAccepted, addPipeAttached
    <3>2. ASSUME addPipeUnlist(p), NEW q \in Pipes PROVE cst'[q] = "closed" <=> cst[q] = "closed"
      BY <1>d, <3>2 DEF addPipeUnlist, PipeTypes
    <3> QED
      BY <3>1, <3>2
  <2>3. UNCHANGED tasks \/ Notify(p, "pipeConnected")
    BY <1>1 DEF addPipeStep, addPipeList, addPipeAttaching, addPipeRejected, addPipeRefused,
                addPipeAccepted, addPipeUnlist, addPipeAttached
  <2>4. \A x \in Dialers : Work(x)' = Work(x)
    BY <2>3, WorkNotify DEF Work
  <2> QED
    BY <2>1, <2>2, <2>4, <1>a, LiveSame, TurnsSame
<1>2. ASSUME NEW p \in Pipes,
             closeTransport(p) \/ closeLocked(p) \/ remPipeUnlist(p) \/ detachStep(p) \/ CallClose(p)
      PROVE  DialerTurns'
  <2>1. UNCHANGED <<owner, active, stopped, eclosed, tasks>>
    BY <1>2 DEF closeTransport, closeLocked, remPipeUnlist, detachStep, remPipeCallback,
                remPipeFree, CallClose
  <2>2. \A q \in Pipes : cst'[q] = "closed" <=> cst[q] = "closed"
    <3>1. \/ UNCHANGED cst
          \/ cst[p] # "closed" /\ \E t \in {"requested", "tclosed", "removing", "notify"} :
                                      cst' = [cst EXCEPT ![p] = t]
      BY <1>2 DEF closeTransport, closeLocked, remPipeUnlist, detachStep, remPipeCallback,
                  remPipeFree, CallClose
    <3> QED
      BY <1>d, <3>1 DEF PipeTypes
  <2>3. \A x \in Dialers : Work(x)' = Work(x)
    BY <2>1 DEF Work
  <2> QED
    BY <2>1, <2>2, <2>3, <1>a, LiveSame, TurnsSame
\* The end of Close: the pipe's turn passes to the pipeClosed goroutine.
<1>3. ASSUME NEW p \in Pipes, closeNotify(p) PROVE DialerTurns'
  <2>1. UNCHANGED <<owner, active, stopped, eclosed>> /\ Notify(p, "pipeClosed")
    BY <1>3 DEF closeNotify
  <2>2. ASSUME NEW x \in Dialers PROVE TokenCount(x)' = TokenCount(x)
    <3>1. CASE x = owner[p]
      <4>1. p \in LivePipes(x) /\ LivePipes(x)' = LivePipes(x) \ {p}
        BY <1>3, <3>1, <1>d DEF closeNotify, LivePipes, PipeTypes
      <4>2. Cardinality(LivePipes(x) \ {p}) = Cardinality(LivePipes(x)) - 1
        BY <4>1, LiveFinite, FS_RemoveElement
      <4>3. Work(x)' = Work(x) + 1
        BY <2>1, <3>1, WorkNotify
      <4> QED
        <5>1. Cardinality(LivePipes(x))' = Cardinality(LivePipes(x)) - 1
          BY <4>1, <4>2, Zenon
        <5> QED
          BY <4>3, <5>1, <1>a, <1>b
    <3>2. CASE x # owner[p]
      <4>1. LivePipes(x)' = LivePipes(x)
        BY <1>3, <3>2, <1>d DEF closeNotify, LivePipes, PipeTypes
      <4>2. Work(x)' = Work(x)
        BY <2>1, <3>2, <1>a, WorkNotify
      <4> QED
        BY <4>1, <4>2, <1>a
    <3> QED
      BY <3>1, <3>2
  <2> QED
    BY <2>1, <2>2, TurnsSame
\* A new pipe takes the turn over from the dial goroutine.
<1>4. ASSUME NEW d \in Dialers, NEW p \in Pipes, dialSucceeds(d, p) PROVE DialerTurns'
  <2>1. /\ UNCHANGED <<active, stopped, eclosed, cst>>
        /\ pst[p] = "none" /\ owner' = [owner EXCEPT ![p] = d]
    BY <1>4 DEF dialSucceeds, newPipe
  <2>2. PICK k \in ConnKinds : Ends(d, k)
    BY <1>4 DEF dialSucceeds
  <2>3. owner[p] = NoEndpoint /\ cst[p] = "idle"
    BY <2>1 DEF StagesAgree, StagesOf
  <2>4. ASSUME NEW x \in Dialers PROVE TokenCount(x)' = TokenCount(x)
    <3>1. CASE x = d
      <4>1. p \notin LivePipes(d) /\ LivePipes(d)' = LivePipes(d) \cup {p}
        BY <2>1, <2>3, <1>c, <1>d DEF LivePipes, PipeTypes
      <4>2. Cardinality(LivePipes(d) \cup {p}) = Cardinality(LivePipes(d)) + 1
        BY <4>1, LiveFinite, FS_AddElement
      <4>3. Work(d)' = Work(d) - 1
        BY <2>2, WorkEnds DEF TokenKinds
      <4> QED
        <5>1. Cardinality(LivePipes(d))' = Cardinality(LivePipes(d)) + 1
          BY <4>1, <4>2, Zenon
        <5> QED
          BY <3>1, <4>3, <5>1, <1>a, <1>b
    <3>2. CASE x # d
      <4>1. LivePipes(x)' = LivePipes(x)
        BY <2>1, <2>3, <3>2, <1>c, <1>d DEF LivePipes, PipeTypes
      <4>2. Work(x)' = Work(x)
        BY <2>2, <3>2, WorkEnds DEF TokenKinds
      <4> QED
        BY <4>1, <4>2, <1>a
    <3> QED
      BY <3>1, <3>2
  <2> QED
    BY <2>1, <2>4, TurnsSame
\* The first attempt of a dialer that had none.
<1>5. ASSUME NEW d \in Dialers, Dial(d) PROVE DialerTurns'
  <2>1. /\ UNCHANGED <<stopped, eclosed, owner, cst>>
        /\ ~active[d] /\ \A x \in Dialers \ {d} : active'[x] = active[x]
    BY <1>5, <1>c DEF Dial, TypeOK
  <2>2. PICK k \in DialKinds : tasks' = [tasks EXCEPT ![d][k] = @ + 1]
    BY <1>5 DEF Dial, DialKinds
  <2>3. /\ tasks'[d] = [tasks[d] EXCEPT ![k] = @ + 1] /\ tasks[d] \in [TaskKinds -> Nat]
        /\ \A x \in Dialers \ {d} : tasks'[x] = tasks[x]
    BY <2>2 DEF TypeOK
  <2>4. Work(d)' = Work(d) + 1
    BY <2>2, <2>3 DEF Work, TaskKinds, TokenKinds, DialKinds, ConnKinds
  <2>5. \A x \in Dialers \ {d} : Work(x)' = Work(x)
    BY <2>3 DEF Work
  <2>6. \A x \in Dialers : LivePipes(x)' = LivePipes(x)
    BY <2>1 DEF LivePipes
  <2>7. TokenCount(d)' = 1
    <3>1. TokenCount(d) = 0
      BY <2>1 DEF DialerTurns
    <3> QED
      BY <2>4, <2>6, <3>1, <1>a, <1>b
  <2>8. \A x \in Dialers \ {d} : TokenCount(x)' = TokenCount(x)
    BY <2>5, <2>6, <1>a
  <2>9. active'[d]
    BY <1>5, <1>c DEF Dial, TypeOK
  <2> QED
    BY <2>1, <2>7, <2>8, <2>9 DEF DialerTurns
\* The turn passes between goroutines and timers of the dialer.
<1>6. ASSUME NEW d \in Dialers,
             dialStart(d) \/ dialFails(d) \/ pipeClosed(d) \/ redialTimer(d) \/ pipeConnected(d)
      PROVE  DialerTurns'
  <2>1. UNCHANGED <<active, stopped, eclosed, owner, cst>>
    BY <1>6 DEF dialStart, dialFails, pipeClosed, redialTimer, pipeConnected
  <2>2. \A x \in Dialers : LivePipes(x)' = LivePipes(x)
    BY <2>1 DEF LivePipes
  <2>3. \A x \in Dialers : Work(x)' = Work(x)
    <3>1. CASE pipeConnected(d)
      <4>1. /\ tasks'[d] = [tasks[d] EXCEPT !["pipeConnected"] = @ - 1]
            /\ tasks[d] \in [TaskKinds -> Nat]
            /\ \A x \in Dialers \ {d} : tasks'[x] = tasks[x]
        <5>1. tasks \in [Dialers -> [TaskKinds -> Nat]]
          BY DEF TypeOK
        <5> QED
          BY <3>1, <5>1 DEF pipeConnected, Ends
      <4>2. Work(d)' = Work(d)
        BY <4>1 DEF Work, TaskKinds, TokenKinds, DialKinds, ConnKinds
      <4> QED
        BY <4>1, <4>2 DEF Work
    <3>2. CASE ~pipeConnected(d)
      <4>1. PICK k \in TokenKinds, m \in TokenKinds : k # m /\ Becomes(d, k, m)
        <5>1. {"dial", "dialOnce", "connect", "connectOnce", "timer", "pipeClosed"} = TokenKinds
          BY DEF TokenKinds, DialKinds, ConnKinds
        <5>2. \/ Becomes(d, "dial", "connect") \/ Becomes(d, "dialOnce", "connectOnce")
              \/ Becomes(d, "connect", "timer") \/ Becomes(d, "pipeClosed", "timer")
              \/ Becomes(d, "timer", "dial")
          BY <1>6, <3>2 DEF dialStart, dialFails, pipeClosed, redialTimer, redial
        <5> QED
          BY <5>1, <5>2
      <4> QED
        BY <4>1, WorkBecomes
    <3> QED
      BY <3>1, <3>2
  <2> QED
    BY <2>1, <2>2, <2>3, <1>a, TurnsSame
\* A dialer that is closed, or gives up, loses its turn.
<1>7. ASSUME NEW d \in Dialers, dialClosed(d) \/ dialGivesUp(d) PROVE DialerTurns'
  <2>1. UNCHANGED <<active, eclosed, owner, cst>> /\ (stopped'[d] \/ eclosed'[d])
        /\ \A x \in Dialers : stopped[x] => stopped'[x]
    <3>1. CASE dialClosed(d)
      BY <3>1 DEF dialClosed
    <3>2. CASE dialGivesUp(d)
      BY <3>2 DEF dialGivesUp, TypeOK
    <3> QED
      BY <1>7, <3>1, <3>2
  <2>2. PICK k \in TokenKinds : Ends(d, k)
    BY <1>7 DEF dialClosed, dialGivesUp, TokenKinds
  <2>3. \A x \in Dialers : LivePipes(x)' = LivePipes(x)
    BY <2>1 DEF LivePipes
  <2>4. /\ Work(d)' = Work(d) - 1 /\ Work(d) > 0
        /\ \A x \in Dialers \ {d} : Work(x)' = Work(x)
    BY <2>2, WorkEnds
  <2>5. TokenCount(d)' = TokenCount(d) - 1
    BY <2>3, <2>4, <1>a, <1>b
  <2>6. \A x \in Dialers \ {d} : TokenCount(x)' = TokenCount(x)
    BY <2>3, <2>4, <1>a
  <2> QED
    BY <2>1, <2>4, <2>5, <2>6, TurnsEnd
<1>8. ASSUME NEW e \in Endpoints, CloseEndpoint(e), UNCHANGED <<active, stopped, owner, cst>>
      PROVE  DialerTurns'
  <2>1. \A x \in Dialers : LivePipes(x)' = LivePipes(x)
    BY <1>8 DEF LivePipes
  <2>2. \A x \in Dialers : eclosed[x] => eclosed'[x]
    BY <1>8, <1>c DEF CloseEndpoint, TypeOK
  <2>3. CASE UNCHANGED tasks
    <3>1. \A x \in Dialers : Work(x)' = Work(x)
      BY <2>3 DEF Work
    <3> QED
      BY <1>8, <2>1, <2>2, <3>1, <1>a, TurnsSame
  <2>4. CASE e \in Dialers /\ Ends(e, "timer")
    <3>1. /\ Work(e)' = Work(e) - 1 /\ Work(e) > 0
          /\ \A x \in Dialers \ {e} : Work(x)' = Work(x)
      BY <2>4, WorkEnds DEF TokenKinds
    <3>2. TokenCount(e)' = TokenCount(e) - 1
      BY <2>1, <2>4, <3>1, <1>a, <1>b
    <3>3. \A x \in Dialers \ {e} : TokenCount(x)' = TokenCount(x)
      BY <2>1, <3>1, <1>a
    <3>4. eclosed'[e]
      BY <1>8 DEF CloseEndpoint, TypeOK
    <3> QED
      BY <1>8, <2>2, <2>4, <3>1, <3>2, <3>3, <3>4, TurnsEnd
  <2> QED
    BY <1>8, <2>3, <2>4 DEF CloseEndpoint
\* A listener's pipe is no dialer's.
<1>9. ASSUME NEW l \in Listeners, NEW p \in Pipes, serveAccepted(l, p) PROVE DialerTurns'
  <2>1. /\ UNCHANGED <<tasks, active, stopped, eclosed, cst>>
        /\ owner[p] = NoEndpoint /\ owner' = [owner EXCEPT ![p] = l]
    BY <1>9 DEF serveAccepted, newPipe, StagesAgree, StagesOf
  <2>2. ASSUME NEW x \in Dialers PROVE LivePipes(x)' = LivePipes(x) /\ Work(x)' = Work(x)
    <3>1. x # l /\ x # NoEndpoint
      OBVIOUS
    <3>2. LivePipes(x)' = LivePipes(x)
      BY <2>1, <3>1, <1>d DEF LivePipes, PipeTypes
    <3>3. Work(x)' = Work(x)
      BY <2>1 DEF Work
    <3> QED
      BY <3>2, <3>3
  <2> QED
    BY <2>1, <2>2, <1>a, TurnsSame
\* Everything else is no dialer's business.
<1>10. ASSUME UNCHANGED <<tasks, stopped, owner>>,
              \A x \in Dialers : active'[x] = active[x] /\ eclosed'[x] = eclosed[x],
              \A p \in Pipes : cst'[p] = "closed" <=> cst[p] = "closed"
       PROVE  DialerTurns'
  <2>1. \A x \in Dialers : Work(x)' = Work(x)
    BY <1>10 DEF Work
  <2> QED
    BY <1>10, <2>1, <1>a, LiveSame, TurnsSame
<1>11. ASSUME NEW e \in Endpoints, NewEndpoint(e) \/ AppCloseEndpoint(e) PROVE DialerTurns'
  <2>1. CASE NewEndpoint(e)
    BY <2>1, <1>10 DEF NewEndpoint
  <2> QED
    BY <1>11, <2>1, <1>8 DEF AppCloseEndpoint
<1>12. ASSUME NEW l \in Listeners,
              Listen(l) \/ ListenFails(l) \/ ListenSucceeds(l) \/ serveStep(l) \/ serveError(l)
       PROVE  DialerTurns'
  <2>1. UNCHANGED <<tasks, stopped, owner, cst, eclosed>>
    BY <1>12 DEF Listen, ListenFails, ListenSucceeds, serveStep, serveCheck, serveClosed, serveError
  <2>2. \A x \in Dialers : active'[x] = active[x]
    <3>1. l \notin Dialers
      OBVIOUS
    <3> QED
      BY <1>12, <1>c, <3>1
      DEF TypeOK, Listen, ListenFails, ListenSucceeds, serveStep, serveCheck, serveClosed, serveError
  <2> QED
    BY <2>1, <2>2, <1>10
<1>13. ASSUME NEW c \in Closers, CloseStart(c) \/ CloseStep(c) PROVE DialerTurns'
  <2>1. CASE CloseStart(c) \/ CloseProto(c)
    BY <2>1, <1>10 DEF CloseStart, CloseProto
  <2>2. CASE CloseNextEndpoint(c)
    <3>1. PICK e \in ctodo[c] : CloseEndpoint(e)
      BY <2>2 DEF CloseNextEndpoint
    <3>2. e \in Endpoints
      BY <3>1 DEF TypeOK
    <3> QED
      BY <2>2, <3>1, <3>2, <1>8 DEF CloseNextEndpoint
  <2>3. CASE CloseAll(c)
    <3>1. UNCHANGED <<tasks, stopped, owner, active, eclosed>>
      BY <2>3 DEF CloseAll
    <3>2. \A p \in Pipes : cst'[p] = "closed" <=> cst[p] = "closed"
      BY <2>3 DEF CloseAll, TypeOK
    <3> QED
      BY <3>1, <3>2, <1>10
  <2> QED
    BY <1>13, <2>1, <2>2, <2>3 DEF CloseStep
<1>14. ASSUME SetPipeEventHook \/ UNCHANGED vars PROVE DialerTurns'
  BY <1>14, <1>10 DEF SetPipeEventHook
<1> QED
  BY <1>1, <1>2, <1>3, <1>4, <1>5, <1>6, <1>7, <1>9, <1>11, <1>12, <1>13, <1>14
  DEF Next, closeStep, dialerStep

-----------------------------------------------------------------------------
\* No work of any kind is no work.
LEMMA ZeroWork ==
  ASSUME NEW a, NEW b, NEW c, NEW e, NEW f, NEW g,
         a = 0, b = 0, c = 0, e = 0, f = 0, g = 0
  PROVE  a + b + c + e + f + g = 0
  OBVIOUS

\* However connections break, attempts fail and Close calls interfere, a
\* dialer's turn is never doubled, and not lost while the dialer is in use.
THEOREM OneConnection == Spec => []OneConnectionPerDialer
<1>1. Init => DialerTurns
  <2> SUFFICES ASSUME Init, NEW d \in Dialers
               PROVE  TokenCount(d) = 0 /\ ~active[d]
    BY DEF DialerTurns
  <2>1. tasks[d] = [k \in TaskKinds |-> 0]
    BY DEF Init
  <2>2. Work(d) = 0
    <3>1. \A k \in TokenKinds : tasks[d][k] = 0
      BY <2>1 DEF TaskKinds
    <3>2. {"dial", "dialOnce", "connect", "connectOnce", "timer", "pipeClosed"} \subseteq TokenKinds
      BY DEF TokenKinds, DialKinds, ConnKinds
    <3>3. /\ tasks[d]["dial"] = 0 /\ tasks[d]["dialOnce"] = 0 /\ tasks[d]["connect"] = 0
          /\ tasks[d]["connectOnce"] = 0 /\ tasks[d]["timer"] = 0 /\ tasks[d]["pipeClosed"] = 0
      BY <3>1, <3>2
    <3> QED
      BY <3>3, ZeroWork DEF Work
  <2>3. LivePipes(d) = {}
    BY DEF Init, LivePipes
  <2>4. Cardinality({}) = 0
    BY FS_EmptySet
  <2> QED
    BY <2>2, <2>3, <2>4 DEF TokenCount, Work, Init, Endpoints
<1>2. DialerTurns => OneConnectionPerDialer
  BY DEF DialerTurns, OneConnectionPerDialer
<1>3. PipeInv /\ PipeInv' => TypeOK /\ TypeOK' /\ StagesAgree
  BY DEF PipeInv
<1> QED
  BY <1>1, <1>2, <1>3, TurnsStep, PipeInvInductive, PTL DEF Spec

\* Whatever the sequence of failures, backoffs and successful connections, the
\* reconnect delay stays within the configured limits.
THEOREM DelayBounded == Spec => []ReconnectDelayBounded
<1>1. Init => ReconnectDelayBounded
  BY DEF Init, ReconnectDelayBounded, Larger
<1>2. TypeOK /\ ReconnectDelayBounded /\ [Next]_vars => ReconnectDelayBounded'
  <2> SUFFICES ASSUME TypeOK, ReconnectDelayBounded, [Next]_vars PROVE ReconnectDelayBounded'
    OBVIOUS
  <2>1. ASSUME NEW d \in Dialers, NEW k, NEW b, redial(d, k, b) PROVE ReconnectDelayBounded'
    <3>1. PICK t \in IF b THEN NextDelays(reconnTime[d]) ELSE {reconnTime[d]} :
            reconnTime' = [reconnTime EXCEPT ![d] = t]
      BY <2>1 DEF redial
    <3>2. t <= Larger(ReconnMin, ReconnMax)
      BY NextDelaysBounded DEF TypeOK, ReconnectDelayBounded
    <3> QED
      BY <3>1, <3>2 DEF TypeOK, ReconnectDelayBounded
  <2>2. ASSUME NEW d \in Dialers, Dial(d) \/ pipeConnected(d) PROVE ReconnectDelayBounded'
    <3>1. reconnTime' = [reconnTime EXCEPT ![d] = ReconnMin] /\ reconnTime \in [Dialers -> Nat]
      BY <2>2 DEF Dial, pipeConnected, TypeOK
    <3>2. ReconnMin <= Larger(ReconnMin, ReconnMax)
      BY DEF Larger
    <3> QED
      BY <3>1, <3>2 DEF ReconnectDelayBounded
  <2>3. CASE UNCHANGED reconnTime
    BY <2>3 DEF ReconnectDelayBounded
  <2>4. ASSUME NEW p \in Pipes, addPipeStep(p) \/ closeStep(p) \/ detachStep(p) \/ CallClose(p)
        PROVE  UNCHANGED reconnTime
    BY <2>4 DEF addPipeStep, addPipeList, addPipeAttaching, addPipeRejected, addPipeRefused,
                addPipeAccepted, addPipeUnlist, addPipeAttached, closeStep, closeTransport,
                closeLocked, remPipeUnlist, closeNotify, detachStep, remPipeCallback,
                remPipeFree, CallClose
  <2>5. ASSUME NEW e \in Endpoints, NewEndpoint(e) \/ AppCloseEndpoint(e)
        PROVE  UNCHANGED reconnTime
    BY <2>5 DEF NewEndpoint, AppCloseEndpoint
  <2>6. ASSUME NEW l \in Listeners,
               \/ Listen(l) \/ ListenFails(l) \/ ListenSucceeds(l) \/ serveStep(l) \/ serveError(l)
               \/ \E p \in Pipes : serveAccepted(l, p)
        PROVE  UNCHANGED reconnTime
    BY <2>6 DEF Listen, ListenFails, ListenSucceeds, serveStep, serveCheck, serveClosed,
                serveError, serveAccepted
  <2>7. ASSUME NEW d \in Dialers,
               \/ dialClosed(d) \/ dialStart(d) \/ redialTimer(d) \/ dialGivesUp(d)
               \/ \E p \in Pipes : dialSucceeds(d, p)
        PROVE  UNCHANGED reconnTime
    BY <2>7 DEF dialClosed, dialStart, redialTimer, dialGivesUp, dialSucceeds
  <2>8. ASSUME NEW d \in Dialers, dialFails(d) \/ pipeClosed(d) PROVE ReconnectDelayBounded'
    BY <2>1, <2>8 DEF dialFails, pipeClosed
  <2>9. ASSUME NEW c \in Closers, CloseStart(c) \/ CloseStep(c) PROVE UNCHANGED reconnTime
    BY <2>9 DEF CloseStart, CloseStep, CloseNextEndpoint, CloseProto, CloseAll
  <2>10. SetPipeEventHook => UNCHANGED reconnTime
    BY DEF SetPipeEventHook
  <2> QED
    BY <2>2, <2>3, <2>4, <2>5, <2>6, <2>7, <2>8, <2>9, <2>10 DEF Next, dialerStep
<1> QED
  BY <1>1, <1>2, TypeCorrect, PTL DEF Spec
=============================================================================
