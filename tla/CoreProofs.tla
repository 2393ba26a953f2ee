----------------------------- MODULE CoreProofs -----------------------------
(***************************************************************************)
(* Proofs about Core, for any number of pipes, dialers, listeners and      *)
(* concurrent Close calls, and for any width of the pipe IDs.              *)
(***************************************************************************)
EXTENDS Core, FiniteSetTheorems, TLAPS

\* The remainder that the ID counter and the ID mask take is in range.
LEMMA Remainder ==
    ASSUME NEW a \in Nat, NEW n \in Nat \ {0}
    PROVE  a % n \in 0 .. n - 1
  OBVIOUS

\* What Get does: the ID is a 31-bit number other than zero that nobody uses.
LEMMA GetIDFresh ==
    ASSUME TypeOK, NEW p \in Pipes, GetID(p)
    PROVE  /\ id' \in [Pipes -> 0 .. IdSpace - 1]
           /\ used' \in SUBSET (1 .. IdSpace - 1)
           /\ nextID' \in 0 .. 2 * IdSpace - 1
           /\ id'[p] \notin used
           /\ used' = used \cup {id'[p]}
           /\ \A q \in Pipes \ {p} : id'[q] = id[q]
<1> USE NumberAssumption DEF TypeOK
<1>1. PICK k \in 0 .. IdSpace - 1 :
        /\ Usable(Candidate(k))
        /\ id' = [id EXCEPT ![p] = Candidate(k)]
        /\ used' = used \cup {Candidate(k)}
        /\ nextID' = (nextID + k + 1) % (2 * IdSpace)
  BY DEF GetID
<1>2. nextID + k \in Nat /\ nextID + k + 1 \in Nat /\ 2 * IdSpace \in Nat \ {0}
  OBVIOUS
<1>3. Candidate(k) \in 0 .. IdSpace - 1
  BY <1>2, Remainder DEF Candidate
<1>4. nextID' \in 0 .. 2 * IdSpace - 1
  BY <1>1, <1>2, Remainder
<1>5. Candidate(k) \in 1 .. IdSpace - 1 /\ Candidate(k) \notin used
  BY <1>1, <1>3 DEF Usable
<1> QED
  BY <1>1, <1>3, <1>4, <1>5

USE EndpointAssumption, NumberAssumption
USE DEF vars, socketVars, endpointVars, dialerVars, pipeVars, idVars

-----------------------------------------------------------------------------
(***************************************************************************)
(* Type correctness.                                                       *)
(***************************************************************************)
\* The kinds of goroutines and timers that the actions name.
LEMMA Kinds ==
    /\ DialKinds \subseteq TaskKinds
    /\ ConnKinds \subseteq TaskKinds
    /\ {"dial", "dialOnce", "connect", "connectOnce", "timer", "pipeClosed", "pipeConnected"} = TaskKinds
  BY DEF DialKinds, ConnKinds, TokenKinds, TaskKinds

\* Moving a dialer's goroutine from one kind to another keeps the counters
\* natural numbers.
LEMMA BecomesType ==
    ASSUME TypeOK, NEW d \in Dialers, NEW k \in TaskKinds, NEW m \in TaskKinds, Becomes(d, k, m)
    PROVE  tasks' \in [Dialers -> [TaskKinds -> Nat]]
  BY DEF TypeOK, Becomes

LEMMA EndsType ==
    ASSUME TypeOK, NEW d \in Dialers, NEW k \in TaskKinds, Ends(d, k)
    PROVE  tasks' \in [Dialers -> [TaskKinds -> Nat]]
  BY DEF TypeOK, Ends

LEMMA NotifyType ==
    ASSUME TypeOK, NEW p \in Pipes, NEW k \in TaskKinds, Notify(p, k)
    PROVE  tasks' \in [Dialers -> [TaskKinds -> Nat]]
  BY DEF TypeOK, Notify

LEMMA CloseEndpointType ==
    ASSUME TypeOK, NEW e \in Endpoints, CloseEndpoint(e)
    PROVE  /\ tasks' \in [Dialers -> [TaskKinds -> Nat]]
           /\ eclosed' \in [Endpoints -> BOOLEAN]
  BY Kinds, EndsType DEF TypeOK, CloseEndpoint

\* A delay after backoff is a natural number.
LEMMA NextDelaysNat ==
    ASSUME NEW t \in Nat, NEW u \in NextDelays(t)
    PROVE  u \in Nat
  BY DEF NextDelays

LEMMA RedialType ==
    ASSUME TypeOK, NEW d \in Dialers, NEW k \in TaskKinds, NEW b, redial(d, k, b)
    PROVE  /\ tasks' \in [Dialers -> [TaskKinds -> Nat]]
           /\ reconnTime' \in [Dialers -> Nat]
<1>1. PICK t \in IF b THEN NextDelays(reconnTime[d]) ELSE {reconnTime[d]} :
        reconnTime' = [reconnTime EXCEPT ![d] = t]
  BY DEF redial
<1>2. t \in Nat
  BY NextDelaysNat DEF TypeOK
<1> QED
  BY <1>1, <1>2, Kinds, BecomesType DEF redial, TypeOK

\* A delay after backoff is a natural number within the limits.
LEMMA NextDelaysBounded ==
    ASSUME NEW t \in Nat, t <= Larger(ReconnMin, ReconnMax), NEW u \in NextDelays(t)
    PROVE  u \in Nat /\ u <= Larger(ReconnMin, ReconnMax)
<1>1. CASE ReconnMax = 0
  BY <1>1 DEF NextDelays
<1>2. CASE ReconnMax # 0
  <2>1. PICK v \in (11 * t) \div 10 .. (15 * t) \div 10 :
          u = IF v > ReconnMax THEN ReconnMax ELSE v
    BY <1>2 DEF NextDelays
  <2>2. v \in Nat
    OBVIOUS
  <2> QED
    BY <2>1, <2>2 DEF Larger
<1> QED
  BY <1>1, <1>2

\* Every step keeps the types.
LEMMA TypeStep == TypeOK /\ [Next]_vars => TypeOK'
<1> SUFFICES ASSUME TypeOK, [Next]_vars PROVE TypeOK'
  OBVIOUS
<1> USE DEF TypeOK
<1>1. ASSUME NEW p \in Pipes, addPipeList(p) PROVE TypeOK'
  BY <1>1 DEF addPipeList, AddStages
<1>2. ASSUME NEW p \in Pipes, addPipeAttaching(p) PROVE TypeOK'
  BY <1>2 DEF addPipeAttaching, AddStages
<1>3. ASSUME NEW p \in Pipes, addPipeRejected(p) PROVE TypeOK'
  BY <1>3 DEF addPipeRejected, AddStages
<1>4. ASSUME NEW p \in Pipes, addPipeRefused(p) PROVE TypeOK'
  BY <1>4 DEF addPipeRefused, AddStages
<1>5. ASSUME NEW p \in Pipes, addPipeAccepted(p) PROVE TypeOK'
  BY <1>5, Kinds, NotifyType DEF addPipeAccepted, AddStages
<1>6. ASSUME NEW p \in Pipes, addPipeUnlist(p) PROVE TypeOK'
  BY <1>6 DEF addPipeUnlist, AddStages, AddPipeReturns, CloseStages
<1>7. ASSUME NEW p \in Pipes, addPipeAttached(p) PROVE TypeOK'
  BY <1>7 DEF addPipeAttached, AddStages, AddPipeReturns
<1>8. ASSUME NEW p \in Pipes, closeTransport(p) PROVE TypeOK'
  BY <1>8 DEF closeTransport, CloseStages
<1>9. ASSUME NEW p \in Pipes, closeLocked(p) PROVE TypeOK'
  BY <1>9 DEF closeLocked, CloseStages
<1>10. ASSUME NEW p \in Pipes, remPipeUnlist(p) PROVE TypeOK'
  BY <1>10 DEF remPipeUnlist, CloseStages
<1>11. ASSUME NEW p \in Pipes, closeNotify(p) PROVE TypeOK'
  BY <1>11, Kinds, NotifyType DEF closeNotify, CloseStages
<1>12. ASSUME NEW p \in Pipes, remPipeCallback(p) PROVE TypeOK'
  BY <1>12 DEF remPipeCallback
<1>13. ASSUME NEW p \in Pipes, remPipeFree(p) PROVE TypeOK'
  BY <1>13 DEF remPipeFree
<1>14. ASSUME NEW p \in Pipes, CallClose(p) PROVE TypeOK'
  BY <1>14 DEF CallClose, CloseStages
<1>15. ASSUME NEW e \in Endpoints, NewEndpoint(e) PROVE TypeOK'
  BY <1>15 DEF NewEndpoint
<1>16. ASSUME NEW e \in Endpoints, AppCloseEndpoint(e) PROVE TypeOK'
  BY <1>16, CloseEndpointType DEF AppCloseEndpoint
<1>17. ASSUME NEW l \in Listeners, Listen(l) PROVE TypeOK'
  BY <1>17 DEF Listen, Endpoints
<1>18. ASSUME NEW l \in Listeners, ListenFails(l) PROVE TypeOK'
  BY <1>18 DEF ListenFails, Endpoints
<1>19. ASSUME NEW l \in Listeners, ListenSucceeds(l) PROVE TypeOK'
  BY <1>19 DEF ListenSucceeds, Endpoints
<1>20. ASSUME NEW l \in Listeners, serveCheck(l) PROVE TypeOK'
  BY <1>20 DEF serveCheck, Endpoints
<1>21. ASSUME NEW l \in Listeners, serveClosed(l) PROVE TypeOK'
  BY <1>21 DEF serveClosed, Endpoints
<1>22. ASSUME NEW l \in Listeners, serveError(l) PROVE TypeOK'
  BY <1>22 DEF serveError, Endpoints
<1>23. ASSUME NEW l \in Listeners, NEW p \in Pipes, serveAccepted(l, p) PROVE TypeOK'
  BY <1>23, GetIDFresh DEF serveAccepted, newPipe, AddStages, Endpoints
<1>24. ASSUME NEW d \in Dialers, Dial(d) PROVE TypeOK'
  BY <1>24, Kinds DEF Dial, Endpoints
<1>25. ASSUME NEW d \in Dialers, dialClosed(d) PROVE TypeOK'
  BY <1>25, EndsType, Kinds DEF dialClosed
<1>26. ASSUME NEW d \in Dialers, dialStart(d) PROVE TypeOK'
  BY <1>26, BecomesType, Kinds DEF dialStart
<1>27. ASSUME NEW d \in Dialers, NEW p \in Pipes, dialSucceeds(d, p) PROVE TypeOK'
  BY <1>27, GetIDFresh, EndsType, Kinds DEF dialSucceeds, newPipe, AddStages, Endpoints
<1>28. ASSUME NEW d \in Dialers, dialGivesUp(d) PROVE TypeOK'
  BY <1>28, EndsType, Kinds DEF dialGivesUp
<1>29. ASSUME NEW d \in Dialers, dialFails(d) PROVE TypeOK'
  BY <1>29, RedialType, Kinds DEF dialFails
<1>30. ASSUME NEW d \in Dialers, pipeClosed(d) PROVE TypeOK'
  BY <1>30, RedialType, Kinds DEF pipeClosed
<1>31. ASSUME NEW d \in Dialers, pipeConnected(d) PROVE TypeOK'
  BY <1>31, EndsType, Kinds DEF pipeConnected
<1>32. ASSUME NEW d \in Dialers, redialTimer(d) PROVE TypeOK'
  BY <1>32, BecomesType, Kinds DEF redialTimer
<1>33. ASSUME NEW c \in Closers, CloseStart(c) PROVE TypeOK'
  BY <1>33 DEF CloseStart
<1>34. ASSUME NEW c \in Closers, CloseNextEndpoint(c) PROVE TypeOK'
  BY <1>34, CloseEndpointType DEF CloseNextEndpoint
<1>35. ASSUME NEW c \in Closers, CloseProto(c) PROVE TypeOK'
  BY <1>35 DEF CloseProto
<1>36. ASSUME NEW c \in Closers, CloseAll(c) PROVE TypeOK'
  BY <1>36 DEF CloseAll, CloseStages
<1>37. ASSUME SetPipeEventHook PROVE TypeOK'
  BY <1>37 DEF SetPipeEventHook
<1>38. ASSUME UNCHANGED vars PROVE TypeOK'
  BY <1>38 DEF TypeOK
<1> QED
  BY <1>1, <1>2, <1>3, <1>4, <1>5, <1>6, <1>7, <1>8, <1>9, <1>10, <1>11, <1>12, <1>13, <1>14, <1>15, <1>16, <1>17, <1>18,
     <1>19, <1>20, <1>21, <1>22, <1>23, <1>24, <1>25, <1>26, <1>27, <1>28, <1>29, <1>30, <1>31, <1>32, <1>33, <1>34, <1>35, <1>36, <1>37, <1>38
  DEF Next, addPipeStep, closeStep, detachStep, serveStep, dialerStep, CloseStep

\* Type correctness of every reachable state.
THEOREM TypeCorrect == Spec => []TypeOK
<1>1. Init => TypeOK
  <2> SUFFICES ASSUME Init PROVE TypeOK
    OBVIOUS
  <2>1. tasks \in [Dialers -> [TaskKinds -> Nat]] /\ reconnTime \in [Dialers -> Nat]
    BY DEF Init
  <2>2. /\ pst \in [Pipes -> AddStages]
        /\ cst \in [Pipes -> CloseStages]
        /\ det \in [Pipes -> {"none", "callback", "free", "freed"}]
        /\ owner \in [Pipes -> Endpoints \cup {NoEndpoint}]
    BY DEF Init, AddStages, CloseStages
  <2>3. id \in [Pipes -> 0 .. IdSpace - 1]
    BY DEF Init
  <2> QED
    BY <2>1, <2>2, <2>3 DEF Init, TypeOK
<1> QED
  BY <1>1, TypeStep, PTL DEF Spec

-----------------------------------------------------------------------------
(***************************************************************************)
(* The life of a pipe.                                                     *)
(***************************************************************************)
\* The steps that concern pipe p alone.
PipeStep(p) == addPipeStep(p) \/ closeStep(p) \/ detachStep(p) \/ CallClose(p)

\* Endpoint e got a connection, and p is the new pipe for it.
NewPipeStep(p, e) ==
    newPipe(p, e) /\ UNCHANGED <<socketVars, attached, pipes, closing, cst, det, dethook>>

\* The state that these steps, and the steps of Close, are about.
pipeState == <<cpc, pclosed, attached, pipes, pipeVars, idVars>>

\* Every step is a step of one pipe, the creation of one, a step of Close, or
\* leaves the pipes, their IDs and the progress of Close alone.
LEMMA NextCases ==
    ASSUME [Next]_vars
    PROVE  \/ \E p \in Pipes : PipeStep(p)
           \/ \E p \in Pipes, e \in Endpoints : NewPipeStep(p, e)
           \/ \E c \in Closers : CloseStart(c) \/ CloseStep(c)
           \/ UNCHANGED pipeState
<1> USE DEF pipeState
<1>1. ASSUME NEW l \in Listeners, NEW p \in Pipes, serveAccepted(l, p)
      PROVE  NewPipeStep(p, l)
  BY <1>1 DEF serveAccepted, NewPipeStep
<1>2. ASSUME NEW d \in Dialers, NEW p \in Pipes, dialSucceeds(d, p)
      PROVE  NewPipeStep(p, d)
  BY <1>2 DEF dialSucceeds, NewPipeStep
<1>3. ASSUME NEW e \in Endpoints, NewEndpoint(e) \/ AppCloseEndpoint(e)
      PROVE  UNCHANGED pipeState
  BY <1>3 DEF NewEndpoint, AppCloseEndpoint
<1>4. ASSUME NEW l \in Listeners,
             Listen(l) \/ ListenFails(l) \/ ListenSucceeds(l) \/ serveStep(l) \/ serveError(l)
      PROVE  UNCHANGED pipeState
  BY <1>4 DEF Listen, ListenFails, ListenSucceeds, serveStep, serveCheck, serveClosed, serveError
<1>5. ASSUME NEW d \in Dialers,
             Dial(d) \/ dialerStep(d) \/ dialGivesUp(d) \/ dialFails(d) \/ pipeConnected(d)
      PROVE  UNCHANGED pipeState
  BY <1>5 DEF Dial, dialerStep, dialClosed, dialStart, pipeClosed, redialTimer,
              dialGivesUp, dialFails, pipeConnected
<1>6. SetPipeEventHook => UNCHANGED pipeState
  BY DEF SetPipeEventHook
<1>7. Listeners \subseteq Endpoints /\ Dialers \subseteq Endpoints
  BY DEF Endpoints
<1>8. UNCHANGED vars => UNCHANGED pipeState
  OBVIOUS
<1> QED
  BY <1>1, <1>2, <1>3, <1>4, <1>5, <1>6, <1>7, <1>8 DEF Next, PipeStep

\* Only the last step of Close touches pipes.
LEMMA CloseCases ==
    ASSUME NEW c \in Closers, CloseStart(c) \/ CloseStep(c)
    PROVE  CloseAll(c) \/ UNCHANGED <<attached, pipes, pipeVars, idVars>>
  BY DEF CloseStart, CloseStep, CloseNextEndpoint, CloseProto

\* The types of the state that belongs to pipes.
PipeTypes ==
    /\ attached \in SUBSET Pipes
    /\ pipes \in SUBSET Pipes
    /\ pst \in [Pipes -> AddStages]
    /\ owner \in [Pipes -> Endpoints \cup {NoEndpoint}]
    /\ closing \in [Pipes -> BOOLEAN]
    /\ cst \in [Pipes -> CloseStages]
    /\ det \in [Pipes -> {"none", "callback", "free", "freed"}]

\* A step leaves pipe q alone.
SameAt(q) ==
    /\ pst'[q] = pst[q] /\ owner'[q] = owner[q] /\ closing'[q] = closing[q]
    /\ cst'[q] = cst[q] /\ det'[q] = det[q]
    /\ q \in attached' <=> q \in attached
    /\ q \in pipes' <=> q \in pipes

\* Every step keeps the stages of every pipe in agreement.
LEMMA StagesStep == TypeOK /\ StagesAgree /\ [Next]_vars => StagesAgree'
<1> SUFFICES ASSUME TypeOK, StagesAgree, [Next]_vars PROVE StagesAgree'
  OBVIOUS
<1> DEFINE Kept(p) == StagesOf(p)' /\ \A q \in Pipes \ {p} : SameAt(q)
<1>a. PipeTypes
  BY DEF TypeOK, PipeTypes
<1>b. ASSUME NEW q \in Pipes, SameAt(q) PROVE StagesOf(q)'
  BY <1>b DEF SameAt, StagesAgree, StagesOf, Added
<1>c. ASSUME NEW p \in Pipes, Kept(p) PROVE StagesAgree'
  BY <1>b, <1>c DEF StagesAgree
<1>1. ASSUME NEW p \in Pipes, addPipeStep(p) PROVE StagesAgree'
  <2> StagesOf(p)
    BY DEF StagesAgree
  <2>1. addPipeList(p) => Kept(p)
    BY <1>a DEF addPipeList, PipeTypes, StagesOf, SameAt, Added
  <2>2. addPipeAttaching(p) => Kept(p)
    BY <1>a DEF addPipeAttaching, PipeTypes, StagesOf, SameAt, Added
  <2>3. addPipeRejected(p) => Kept(p)
    BY <1>a DEF addPipeRejected, PipeTypes, StagesOf, SameAt, Added
  <2>4. addPipeRefused(p) => Kept(p)
    BY <1>a DEF addPipeRefused, PipeTypes, StagesOf, SameAt, Added
  <2>5. addPipeAccepted(p) => Kept(p)
    <3>1. addPipeAccepted(p) => StagesOf(p)'
      BY <1>a DEF addPipeAccepted, PipeTypes, StagesOf, Added, CloseStages
    <3>2. addPipeAccepted(p) => \A q \in Pipes \ {p} : SameAt(q)
      BY <1>a DEF addPipeAccepted, PipeTypes, SameAt
    <3> QED
      BY <3>1, <3>2
  <2>6. addPipeUnlist(p) => Kept(p)
    BY <1>a DEF addPipeUnlist, PipeTypes, StagesOf, SameAt, Added
  <2>7. addPipeAttached(p) => Kept(p)
    BY <1>a DEF addPipeAttached, PipeTypes, StagesOf, SameAt, Added
  <2> QED
    BY <1>1, <1>c, <2>1, <2>2, <2>3, <2>4, <2>5, <2>6, <2>7 DEF addPipeStep
<1>2. ASSUME NEW p \in Pipes, closeStep(p) PROVE StagesAgree'
  <2> StagesOf(p)
    BY DEF StagesAgree
  <2>1. closeTransport(p) => Kept(p)
    BY <1>a DEF closeTransport, PipeTypes, StagesOf, SameAt, Added
  <2>2. closeLocked(p) => Kept(p)
    <3>1. CASE Added(p)
      BY <1>a, <3>1 DEF closeLocked, PipeTypes, StagesOf, SameAt, Added
    <3>2. CASE ~Added(p)
      BY <1>a, <3>2 DEF closeLocked, PipeTypes, StagesOf, SameAt, Added
    <3> QED
      BY <3>1, <3>2
  <2>3. remPipeUnlist(p) => Kept(p)
    BY <1>a DEF remPipeUnlist, PipeTypes, StagesOf, SameAt, Added
  <2>4. closeNotify(p) => Kept(p)
    BY <1>a DEF closeNotify, PipeTypes, StagesOf, SameAt, Added
  <2> QED
    BY <1>2, <1>c, <2>1, <2>2, <2>3, <2>4 DEF closeStep
<1>3. ASSUME NEW p \in Pipes, detachStep(p) PROVE StagesAgree'
  <2> StagesOf(p)
    BY DEF StagesAgree
  <2>1. remPipeCallback(p) => Kept(p)
    BY <1>a DEF remPipeCallback, PipeTypes, StagesOf, SameAt, Added
  <2>2. remPipeFree(p) => Kept(p)
    BY <1>a DEF remPipeFree, PipeTypes, StagesOf, SameAt, Added
  <2> QED
    BY <1>3, <1>c, <2>1, <2>2 DEF detachStep
<1>4. ASSUME NEW p \in Pipes, CallClose(p) PROVE StagesAgree'
  <2>1. StagesOf(p)
    BY DEF StagesAgree
  <2>2. Kept(p)
    BY <1>a, <1>4, <2>1 DEF CallClose, PipeTypes, StagesOf, SameAt, Added
  <2> QED
    BY <1>c, <2>2
<1>5. ASSUME NEW p \in Pipes, NEW e \in Endpoints, NewPipeStep(p, e) PROVE StagesAgree'
  <2>1. StagesOf(p) /\ e # NoEndpoint
    BY DEF StagesAgree, Endpoints
  <2>2. Kept(p)
    BY <1>a, <1>5, <2>1 DEF NewPipeStep, newPipe, PipeTypes, StagesOf, SameAt, Added
  <2> QED
    BY <1>c, <2>2
<1>6. ASSUME NEW c \in Closers, CloseAll(c) PROVE StagesAgree'
  <2>1. SUFFICES ASSUME NEW p \in Pipes PROVE StagesOf(p)'
    BY DEF StagesAgree
  <2>2. StagesOf(p)
    BY DEF StagesAgree
  <2> QED
    BY <1>a, <1>6, <2>2 DEF CloseAll, PipeTypes, StagesOf, Added
<1>7. CASE UNCHANGED <<attached, pipes, pipeVars, idVars>>
  BY <1>7, <1>b DEF StagesAgree, SameAt
<1> QED
  BY <1>1, <1>2, <1>3, <1>4, <1>5, <1>6, <1>7, NextCases, CloseCases DEF PipeStep, pipeState

\* Every step keeps the IDs of the pipes apart.
LEMMA IDsStep ==
    TypeOK /\ StagesAgree /\ PipeIDsExclusive /\ [Next]_vars => PipeIDsExclusive'
<1> SUFFICES ASSUME TypeOK, StagesAgree, PipeIDsExclusive, [Next]_vars PROVE PipeIDsExclusive'
  OBVIOUS
<1>0. PipeTypes
  BY DEF TypeOK, PipeTypes
\* Steps that leave the IDs alone, and create or free none.
<1>1. ASSUME UNCHANGED <<id, used>>, \A q \in Pipes : HoldsID(q)' => HoldsID(q)
      PROVE  PipeIDsExclusive'
  BY <1>1 DEF PipeIDsExclusive
<1>2. ASSUME NEW p \in Pipes, addPipeStep(p) \/ closeStep(p) \/ CallClose(p)
      PROVE  PipeIDsExclusive'
  <2>1. UNCHANGED <<id, used>>
    BY <1>2 DEF addPipeStep, addPipeList, addPipeAttaching, addPipeRejected, addPipeRefused,
                addPipeAccepted, addPipeUnlist, addPipeAttached, closeStep, closeTransport,
                closeLocked, remPipeUnlist, closeNotify, CallClose
  <2>2. CASE addPipeStep(p)
    <3>1. pst[p] # "none" /\ UNCHANGED det
      BY <2>2 DEF addPipeStep, addPipeList, addPipeAttaching, addPipeRejected, addPipeRefused,
                  addPipeAccepted, addPipeUnlist, addPipeAttached
    <3>2. \A q \in Pipes \ {p} : pst'[q] = pst[q]
      BY <2>2, <1>0 DEF PipeTypes, addPipeStep, addPipeList, addPipeAttaching, addPipeRejected,
                        addPipeRefused, addPipeAccepted, addPipeUnlist, addPipeAttached
    <3> QED
      BY <1>1, <2>1, <3>1, <3>2 DEF HoldsID
  <2>3. CASE closeStep(p) \/ CallClose(p)
    <3>1. UNCHANGED pst
      BY <2>3 DEF closeStep, closeTransport, closeLocked, remPipeUnlist, closeNotify, CallClose
    <3>2. UNCHANGED det \/ remPipeUnlist(p)
      BY <2>3 DEF closeStep, closeTransport, closeLocked, closeNotify, CallClose
    <3>3. CASE remPipeUnlist(p)
      <4>1. pst[p] # "none" /\ det[p] = "none"
        BY <3>3 DEF remPipeUnlist, StagesAgree, StagesOf, Added
      <4>2. \A q \in Pipes \ {p} : det'[q] = det[q]
        BY <3>3, <1>0 DEF remPipeUnlist, PipeTypes
      <4> QED
        BY <1>1, <2>1, <3>1, <4>1, <4>2 DEF HoldsID
    <3> QED
      BY <1>1, <2>1, <3>1, <3>2, <3>3 DEF HoldsID
  <2> QED
    BY <1>2, <2>2, <2>3
<1>3. ASSUME NEW p \in Pipes, detachStep(p) PROVE PipeIDsExclusive'
  <2>1. CASE remPipeCallback(p)
    <3>1. UNCHANGED <<id, used, pst>> /\ det[p] = "callback" /\ \A q \in Pipes \ {p} : det'[q] = det[q]
      BY <2>1, <1>0 DEF remPipeCallback, PipeTypes
    <3> QED
      BY <1>1, <3>1 DEF HoldsID
  <2>2. CASE remPipeFree(p)
    <3>1. /\ UNCHANGED <<id, pst>> /\ used' = used \ {id[p]}
          /\ det[p] = "free" /\ det'[p] = "freed" /\ \A q \in Pipes \ {p} : det'[q] = det[q]
      BY <2>2, <1>0 DEF remPipeFree, PipeTypes
    <3>2. pst[p] # "none"
      BY <3>1 DEF StagesAgree, StagesOf, Added
    <3> QED
      BY <3>1, <3>2 DEF HoldsID, PipeIDsExclusive
  <2> QED
    BY <1>3, <2>1, <2>2 DEF detachStep
<1>4. ASSUME NEW p \in Pipes, NEW e \in Endpoints, NewPipeStep(p, e) PROVE PipeIDsExclusive'
  <2>1. /\ id'[p] \notin used
        /\ used' = used \cup {id'[p]}
        /\ \A q \in Pipes \ {p} : id'[q] = id[q]
    BY <1>4, GetIDFresh DEF NewPipeStep, newPipe
  <2>2. \A q \in Pipes \ {p} : HoldsID(q)' <=> HoldsID(q)
    BY <1>4, <1>0 DEF NewPipeStep, newPipe, HoldsID, PipeTypes
  <2> QED
    BY <2>1, <2>2 DEF PipeIDsExclusive
<1>5. ASSUME NEW c \in Closers, CloseAll(c) PROVE PipeIDsExclusive'
  BY <1>5, <1>1 DEF CloseAll, HoldsID
<1>6. CASE UNCHANGED <<attached, pipes, pipeVars, idVars>>
  BY <1>6, <1>1 DEF HoldsID
<1> QED
  BY <1>2, <1>3, <1>4, <1>5, <1>6, NextCases, CloseCases DEF PipeStep, pipeState

\* Only addPipeAccepted attaches a pipe, and no step of a pipe undoes a Close.
LEMMA PipeStepEffects ==
    ASSUME TypeOK, NEW p \in Pipes, PipeStep(p)
    PROVE  /\ UNCHANGED <<cpc, pclosed>>
           /\ addPipeAccepted(p) \/ attached' \subseteq attached
           /\ \A q \in Pipes : cst'[q] = "idle" => cst[q] = "idle"
<1>a. PipeTypes
  BY DEF TypeOK, PipeTypes
<1>1. CASE addPipeStep(p) /\ ~addPipeAccepted(p)
  <2>1. UNCHANGED <<cpc, pclosed, attached>>
    BY <1>1 DEF addPipeStep, addPipeList, addPipeAttaching, addPipeRejected,
                addPipeRefused, addPipeUnlist, addPipeAttached
  <2>2. UNCHANGED cst \/ addPipeUnlist(p)
    BY <1>1 DEF addPipeStep, addPipeList, addPipeAttaching, addPipeRejected,
                addPipeRefused, addPipeAttached
  <2>3. ASSUME addPipeUnlist(p), NEW q \in Pipes PROVE cst'[q] = "idle" => cst[q] = "idle"
    BY <1>a, <2>3 DEF addPipeUnlist, PipeTypes
  <2> QED
    BY <2>1, <2>2, <2>3
<1>2. CASE addPipeAccepted(p)
  BY <1>2 DEF addPipeAccepted
<1>3. CASE closeStep(p) \/ CallClose(p)
  <2>1. UNCHANGED <<cpc, pclosed>> /\ attached' \subseteq attached
    BY <1>3 DEF closeStep, closeTransport, closeLocked, remPipeUnlist, closeNotify, CallClose
  <2>2. PICK t \in CloseStages \ {"idle"} : cst' = [cst EXCEPT ![p] = t]
    BY <1>3 DEF closeStep, closeTransport, closeLocked, remPipeUnlist, closeNotify, CallClose,
                CloseStages
  <2> QED
    BY <1>a, <2>1, <2>2 DEF PipeTypes
<1>4. CASE detachStep(p)
  BY <1>4 DEF detachStep, remPipeCallback, remPipeFree
<1> QED
  BY <1>1, <1>2, <1>3, <1>4 DEF PipeStep

\* Every step keeps the order in which Close proceeds.
LEMMA CloseOrderStep == TypeOK /\ StagesAgree /\ CloseOrder /\ [Next]_vars => CloseOrder'
<1> SUFFICES ASSUME TypeOK, StagesAgree, CloseOrder, [Next]_vars PROVE CloseOrder'
  OBVIOUS
<1>a. attached \subseteq Pipes /\ cpc \in [Closers -> {"idle", "endpoints", "pipes", "done"}]
  BY DEF TypeOK
<1>1. ASSUME NEW p \in Pipes, PipeStep(p) PROVE CloseOrder'
  <2>1. CASE addPipeAccepted(p)
    <3>1. UNCHANGED <<cpc, pclosed>> /\ ~pclosed
      BY <2>1 DEF addPipeAccepted
    <3> QED
      BY <3>1 DEF CloseOrder, ClosedSocketClosesPipes
  <2>2. CASE ~addPipeAccepted(p)
    BY <1>a, <1>1, <2>2, PipeStepEffects DEF CloseOrder, ClosedSocketClosesPipes
  <2> QED
    BY <2>1, <2>2
<1>2. ASSUME NEW p \in Pipes, NEW e \in Endpoints, NewPipeStep(p, e) PROVE CloseOrder'
  BY <1>2 DEF NewPipeStep, CloseOrder, ClosedSocketClosesPipes
<1>3. ASSUME NEW c \in Closers, CloseAll(c) PROVE CloseOrder'
  <2>1. UNCHANGED <<pclosed, attached>> /\ cpc[c] = "pipes" /\ cpc' = [cpc EXCEPT ![c] = "done"]
    BY <1>3 DEF CloseAll
  <2>2. \A q \in attached : cst'[q] # "idle"
    <3>1. attached \subseteq pipes
      BY <1>a DEF StagesAgree, StagesOf, Added
    <3> QED
      BY <1>a, <1>3, <3>1 DEF CloseAll
  <2>3. \A d \in Closers : cpc'[d] \in {"pipes", "done"} => pclosed
    BY <1>a, <2>1 DEF CloseOrder
  <2> QED
    BY <2>1, <2>2, <2>3 DEF CloseOrder, ClosedSocketClosesPipes
<1>4. ASSUME NEW c \in Closers, CloseStart(c) \/ CloseNextEndpoint(c) PROVE CloseOrder'
  <2>1. UNCHANGED <<pclosed, attached, cst>>
    BY <1>4 DEF CloseStart, CloseNextEndpoint
  <2>2. \A d \in Closers : cpc'[d] \in {"pipes", "done"} => cpc[d] = cpc'[d]
    BY <1>a, <1>4 DEF CloseStart, CloseNextEndpoint
  <2> QED
    BY <2>1, <2>2 DEF CloseOrder, ClosedSocketClosesPipes
<1>5. ASSUME NEW c \in Closers, CloseProto(c) PROVE CloseOrder'
  <2>1. UNCHANGED <<attached, cst>> /\ pclosed'
    BY <1>5 DEF CloseProto
  <2>2. \A d \in Closers : cpc'[d] = "done" => cpc[d] = "done"
    BY <1>a, <1>5 DEF CloseProto
  <2> QED
    BY <2>1, <2>2 DEF CloseOrder, ClosedSocketClosesPipes
<1>6. CASE UNCHANGED <<cpc, pclosed, attached, cst>>
  BY <1>6 DEF CloseOrder, ClosedSocketClosesPipes
<1> QED
  BY <1>1, <1>2, <1>3, <1>4, <1>5, <1>6, NextCases DEF CloseStep, pipeState

-----------------------------------------------------------------------------
(***************************************************************************)
(* The inductive invariant of the pipes, and what follows from it.         *)
(***************************************************************************)
PipeInv == TypeOK /\ StagesAgree /\ PipeIDsExclusive /\ CloseOrder

LEMMA PipeInvInductive == Spec => []PipeInv
<1>1. Init => StagesAgree /\ PipeIDsExclusive /\ CloseOrder
  <2> SUFFICES ASSUME Init PROVE StagesAgree /\ PipeIDsExclusive /\ CloseOrder
    OBVIOUS
  <2>1. StagesAgree
    BY DEF Init, StagesAgree, StagesOf, Added
  <2>2. PipeIDsExclusive
    BY DEF Init, PipeIDsExclusive, HoldsID
  <2>3. CloseOrder
    BY DEF Init, CloseOrder, ClosedSocketClosesPipes
  <2> QED
    BY <2>1, <2>2, <2>3
<1>2. StagesAgree /\ PipeIDsExclusive /\ CloseOrder /\ TypeOK /\ [Next]_vars
        => (StagesAgree /\ PipeIDsExclusive /\ CloseOrder)'
  BY StagesStep, IDsStep, CloseOrderStep
<1> QED
  BY <1>1, <1>2, TypeCorrect, PTL DEF Spec, PipeInv

\* Pipe IDs are exclusive, however many pipes come and go and however the
\* counter wraps: Free never panics and no table keyed by ID is corrupted.
THEOREM IDsExclusive == Spec => []PipeIDsExclusive
<1>1. PipeInv => PipeIDsExclusive
  BY DEF PipeInv
<1> QED
  BY <1>1, PipeInvInductive, PTL

\* What the protocol has attached is in the socket's list and has a valid ID.
THEOREM AttachedAreListed == Spec => []AttachedPipesListed
<1>1. PipeInv => AttachedPipesListed
  BY DEF PipeInv, TypeOK, StagesAgree, StagesOf, PipeIDsExclusive, AttachedPipesListed, Added, HoldsID
<1> QED
  BY <1>1, PipeInvInductive, PTL

\* No pipe survives a completed Socket.Close without being closed, whatever
\* the interleaving of Close with the goroutines that add pipes.
THEOREM CloseReachesEveryPipe == Spec => []ClosedSocketClosesPipes
<1>1. PipeInv => ClosedSocketClosesPipes
  BY DEF PipeInv, CloseOrder
<1> QED
  BY <1>1, PipeInvInductive, PTL

\* RemovePipe is called once, after the transport pipe is closed, and never
\* for a pipe that is attached again later.
THEOREM RemovedAfterTransportClose == Spec => RemoveAfterTransportClose
<1> DEFINE Orderly ==
      \A p \in Pipes :
          /\ p \in attached /\ p \notin attached' => cst[p] = "tclosed"
          /\ p \notin attached /\ p \in attached' => ~closing[p] /\ det[p] = "none"
<1>1. PipeInv /\ [Next]_vars => [Orderly]_vars
  <2> SUFFICES ASSUME PipeInv, [Next]_vars PROVE Orderly
    OBVIOUS
  <2>0. TypeOK /\ StagesAgree
    BY DEF PipeInv
  <2>1. ASSUME NEW p \in Pipes, addPipeAccepted(p) PROVE Orderly
    <3>1. attached' = attached \cup {p} /\ pst[p] = "hooked" /\ ~closing[p]
      BY <2>1 DEF addPipeAccepted
    <3>2. det[p] = "none"
      BY <2>0, <3>1 DEF StagesAgree, StagesOf, Added
    <3> QED
      BY <3>1, <3>2
  <2>2. ASSUME NEW p \in Pipes, closeLocked(p) PROVE Orderly
    BY <2>2 DEF closeLocked
  <2>3. CASE UNCHANGED attached
    BY <2>3
  <2>4. ASSUME NEW p \in Pipes, PipeStep(p), ~addPipeAccepted(p), ~closeLocked(p)
        PROVE  UNCHANGED attached
    BY <2>4 DEF PipeStep, addPipeStep, addPipeList, addPipeAttaching, addPipeRejected,
         addPipeRefused, addPipeUnlist, addPipeAttached,
         closeStep, closeTransport, remPipeUnlist, closeNotify,
         detachStep, remPipeCallback, remPipeFree, CallClose
  <2>5. ASSUME NEW c \in Closers, CloseAll(c) PROVE UNCHANGED attached
    BY <2>5 DEF CloseAll
  <2>6. ASSUME NEW p \in Pipes, NEW e \in Endpoints, NewPipeStep(p, e) PROVE UNCHANGED attached
    BY <2>6 DEF NewPipeStep
  <2> QED
    BY <2>1, <2>2, <2>3, <2>4, <2>5, <2>6, NextCases, CloseCases DEF pipeState
<1> QED
  BY <1>1, PipeInvInductive, PTL DEF Spec, RemoveAfterTransportClose
=============================================================================
