-------------------------------- MODULE Core --------------------------------
(***************************************************************************)
(* The core of a mangos socket (internal/core): how transport connections  *)
(* become pipes, how pipes are attached to and removed from the protocol,  *)
(* how pipe IDs are handed out and recycled, how Close tears a socket      *)
(* down, and how dialers redial.                                           *)
(*                                                                         *)
(* Every mutex-protected section of the code is one action; goroutines     *)
(* started with "go" and timers are tasks that run at any later moment.    *)
(* The transport and the protocol are the environment: a dial or an accept *)
(* succeeds or fails, a protocol may refuse a pipe, a connection may break.*)
(*                                                                         *)
(* An operator named X_Y is X with a mistake that Y names; it is not part  *)
(* of the specification, and shows that the properties would notice it.    *)
(***************************************************************************)
EXTENDS Integers, FiniteSets

CONSTANTS
    Pipes,          \* the pipe objects that may be created (a bound on connections)
    Dialers,        \* dialers the application may create on the socket
    Listeners,      \* listeners the application may create on the socket
    AsynchDialers,  \* the dialers with OptionDialAsynch set
    Closers,        \* goroutines that call Socket.Close
    Hooks,          \* what the application sets as pipe event hook: a function (TRUE) or nil
    IdSpace,        \* 2^31 in the code: IDs are 1 .. IdSpace-1, the counter is one bit wider
    ReconnMin,      \* OptionReconnectTime
    ReconnMax,      \* OptionMaxReconnectTime (0: no backoff)
    BackoffOnClose, \* OptionReconnectBackoffOnClose
    NoEndpoint      \* the owner of a pipe object that is not in use

ASSUME EndpointAssumption ==
    /\ Dialers \cap Listeners = {}
    /\ AsynchDialers \subseteq Dialers
    /\ NoEndpoint \notin Dialers \cup Listeners
    /\ IsFiniteSet(Pipes)
ASSUME NumberAssumption ==
    /\ IdSpace \in Nat \ {0}
    /\ ReconnMin \in Nat
    /\ ReconnMax \in Nat
    /\ BackoffOnClose \in BOOLEAN
    /\ Hooks \subseteq BOOLEAN

VARIABLES
    sclosed,    \* socket.closed
    hook,       \* socket.pipehook is set
    cpc,        \* stage of each Socket.Close call
    ctodo,      \* endpoints that a Socket.Close call still has to close
    pclosed,    \* the protocol's own closed flag
    attached,   \* pipes the protocol knows: AddPipe accepted, RemovePipe not yet called
    pipes,      \* socket.pipes, the pipeList
    made,       \* endpoints created by NewDialer and NewListener
    active,     \* dialer.active, listener.active
    eclosed,    \* dialer.closed, listener.closed
    lpc,        \* stage of each listener's serve goroutine
    tasks,      \* goroutines and timers of each dialer, by kind
    reconnTime, \* dialer.reconnTime
    stopped,    \* history: the dialer gave up, as dial(false) or ErrClosed makes it do
    pst,        \* stage of addPipe for each pipe
    owner,      \* pipe.d or pipe.l
    ph,         \* the hook that addPipe read, per pipe
    closing,    \* pipe.closing
    cst,        \* stage of pipe.Close (closeOnce), per pipe
    det,        \* stage of the goroutine started by remPipe, per pipe
    dethook,    \* the hook that remPipe read, per pipe
    id,         \* pipe.id
    used,       \* pipeIDs.used
    nextID      \* pipeIDs.next

socketVars == <<sclosed, hook, cpc, ctodo, pclosed>>
endpointVars == <<made, active, eclosed, lpc>>
dialerVars == <<tasks, reconnTime, stopped>>
pipeVars == <<pst, owner, ph, closing, cst, det, dethook>>
idVars == <<id, used, nextID>>
vars == <<socketVars, attached, pipes, endpointVars, dialerVars, pipeVars, idVars>>

Endpoints == Dialers \cup Listeners

\* A dial goroutine carries dial's argument: only the first attempt of a
\* synchronous Dial runs with redial = FALSE (the "Once" kinds).
DialKinds == {"dial", "dialOnce"}
ConnKinds == {"connect", "connectOnce"}
TokenKinds == DialKinds \cup ConnKinds \cup {"timer", "pipeClosed"}
TaskKinds == TokenKinds \cup {"pipeConnected"}

AddStages == {"none", "new", "listed", "hooked", "rejected", "refused", "added", "done", "gone"}
CloseStages == {"idle", "requested", "tclosed", "removing", "notify", "closed"}

Init ==
    /\ sclosed = FALSE
    /\ hook \in Hooks
    /\ cpc = [c \in Closers |-> "idle"]
    /\ ctodo = [c \in Closers |-> {}]
    /\ pclosed = FALSE
    /\ attached = {}
    /\ pipes = {}
    /\ made = {}
    /\ active = [e \in Endpoints |-> FALSE]
    /\ eclosed = [e \in Endpoints |-> FALSE]
    /\ lpc = [l \in Listeners |-> "off"]
    /\ tasks = [d \in Dialers |-> [k \in TaskKinds |-> 0]]
    /\ reconnTime = [d \in Dialers |-> 0]
    /\ stopped = [d \in Dialers |-> FALSE]
    /\ pst = [p \in Pipes |-> "none"]
    /\ owner = [p \in Pipes |-> NoEndpoint]
    /\ ph = [p \in Pipes |-> FALSE]
    /\ closing = [p \in Pipes |-> FALSE]
    /\ cst = [p \in Pipes |-> "idle"]
    /\ det = [p \in Pipes |-> "none"]
    /\ dethook = [p \in Pipes |-> FALSE]
    /\ id = [p \in Pipes |-> 0]
    /\ used = {}
    /\ nextID \in 0 .. 2 * IdSpace - 1

(***************************************************************************)
(* Pipe IDs.                                                               *)
(***************************************************************************)
\* Get skips zero and every ID in use, starting at the counter, which is one
\* bit wider than an ID and wraps.  (With every ID in use the code spins for
\* ever under the allocator's lock; the action is then simply not enabled.)
Candidate(k) == (nextID + k) % IdSpace
Usable_Recycled(i) == i # 0
Usable(i) == i # 0 /\ i \notin used
GetID(p) ==
    \E k \in 0 .. IdSpace - 1 :
        /\ Usable(Candidate(k))
        /\ \A j \in 0 .. k - 1 : ~Usable(Candidate(j))
        /\ id' = [id EXCEPT ![p] = Candidate(k)]
        /\ used' = used \cup {Candidate(k)}
        /\ nextID' = (nextID + k + 1) % (2 * IdSpace)

(***************************************************************************)
(* addPipe, one action per locked section.                                 *)
(***************************************************************************)
\* newPipe and the read of the hook, on behalf of endpoint e.
newPipe(p, e) ==
    /\ pst[p] = "none"
    /\ GetID(p)
    /\ pst' = [pst EXCEPT ![p] = "new"]
    /\ owner' = [owner EXCEPT ![p] = e]
    /\ ph' = [ph EXCEPT ![p] = hook]

\* The goroutine that ran addPipe for p is free again: an accepting listener
\* goes round its loop, a dial goroutine ends.
AddPipeReturns(p) ==
    lpc' = [l \in Listeners |-> IF l = owner[p] THEN "check" ELSE lpc[l]]

\* "go p.d.pipeConnected()" and "go p.d.pipeClosed()", when the pipe has a dialer.
Notify(p, k) ==
    tasks' = [d \in Dialers |->
                 IF d = owner[p] THEN [tasks[d] EXCEPT ![k] = @ + 1] ELSE tasks[d]]

addPipeList(p) ==
    /\ pst[p] = "new"
    /\ pipes' = pipes \cup {p}
    /\ pst' = [pst EXCEPT ![p] = "listed"]
    /\ UNCHANGED <<socketVars, attached, endpointVars, dialerVars,
                   owner, ph, closing, cst, det, dethook, idVars>>

\* The Attaching callback, if there is a hook, has returned.
addPipeAttaching(p) ==
    /\ pst[p] = "listed"
    /\ pst' = [pst EXCEPT ![p] = "hooked"]
    /\ UNCHANGED <<socketVars, attached, pipes, endpointVars, dialerVars,
                   owner, ph, closing, cst, det, dethook, idVars>>

\* The section under pipe.lock: a pipe that is being closed is dropped;
\* otherwise the protocol accepts it, or refuses it (always when closed).
addPipeRejected(p) ==
    /\ pst[p] = "hooked"
    /\ closing[p]
    /\ pst' = [pst EXCEPT ![p] = "rejected"]
    /\ UNCHANGED <<socketVars, attached, pipes, endpointVars, dialerVars,
                   owner, ph, closing, cst, det, dethook, idVars>>

addPipeRefused(p) ==
    /\ pst[p] = "hooked"
    /\ ~closing[p]
    /\ pst' = [pst EXCEPT ![p] = "refused"]
    /\ UNCHANGED <<socketVars, attached, pipes, endpointVars, dialerVars,
                   owner, ph, closing, cst, det, dethook, idVars>>

addPipeAccepted_WhileClosing(p) ==
    /\ pst[p] = "hooked"
    /\ ~pclosed
    /\ pst' = [pst EXCEPT ![p] = "added"]
    /\ attached' = attached \cup {p}
    /\ Notify(p, "pipeConnected")
    /\ UNCHANGED <<socketVars, pipes, endpointVars, reconnTime, stopped,
                   owner, ph, closing, cst, det, dethook, idVars>>

addPipeAccepted(p) ==
    /\ pst[p] = "hooked"
    /\ ~closing[p]
    /\ ~pclosed
    /\ pst' = [pst EXCEPT ![p] = "added"]
    /\ attached' = attached \cup {p}
    /\ Notify(p, "pipeConnected")
    /\ UNCHANGED <<socketVars, pipes, endpointVars, reconnTime, stopped,
                   owner, ph, closing, cst, det, dethook, idVars>>

\* The tail of addPipe: the dropped pipe leaves the list, and a refused one
\* is closed in the background; an accepted one gets its Attached callback.
addPipeUnlist_NotClosed(p) ==
    /\ pst[p] \in {"rejected", "refused"}
    /\ pipes' = pipes \ {p}
    /\ pst' = [pst EXCEPT ![p] = "gone"]
    /\ AddPipeReturns(p)
    /\ UNCHANGED <<socketVars, attached, made, active, eclosed, dialerVars,
                   owner, ph, closing, cst, det, dethook, idVars>>

addPipeUnlist(p) ==
    /\ pst[p] \in {"rejected", "refused"}
    /\ pipes' = pipes \ {p}
    /\ cst' = [cst EXCEPT ![p] = IF pst[p] = "refused" /\ @ = "idle" THEN "requested" ELSE @]
    /\ pst' = [pst EXCEPT ![p] = "gone"]
    /\ AddPipeReturns(p)
    /\ UNCHANGED <<socketVars, attached, made, active, eclosed, dialerVars,
                   owner, ph, closing, det, dethook, idVars>>

addPipeAttached(p) ==
    /\ pst[p] = "added"
    /\ pst' = [pst EXCEPT ![p] = "done"]
    /\ AddPipeReturns(p)
    /\ UNCHANGED <<socketVars, attached, pipes, made, active, eclosed, dialerVars,
                   owner, ph, closing, cst, det, dethook, idVars>>

(***************************************************************************)
(* pipe.Close and remPipe.                                                 *)
(***************************************************************************)
\* pipe.added
Added(p) == pst[p] \in {"added", "done"}

\* A call of Close by an application that got the pipe from a callback, or by
\* the protocol when SendMsg or RecvMsg failed on the connection.
CallClose(p) ==
    /\ cst[p] = "idle"
    /\ \/ ph[p] /\ pst[p] \notin {"none", "new"}
       \/ Added(p)
    /\ cst' = [cst EXCEPT ![p] = "requested"]
    /\ UNCHANGED <<socketVars, attached, pipes, endpointVars, dialerVars,
                   pst, owner, ph, closing, det, dethook, idVars>>

closeTransport(p) ==
    /\ cst[p] = "requested"
    /\ cst' = [cst EXCEPT ![p] = "tclosed"]
    /\ UNCHANGED <<socketVars, attached, pipes, endpointVars, dialerVars,
                   pst, owner, ph, closing, det, dethook, idVars>>

\* closing is set under pipe.lock; remPipe follows only when the pipe was added.
closeLocked(p) ==
    /\ cst[p] = "tclosed"
    /\ closing' = [closing EXCEPT ![p] = TRUE]
    /\ IF Added(p)
       THEN attached' = attached \ {p} /\ cst' = [cst EXCEPT ![p] = "removing"]
       ELSE attached' = attached /\ cst' = [cst EXCEPT ![p] = "notify"]
    /\ UNCHANGED <<socketVars, pipes, endpointVars, dialerVars,
                   pst, owner, ph, det, dethook, idVars>>

remPipeUnlist_OnlyWithHook(p) ==
    /\ cst[p] = "removing"
    /\ pipes' = pipes \ {p}
    /\ dethook' = [dethook EXCEPT ![p] = hook]
    /\ det' = [det EXCEPT ![p] = IF hook THEN "callback" ELSE @]
    /\ cst' = [cst EXCEPT ![p] = "notify"]
    /\ UNCHANGED <<socketVars, attached, endpointVars, dialerVars,
                   pst, owner, ph, closing, idVars>>

remPipeUnlist(p) ==
    /\ cst[p] = "removing"
    /\ pipes' = pipes \ {p}
    /\ dethook' = [dethook EXCEPT ![p] = hook]
    /\ det' = [det EXCEPT ![p] = "callback"]
    /\ cst' = [cst EXCEPT ![p] = "notify"]
    /\ UNCHANGED <<socketVars, attached, endpointVars, dialerVars,
                   pst, owner, ph, closing, idVars>>

\* The dialer, if the pipe has one, is told so that it will redial.
closeNotify_AddedOnly(p) ==
    /\ cst[p] = "notify"
    /\ cst' = [cst EXCEPT ![p] = "closed"]
    /\ IF Added(p) THEN Notify(p, "pipeClosed") ELSE UNCHANGED tasks
    /\ UNCHANGED <<socketVars, attached, pipes, endpointVars, reconnTime, stopped,
                   pst, owner, ph, closing, det, dethook, idVars>>

closeNotify(p) ==
    /\ cst[p] = "notify"
    /\ cst' = [cst EXCEPT ![p] = "closed"]
    /\ Notify(p, "pipeClosed")
    /\ UNCHANGED <<socketVars, attached, pipes, endpointVars, reconnTime, stopped,
                   pst, owner, ph, closing, det, dethook, idVars>>

\* The goroutine of remPipe: the Detached callback, then the ID is freed.
remPipeCallback(p) ==
    /\ det[p] = "callback"
    /\ det' = [det EXCEPT ![p] = "free"]
    /\ UNCHANGED <<socketVars, attached, pipes, endpointVars, dialerVars,
                   pst, owner, ph, closing, cst, dethook, idVars>>

remPipeFree(p) ==
    /\ det[p] = "free"
    /\ det' = [det EXCEPT ![p] = "freed"]
    /\ used' = used \ {id[p]}
    /\ UNCHANGED <<socketVars, attached, pipes, endpointVars, dialerVars,
                   pst, owner, ph, closing, cst, dethook, id, nextID>>

(***************************************************************************)
(* Endpoints: creation, listeners, dialers.                                *)
(***************************************************************************)
\* NewDialer and NewListener look at socket.closed under the socket's lock.
NewEndpoint(e) ==
    /\ ~sclosed
    /\ e \notin made
    /\ made' = made \cup {e}
    /\ UNCHANGED <<socketVars, attached, pipes, active, eclosed, lpc,
                   dialerVars, pipeVars, idVars>>

\* Listener.Listen: it fails and clears active again, or serve starts.
Listen(l) ==
    /\ l \in made
    /\ ~eclosed[l]
    /\ ~active[l]
    /\ active' = [active EXCEPT ![l] = TRUE]
    /\ lpc' = [lpc EXCEPT ![l] = "listen"]
    /\ UNCHANGED <<socketVars, attached, pipes, made, eclosed, dialerVars, pipeVars, idVars>>

ListenFails(l) ==
    /\ lpc[l] = "listen"
    /\ active' = [active EXCEPT ![l] = FALSE]
    /\ lpc' = [lpc EXCEPT ![l] = "off"]
    /\ UNCHANGED <<socketVars, attached, pipes, made, eclosed, dialerVars, pipeVars, idVars>>

ListenSucceeds(l) ==
    /\ lpc[l] = "listen"
    /\ lpc' = [lpc EXCEPT ![l] = "check"]
    /\ UNCHANGED <<socketVars, attached, pipes, made, active, eclosed, dialerVars, pipeVars, idVars>>

\* The head of serve's loop.
serveCheck(l) ==
    /\ lpc[l] = "check"
    /\ lpc' = [lpc EXCEPT ![l] = IF eclosed[l] THEN "off" ELSE "accept"]
    /\ UNCHANGED <<socketVars, attached, pipes, made, active, eclosed, dialerVars, pipeVars, idVars>>

\* Accept yields a connection (it may have done so just before Close) ...
serveAccepted(l, p) ==
    /\ lpc[l] = "accept"
    /\ newPipe(p, l)
    /\ lpc' = [lpc EXCEPT ![l] = "add"]
    /\ UNCHANGED <<socketVars, attached, pipes, made, active, eclosed, dialerVars,
                   closing, cst, det, dethook>>

\* ... or ErrClosed once the transport listener is closed ...
serveClosed(l) ==
    /\ lpc[l] = "accept"
    /\ eclosed[l]
    /\ lpc' = [lpc EXCEPT ![l] = "off"]
    /\ UNCHANGED <<socketVars, attached, pipes, made, active, eclosed, dialerVars, pipeVars, idVars>>

\* ... or some other error, after which serve tries again.
serveError(l) ==
    /\ lpc[l] = "accept"
    /\ lpc' = [lpc EXCEPT ![l] = "check"]
    /\ UNCHANGED <<socketVars, attached, pipes, made, active, eclosed, dialerVars, pipeVars, idVars>>

\* One goroutine (or timer) of dialer d changes from kind k to kind m.
Becomes(d, k, m) ==
    /\ tasks[d][k] > 0
    /\ tasks' = [tasks EXCEPT ![d][k] = @ - 1, ![d][m] = @ + 1]
Ends(d, k) ==
    /\ tasks[d][k] > 0
    /\ tasks' = [tasks EXCEPT ![d][k] = @ - 1]

Dial(d) ==
    /\ d \in made
    /\ ~active[d]
    /\ ~eclosed[d]
    /\ active' = [active EXCEPT ![d] = TRUE]
    /\ reconnTime' = [reconnTime EXCEPT ![d] = ReconnMin]
    /\ tasks' = [tasks EXCEPT ![d][IF d \in AsynchDialers THEN "dial" ELSE "dialOnce"] = @ + 1]
    /\ UNCHANGED <<socketVars, attached, pipes, made, eclosed, lpc, stopped, pipeVars, idVars>>

\* dial looks at closed, then calls the transport without the lock.
dialClosed(d) ==
    /\ eclosed[d]
    /\ \E k \in DialKinds : Ends(d, k)
    /\ UNCHANGED <<socketVars, attached, pipes, endpointVars, reconnTime, stopped, pipeVars, idVars>>

dialStart(d) ==
    /\ ~eclosed[d]
    /\ \/ Becomes(d, "dial", "connect")
       \/ Becomes(d, "dialOnce", "connectOnce")
    /\ UNCHANGED <<socketVars, attached, pipes, endpointVars, reconnTime, stopped, pipeVars, idVars>>

dialSucceeds(d, p) ==
    /\ \E k \in ConnKinds : Ends(d, k)
    /\ newPipe(p, d)
    /\ UNCHANGED <<socketVars, attached, pipes, endpointVars, reconnTime, stopped,
                   closing, cst, det, dethook>>

\* The first attempt of a synchronous Dial fails, or the transport says
\* ErrClosed: the dialer is not tried again.
dialGivesUp(d) ==
    /\ \E k \in ConnKinds : Ends(d, k)
    /\ stopped' = [stopped EXCEPT ![d] = TRUE]
    /\ UNCHANGED <<socketVars, attached, pipes, endpointVars, reconnTime, pipeVars, idVars>>

\* The delays that one application of the backoff can produce: the factor is
\* drawn from 1.1 up to 1.5, the product is truncated and capped.
NextDelays(t) ==
    IF ReconnMax = 0 THEN {t}
    ELSE {IF u > ReconnMax THEN ReconnMax ELSE u : u \in (11 * t) \div 10 .. (15 * t) \div 10}

redial(d, k, backoff) ==
    /\ Becomes(d, k, "timer")
    /\ \E t \in IF backoff THEN NextDelays(reconnTime[d]) ELSE {reconnTime[d]} :
           reconnTime' = [reconnTime EXCEPT ![d] = t]

dialFails(d) ==
    /\ redial(d, "connect", TRUE)
    /\ UNCHANGED <<socketVars, attached, pipes, endpointVars, stopped, pipeVars, idVars>>

pipeClosed_NoRedial(d) ==
    /\ Ends(d, "pipeClosed")
    /\ UNCHANGED <<socketVars, attached, pipes, endpointVars, reconnTime, stopped, pipeVars, idVars>>

pipeClosed(d) ==
    /\ redial(d, "pipeClosed", BackoffOnClose)
    /\ UNCHANGED <<socketVars, attached, pipes, endpointVars, stopped, pipeVars, idVars>>

pipeConnected(d) ==
    /\ Ends(d, "pipeConnected")
    /\ reconnTime' = [reconnTime EXCEPT ![d] = ReconnMin]
    /\ UNCHANGED <<socketVars, attached, pipes, endpointVars, stopped, pipeVars, idVars>>

\* The redial timer expires: dial(true) runs in a goroutine of its own.
redialTimer(d) ==
    /\ Becomes(d, "timer", "dial")
    /\ UNCHANGED <<socketVars, attached, pipes, endpointVars, reconnTime, stopped, pipeVars, idVars>>

\* Listener.Close closes the transport listener too; Dialer.Close stops the
\* timer that redial armed last, if it has not fired.
CloseEndpoint(e) ==
    /\ eclosed' = [eclosed EXCEPT ![e] = TRUE]
    /\ IF e \in Dialers /\ ~eclosed[e] /\ tasks[e]["timer"] > 0
       THEN Ends(e, "timer")
       ELSE UNCHANGED tasks

AppCloseEndpoint(e) ==
    /\ e \in made
    /\ ~eclosed[e]
    /\ CloseEndpoint(e)
    /\ UNCHANGED <<socketVars, attached, pipes, made, active, lpc, reconnTime, stopped, pipeVars, idVars>>

(***************************************************************************)
(* Socket.Close and SetPipeEventHook.                                      *)
(***************************************************************************)
CloseStart(c) ==
    /\ cpc[c] = "idle"
    /\ ctodo' = [ctodo EXCEPT ![c] = IF sclosed THEN {} ELSE made]
    /\ sclosed' = TRUE
    /\ cpc' = [cpc EXCEPT ![c] = "endpoints"]
    /\ UNCHANGED <<hook, pclosed, attached, pipes, endpointVars, dialerVars, pipeVars, idVars>>

\* Listeners first, then dialers.
CloseNextEndpoint(c) ==
    /\ cpc[c] = "endpoints"
    /\ \E e \in ctodo[c] :
           /\ e \in Dialers => ctodo[c] \cap Listeners = {}
           /\ ctodo' = [ctodo EXCEPT ![c] = @ \ {e}]
           /\ CloseEndpoint(e)
    /\ UNCHANGED <<sclosed, hook, cpc, pclosed, attached, pipes, made, active, lpc,
                   reconnTime, stopped, pipeVars, idVars>>

CloseProto_Late(c) ==
    /\ cpc[c] = "endpoints"
    /\ ctodo[c] = {}
    /\ cpc' = [cpc EXCEPT ![c] = "pipes"]
    /\ UNCHANGED <<sclosed, hook, ctodo, pclosed, attached, pipes, endpointVars, dialerVars, pipeVars, idVars>>

CloseProto(c) ==
    /\ cpc[c] = "endpoints"
    /\ ctodo[c] = {}
    /\ pclosed' = TRUE
    /\ cpc' = [cpc EXCEPT ![c] = "pipes"]
    /\ UNCHANGED <<sclosed, hook, ctodo, attached, pipes, endpointVars, dialerVars, pipeVars, idVars>>

\* pipeList.CloseAll starts a goroutine that closes each listed pipe.
CloseAll(c) ==
    /\ cpc[c] = "pipes"
    /\ cpc' = [cpc EXCEPT ![c] = "done"]
    /\ cst' = [p \in Pipes |-> IF p \in pipes /\ cst[p] = "idle" THEN "requested" ELSE cst[p]]
    /\ UNCHANGED <<sclosed, hook, ctodo, pclosed, attached, pipes, endpointVars, dialerVars,
                   pst, owner, ph, closing, det, dethook, idVars>>

SetPipeEventHook ==
    /\ \E h \in Hooks \ {hook} : hook' = h
    /\ UNCHANGED <<sclosed, cpc, ctodo, pclosed, attached, pipes, endpointVars, dialerVars,
                   pipeVars, idVars>>

-----------------------------------------------------------------------------
\* The steps of goroutines that nothing outside the socket holds up.
addPipeStep(p) ==
    \/ addPipeList(p)
    \/ addPipeAttaching(p)
    \/ addPipeRejected(p)
    \/ addPipeRefused(p)
    \/ addPipeAccepted(p)
    \/ addPipeUnlist(p)
    \/ addPipeAttached(p)

closeStep(p) ==
    \/ closeTransport(p)
    \/ closeLocked(p)
    \/ remPipeUnlist(p)
    \/ closeNotify(p)

detachStep(p) == remPipeCallback(p) \/ remPipeFree(p)

dialerStep(d) ==
    \/ dialClosed(d)
    \/ dialStart(d)
    \/ pipeClosed(d)
    \/ redialTimer(d)

serveStep(l) == serveCheck(l) \/ serveClosed(l)

CloseStep(c) == CloseNextEndpoint(c) \/ CloseProto(c) \/ CloseAll(c)

Next ==
    \/ \E p \in Pipes : addPipeStep(p) \/ closeStep(p) \/ detachStep(p) \/ CallClose(p)
    \/ \E e \in Endpoints : NewEndpoint(e) \/ AppCloseEndpoint(e)
    \/ \E l \in Listeners :
           \/ Listen(l) \/ ListenFails(l) \/ ListenSucceeds(l)
           \/ serveStep(l) \/ serveError(l)
           \/ \E p \in Pipes : serveAccepted(l, p)
    \/ \E d \in Dialers :
           \/ Dial(d) \/ dialerStep(d) \/ dialGivesUp(d) \/ dialFails(d) \/ pipeConnected(d)
           \/ \E p \in Pipes : dialSucceeds(d, p)
    \/ \E c \in Closers : CloseStart(c) \/ CloseStep(c)
    \/ SetPipeEventHook

Spec == Init /\ [][Next]_vars

\* Goroutines run, callbacks return and timers fire.  Nothing is assumed of
\* the application, of the peers or of how a connection attempt ends.
Fairness ==
    /\ \A p \in Pipes : WF_vars(addPipeStep(p)) /\ WF_vars(closeStep(p)) /\ WF_vars(detachStep(p))
    /\ \A d \in Dialers : WF_vars(dialerStep(d))
    /\ \A l \in Listeners : WF_vars(serveStep(l)) /\ WF_vars(ListenFails(l) \/ ListenSucceeds(l))
    /\ \A c \in Closers : WF_vars(CloseStep(c))

FairSpec == Spec /\ Fairness

-----------------------------------------------------------------------------
\* Every variable has its type: the stages are the ones the code can be in,
\* a pipe object in use has an owner, and an ID is a 31-bit number.
TypeOK ==
    /\ sclosed \in BOOLEAN
    /\ hook \in BOOLEAN
    /\ cpc \in [Closers -> {"idle", "endpoints", "pipes", "done"}]
    /\ ctodo \in [Closers -> SUBSET Endpoints]
    /\ pclosed \in BOOLEAN
    /\ attached \in SUBSET Pipes
    /\ pipes \in SUBSET Pipes
    /\ made \in SUBSET Endpoints
    /\ active \in [Endpoints -> BOOLEAN]
    /\ eclosed \in [Endpoints -> BOOLEAN]
    /\ lpc \in [Listeners -> {"off", "listen", "check", "accept", "add"}]
    /\ tasks \in [Dialers -> [TaskKinds -> Nat]]
    /\ reconnTime \in [Dialers -> Nat]
    /\ stopped \in [Dialers -> BOOLEAN]
    /\ pst \in [Pipes -> AddStages]
    /\ owner \in [Pipes -> Endpoints \cup {NoEndpoint}]
    /\ ph \in [Pipes -> BOOLEAN]
    /\ closing \in [Pipes -> BOOLEAN]
    /\ cst \in [Pipes -> CloseStages]
    /\ det \in [Pipes -> {"none", "callback", "free", "freed"}]
    /\ dethook \in [Pipes -> BOOLEAN]
    /\ id \in [Pipes -> 0 .. IdSpace - 1]
    /\ used \in SUBSET (1 .. IdSpace - 1)
    /\ nextID \in 0 .. 2 * IdSpace - 1

\* How the stages of addPipe, of Close and of the detach goroutine go
\* together for each pipe: the part of the inductive invariant on which the
\* proofs of the properties below rest.
StagesOf(p) ==
    /\ p \in attached <=> Added(p) /\ cst[p] \in {"idle", "requested", "tclosed"}
    /\ closing[p] <=> cst[p] \in {"removing", "notify", "closed"}
    /\ pst[p] \in {"listed", "hooked", "rejected", "refused"} => p \in pipes
    /\ p \in pipes => pst[p] \notin {"none", "new"}
    /\ Added(p) /\ cst[p] \in {"idle", "requested", "tclosed", "removing"} =>
           p \in pipes /\ det[p] = "none"
    /\ ~Added(p) => det[p] = "none" /\ cst[p] # "removing"
    /\ pst[p] \in {"none", "new"} => cst[p] = "idle"
    /\ pst[p] = "none" <=> owner[p] = NoEndpoint
StagesAgree == \A p \in Pipes : StagesOf(p)

\* A pipe holds its ID from newPipe until the goroutine of remPipe frees it.
HoldsID(p) == pst[p] # "none" /\ det[p] # "freed"

\* Pipe IDs: a pipe that holds an ID holds it exclusively, and the allocator
\* knows it is in use, also while the counter wraps around.  So Free never
\* panics with "free of unused pipe ID", and no entry of the pipe list or of
\* a protocol's table, both keyed by ID, is overwritten by another pipe.
PipeIDsExclusive ==
    \A p \in Pipes : HoldsID(p) =>
        /\ id[p] \in used
        /\ \A q \in Pipes \ {p} : HoldsID(q) => id[q] # id[p]

\* Until RemovePipe is called the protocol can use the pipe: it is in the
\* socket's list, where CloseAll finds it, and its ID is still valid, as
\* ProtocolBase.RemovePipe promises.
AttachedPipesListed ==
    \A p \in attached : p \in pipes /\ id[p] \in used

\* Once a Socket.Close call has returned, no pipe escapes: whatever the
\* protocol still has attached is being closed, although addPipe of dial and
\* accept goroutines races with Close.
ClosedSocketClosesPipes ==
    (\E c \in Closers : cpc[c] = "done") => \A p \in attached : cst[p] # "idle"

\* The strengthening of it that is inductive: the protocol is closed before
\* CloseAll looks at the list, and refuses every pipe from then on.
CloseOrder ==
    /\ \A c \in Closers : cpc[c] \in {"pipes", "done"} => pclosed
    /\ ClosedSocketClosesPipes

\* The dialer's work in progress: goroutines that dial or will, an armed
\* timer, and pipes whose Close has not told the dialer yet.
LivePipes(d) == {p \in Pipes : owner[p] = d /\ cst[p] # "closed"}
TokenCount(d) ==
    tasks[d]["dial"] + tasks[d]["dialOnce"] + tasks[d]["connect"] + tasks[d]["connectOnce"]
        + tasks[d]["timer"] + tasks[d]["pipeClosed"] + Cardinality(LivePipes(d))

\* A dialer never has two connections, or two attempts, at a time, and one
\* that was started always has exactly one until it is closed or gives up:
\* the pipe, the notification, the timer and the dial hand over to each other
\* without ever losing or doubling the turn.
OneConnectionPerDialer ==
    \A d \in Dialers :
        /\ TokenCount(d) <= 1
        /\ active[d] /\ ~stopped[d] /\ ~eclosed[d] => TokenCount(d) = 1

\* The delay before a reconnect stays within the configured limits.
Larger(a, b) == IF a > b THEN a ELSE b
ReconnectDelayBounded ==
    \A d \in Dialers : reconnTime[d] <= Larger(ReconnMin, ReconnMax)

\* A pipe that was closed is never attached again, and RemovePipe follows the
\* close of the transport connection (protocol.go: "called exactly once, after
\* the underlying transport pipe is closed").
RemoveAfterTransportClose ==
    [][\A p \in Pipes :
          /\ p \in attached /\ p \notin attached' => cst[p] = "tclosed"
          /\ p \notin attached /\ p \in attached' => ~closing[p] /\ det[p] = "none"]_vars

\* After Socket.Close every connection is closed for good, also the ones that
\* were being established, and no goroutine keeps accepting.
CloseTerminates ==
    (\E c \in Closers : cpc[c] = "done") ~>
        [](/\ \A p \in Pipes : pst[p] # "none" => cst[p] = "closed"
           /\ \A l \in Listeners : lpc[l] = "off")

\* A dialer whose connection closed dials again, unless it is closed.
DialerRedials ==
    \A d \in Dialers :
        (\E p \in Pipes : owner[p] = d /\ cst[p] = "notify")
            ~> (tasks[d]["connect"] > 0 \/ eclosed[d])

\* Every Detached callback runs, and a pipe that was attached gives its ID back.
AttachedPipeFreesID ==
    \A p \in Pipes : (Added(p) /\ cst[p] = "requested") ~> (det[p] = "freed")

\* What pipe.Close's comment says of every pipe: closing it arranges for
\* "releasing the pipe ID for reuse".
ClosedPipeFreesID ==
    \A p \in Pipes : (cst[p] = "requested") ~> (det[p] = "freed")

=============================================================================
