------------------------------ MODULE Endpoint ------------------------------
(***************************************************************************)
(* What a transport's listener promises the core: the contract of          *)
(* TranListener.  A connection that reaches a listener is handed to the    *)
(* core once, by Accept, or it is closed; after Close nothing more is      *)
(* handed out; and no connection waits for ever.  Every transport that is  *)
(* modelled is shown to implement this module.                             *)
(***************************************************************************)
CONSTANTS
    Listeners,
    Conns,
    Of              \* the listener of every connection

VARIABLES
    shut,           \* the listeners whose Close has taken effect
    conns           \* what has become of every connection

evars == <<shut, conns>>

EndpointInit == shut = {} /\ conns = [c \in Conns |-> "none"]

Goes(c, from, to) == conns[c] = from /\ conns'[c] = to
Stays(c) == conns'[c] = conns[c]
Arrive(c) == Goes(c, "none", "pending")
Drop(c) == Goes(c, "none", "gone") \/ Goes(c, "pending", "gone")
Accept(c) == Of[c] \notin shut /\ Goes(c, "pending", "accepted")

\* One connection is handed out at a time; any number may arrive or be
\* dropped, as when a listener starts or closes.
EndpointNext ==
    /\ shut' \in {shut \cup ls : ls \in SUBSET Listeners}
    /\ DOMAIN conns' = Conns
    /\ \A c \in Conns : Stays(c) \/ Arrive(c) \/ Drop(c) \/ Accept(c)
    /\ \A c, d \in Conns : Accept(c) /\ Accept(d) => c = d

EndpointSafety == EndpointInit /\ [][EndpointNext]_evars

\* Nobody is left waiting.
Settles == \A c \in Conns : conns[c] = "pending" ~> conns[c] # "pending"
=============================================================================
