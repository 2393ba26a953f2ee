------------------------------- MODULE MCCore -------------------------------
(* Core for TLC: one socket with a few endpoints and pipe objects. *)
EXTENDS Core, TLC

\* Pipe objects are interchangeable; used only where no liveness is checked.
PipeSymmetry == Permutations(Pipes)

\* Bounds: a socket with one endpoint of either kind; a hook that is set late
\* meets the pipes of a listener only; and a third pipe, which finds IDs in use
\* and IDs that were freed, is one of a listener before anybody closes.
OneEndpoint ==
    /\ Cardinality(made) <= 1 /\ (hook \/ made \subseteq Listeners)
    /\ (\A p \in Pipes : pst[p] # "none") =>
          /\ hook /\ made \subseteq Listeners
          /\ \A e \in made : ~eclosed[e]
          /\ \A c \in Closers : cpc[c] = "idle"
=============================================================================
