------------------------------- MODULE MCReq --------------------------------
(***************************************************************************)
(* Instances of Req for TLC.                                               *)
(***************************************************************************)
EXTENDS Req, TLC

CONSTANTS d, c1, t1, t2, p1, p2

\* Each context has one caller, as the documentation of contexts asks.
OneCallerEach == t1 :> {d} @@ t2 :> {c1}
\* Two callers share the default context.
Shared == t1 :> {d} @@ t2 :> {d}
\* One caller and the default context.
OneCaller == t1 :> {d}

Never == [c \in Contexts |-> 0]
\* The default context has a deadline, the other one waits.
DefaultDeadline == [c \in Contexts |-> IF c = d THEN 1 ELSE 0]
\* The default context has a receive deadline, the other one a send deadline and
\* receives only what is there.
OtherDeadline == [c \in Contexts |-> IF c = d THEN 0 ELSE 1]
DefaultElseAtOnce == [c \in Contexts |-> IF c = d THEN 1 ELSE -1]

PipeSymmetry == Permutations(Pipes)
=============================================================================
