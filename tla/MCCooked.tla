------------------------------ MODULE MCCooked -------------------------------
(* Cooked for TLC: small scenarios of REP, RESPONDENT, SURVEYOR and SUB. *)
EXTENDS Cooked, TLC

CONSTANTS p1, p2, a, b, c0, c1

Request(dev) == [dev |-> dev, body |-> <<>>]
Topic(t) == [dev |-> 0, body |-> t]

\* What threads a and b do, and on which context.
Roles(opsA, opsB, c) == a :> [ops |-> opsA, ctxs |-> {c0}] @@ b :> [ops |-> opsB, ctxs |-> {c}]
Serve == {"recv", "send"}

Base == [proto |-> "rep", use |-> Roles(Serve, {}, c0), own |-> TRUE, opens |-> {}, closes |-> {},
         kinds |-> {Request(0)}, topics |-> {}, subs |-> {}, fields |-> {}, qlens |-> {}, ttls |-> {},
         best |-> FALSE, sexp |-> FALSE, rexp |-> FALSE, wqlen |-> 0, rqlen |-> 1, ttl |-> 2,
         stime |-> "set", pipes |-> {p1}, drops |-> {}, arrivals |-> 0, sends |-> 0, sets |-> 0]

\* Two requests: with a context each, one of which is closed; with the socket shared;
\* through too many devices; while options change.
Replies(name) ==
    LET base == [Base EXCEPT !.proto = name, !.arrivals = 2]
    IN {[base EXCEPT !.use = Roles(Serve, {"recv"}, c1), !.opens = {c1}],
        [base EXCEPT !.drops = {p1}],
        [base EXCEPT !.use = Roles(Serve, Serve, c1), !.opens = {c1}, !.closes = {c1}, !.arrivals = 1,
                     !.rexp = TRUE],
        [base EXCEPT !.use = Roles(Serve, Serve, c0), !.own = FALSE, !.sexp = TRUE],
        [base EXCEPT !.wqlen = 1, !.best = TRUE, !.kinds = {Request(0), Request(1), Request(2)}],
        [base EXCEPT !.sets = 1, !.arrivals = 1, !.qlens = {0, 2}, !.ttls = {1},
                     !.fields = {"best", "sexp", "rexp", "wqlen", "ttl"}]}
Respondent == [Base EXCEPT !.proto = "respondent", !.arrivals = 2]
Respondents == {[Respondent EXCEPT !.sets = 1, !.qlens = {0, 1}, !.fields = {"rqlen"}],
                [Respondent EXCEPT !.rqlen = 0]}
TwoPeers == {[Base EXCEPT !.arrivals = 2, !.pipes = {p1, p2}, !.drops = {p2}]}

\* Surveys without peers, replaced, closed or expiring; with a peer; with queues that
\* have no room; while options change.
Surveyor == [Base EXCEPT !.proto = "surveyor", !.sends = 1, !.arrivals = 1, !.wqlen = 1]
Surveyors ==
    {[Surveyor EXCEPT !.pipes = {}, !.sends = 2, !.use = Roles(Serve, Serve, c0), !.stime = "long"],
     [Surveyor EXCEPT !.pipes = {}, !.sends = 2, !.use = Roles(Serve, Serve, c1), !.opens = {c1},
                      !.closes = {c1}],
     [Surveyor EXCEPT !.use = Roles(Serve, {"recv"}, c0), !.drops = {p1}],
     [Surveyor EXCEPT !.wqlen = 0, !.rqlen = 0],
     [Surveyor EXCEPT !.sets = 1, !.qlens = {0}, !.fields = {"rexp", "rqlen", "wqlen"}]}

\* Two publishers and a context that is closed; subscriptions that come and go; queues
\* that are replaced; a context that is opened.
Sub == [Base EXCEPT !.proto = "sub", !.arrivals = 2, !.subs = {<<>>},
                    !.kinds = {Topic(<<1>>), Topic(<<2>>)}, !.use = Roles({"recv"}, {"set"}, c0)]
Subs ==
    {[Sub EXCEPT !.pipes = {p1, p2}, !.kinds = {Topic(<<1>>)}, !.closes = {c0}, !.drops = {p1}],
     [Sub EXCEPT !.sets = 1, !.topics = {<<>>, <<1>>}, !.rqlen = 2, !.subs = {<<>>, <<1>>}],
     [Sub EXCEPT !.sets = 1, !.fields = {"rqlen"}, !.qlens = {1}, !.subs = {<<1>>}],
     [Sub EXCEPT !.sets = 2, !.arrivals = 1, !.kinds = {Topic(<<1>>)}, !.subs = {<<1>>},
                 !.topics = {<<1>>}, !.fields = {"rqlen"}, !.qlens = {1}],
     [Sub EXCEPT !.sets = 1, !.arrivals = 1, !.fields = {"rexp"}, !.topics = {<<2>>}, !.opens = {c1},
                 !.use = Roles({"recv"}, {"set"}, c1)]}

All == Replies("rep") \cup Replies("respondent") \cup Respondents \cup TwoPeers
       \cup Surveyors \cup Subs

=============================================================================
