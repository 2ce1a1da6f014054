--------------------------- MODULE MCForkProtocol ---------------------------
(* Small families of streams for TLC: no cfg can write a pair. *)
EXTENDS ForkProtocol, TLC

OneFork == {<<"fork", "root">>}
Chain == {<<"fork", "root">>, <<"leaf", "fork">>}

(* Maintenance of the streams that can have something to do: two runs at a  *)
(* time of one fork, one of each fork of a chain.                           *)
TwoRuns == {<<"fork", "1st run">>, <<"fork", "2nd run">>}
OneRun == {<<"fork", "run">>}
ChainRuns == {<<"fork", "run">>, <<"leaf", "run">>}

(* A fork of the root, and its own fork to come; with a fault behind it, an *)
(* attempt at another offset that left its intent.                          *)
Grown ==
    /\ edges = 2 /\ gens = 2 /\ faults \in 0 .. 1
    /\ meta = [s \in Streams |-> CASE s = "root" -> [Root(s) EXCEPT !.generation = 1]
                                   [] s = "fork" -> [Fork(s, "root", 1, 1) EXCEPT !.generation = 2]
                                   [] OTHER -> None]
    /\ \E acquired \in SUBSET {2} :
          /\ faults = 0 => acquired = {}
          /\ fork_edges = [s \in Streams |-> CASE s = "root" -> {1} [] s = "fork" -> acquired
                                               [] OTHER -> {}]
    /\ fork_intents = [s \in Streams |->
                          IF s = "leaf" /\ faults = 1
                          THEN {[edge |-> 2, parent |-> "fork", offset |-> 2]} ELSE {}]
    /\ gc_releases = [s \in Streams |-> {}]
    /\ armed = [s \in Streams |-> s = "leaf" /\ faults = 1]
    /\ proc = [p \in Procs |-> Free]
    /\ call = [p \in Procs |-> None]
    /\ late = {} /\ contested = {}

ChainSpec == Grown /\ [][Next]_vars
=============================================================================
