---------------------------- MODULE IdempotentLog ----------------------------
(***************************************************************************)
(* What a stream promises its writers, without tables, clocks or requests: *)
(* a log that grows by one entry at a time, in which the entries of a      *)
(* producer follow each other, until it is closed, for good, or removed.   *)
(* A producer that has been idle for too long may be forgotten: then, and  *)
(* only then, it may start again at 0.                                     *)
(***************************************************************************)
EXTENDS Integers, Sequences

CONSTANTS
    Producers,      \* producer ids
    Writers,        \* what an entry says of who wrote it: id, epoch and seq
    None            \* an entry without a producer

VARIABLES
    log,            \* who wrote each entry
    status,         \* "none", "open", "closed" or "gone": deleted, but pinned
    forgotten       \* the producers that may start again

vars == <<log, status, forgotten>>

Init ==
    /\ log = <<>> /\ status = "none" /\ forgotten = {}

Owner(w) == IF w = None THEN {} ELSE {w.id}

OfProducer(p, i) == log[i] # None /\ log[i].id = p

(* Entry i is the latest of the producer. *)
LatestOf(p, i) ==
    /\ i \in DOMAIN log /\ OfProducer(p, i)
    /\ \A k \in i + 1 .. Len(log) : ~OfProducer(p, k)

Continues(new, old) ==
    \/ new.epoch = old.epoch /\ new.seq = old.seq + 1
    \/ new.epoch > old.epoch /\ new.seq = 0

(* The entries the log may take next: the producer's next number, 0 of a    *)
(* later epoch, or 0 of a producer that is new or forgotten.                *)
Expected(w) ==
    \/ w = None
    \/ \E i \in DOMAIN log : LatestOf(w.id, i) /\ Continues(w, log[i])
    \/ /\ w.seq = 0
       /\ w.id \in forgotten \/ \A i \in DOMAIN log : ~OfProducer(w.id, i)

-----------------------------------------------------------------------------

(* Also in place of a stream that is found to have expired. *)
Create ==
    /\ status' \in {"open", "closed"}
    /\ log' \in {<<>>, <<None>>}
    /\ forgotten' = {}

(* An entry of a slow request may be old enough to be forgotten at once. *)
AppendEntry(w) ==
    /\ status = "open" /\ status' \in {"open", "closed"}
    /\ log' = Append(log, w) /\ Expected(w)
    /\ forgotten \ Owner(w) \subseteq forgotten'
    /\ forgotten' \subseteq forgotten \union Owner(w)

Close ==
    /\ status \in {"open", "closed"} /\ status' = "closed"
    /\ UNCHANGED <<log, forgotten>>

(* A deleted stream that forks still read from. *)
Retire ==
    /\ status \in {"open", "closed"} /\ status' = "gone"
    /\ UNCHANGED <<log, forgotten>>

Remove ==
    /\ status' = "none" /\ log' = <<>> /\ forgotten' = {}

Forget ==
    /\ forgotten \subseteq forgotten'
    /\ UNCHANGED <<log, status>>

Next ==
    \/ Create \/ Close \/ Retire \/ Remove \/ Forget
    \/ \E w \in Writers \union {None} : AppendEntry(w)

Spec == Init /\ [][Next]_vars
=============================================================================
