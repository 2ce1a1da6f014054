----------------------------- MODULE StreamIsLog -----------------------------
(* The refinement mapping: the rows of a DurableStream as an IdempotentLog. *)
EXTENDS DurableStream

log == [i \in DOMAIN db.messages |-> db.messages[i].by]

status ==
    CASE db.meta = None -> "none"
      [] db.meta # None /\ db.meta.soft_deleted -> "gone"
      [] db.meta # None /\ ~db.meta.soft_deleted ->
            IF db.meta.closed THEN "closed" ELSE "open"

(* Producers whose latest message is older than the retention. *)
forgotten == {p \in Producers : \E i \in DOMAIN db.messages : Latest(db, p, i) /\ Lapsed(i)}

Log == INSTANCE IdempotentLog WITH Writers <- ProducerHeaders

(* Every handler of the stream actor, with its retries, delayed clocks,     *)
(* sweeps, expiry, forks and restarts, does to the log what one action of   *)
(* an IdempotentLog does, or nothing.                                       *)
ImplementsLog == Log!Spec
=============================================================================
