-------------------------- MODULE MCDurableStream --------------------------
(* Small instances of DurableStream for TLC. *)
EXTENDS StreamIsLog, TLC

(* Producer ids are only compared for equality: the order that breaks ties  *)
(* of the sweep is left open by get_producer_state.                         *)
ProducerSymmetry == Permutations(Producers)
EdgeSymmetry == Permutations(Edges)

(* The writers alone: where no stream has a TTL, nothing looks at what the  *)
(* touch of a read writes.                                                  *)
NextWrite ==
    \/ \E r \in PutRequests, now \in Sampled : handle_put(r, now)
    \/ \E r \in PostRequests, now \in Sampled : handle_post(r, now)
    \/ \E p \in Optional(ProducerHeaders), now \in Sampled : handle_close_only(p, now)
    \/ handle_delete
    \/ Restart
    \/ Tick

WritesSpec == Init /\ [][NextWrite]_vars
=============================================================================
