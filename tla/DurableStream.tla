--------------------------- MODULE DurableStream ---------------------------
(***************************************************************************)
(* One stream actor seen from behind its `lifecycle` mutex: the rows of    *)
(* meta, messages, producers and fork_edges, and every handler that takes  *)
(* the mutex and changes them.  Holding the mutex makes each handler one   *)
(* step for the others.  What is NOT atomic is the clock: PUT, POST, the   *)
(* close and the touch of a read sample now_ms() before they wait for the  *)
(* mutex, so they run with any `now` between the actor's start and the     *)
(* present.  The stream is a root stream; ForkProtocol has the child side. *)
(***************************************************************************)
EXTENDS Integers, Sequences, FiniteSets

CONSTANTS
    Producers, Epochs, Seqs,    \* Producer-Id, Producer-Epoch, Producer-Seq
    StreamSeqs,                 \* Stream-Seq, in the order of its bytes
    ContentTypes,               \* content types after normalize_content_type
    Ttls, ExpiresAts,           \* Stream-TTL and Stream-Expires-At, in ticks
    Sizes,                      \* payload lengths of a POST
    Edges,                      \* fork edge ids the children of the stream use
    ForkOffsets,                \* Stream-Fork-Offset a child may ask for
    PRODUCER_STATE_TTL_MS,      \* retention of an idle producer, in ticks
    SWEEP_LIMIT,                \* other producers expired by one write
    None,                       \* SQL NULL, an absent header or row
    MaxClock, MaxGeneration, MaxMessages    \* bounds of the exploration

ASSUME NumbersAreNaturals ==
    /\ Epochs \subseteq Nat /\ Seqs \subseteq Nat /\ StreamSeqs \subseteq Nat
    /\ Ttls \subseteq Nat /\ ExpiresAts \subseteq Nat
    /\ Sizes \subseteq Nat \ {0} /\ ForkOffsets \subseteq Nat
    /\ PRODUCER_STATE_TTL_MS \in Nat /\ SWEEP_LIMIT \in Nat
    /\ MaxClock \in Nat /\ MaxGeneration \in Nat /\ MaxMessages \in Nat
ASSUME FiniteRows == IsFiniteSet(Edges)
ASSUME NoneIsNoNumber == None \notin Int
ASSUME NoneIsNoName == None \notin Producers /\ None \notin ContentTypes

VARIABLES
    db,         \* the committed tables of the actor
    clock,      \* the present, in ticks
    boot,       \* when the actor last started: no request in flight is older
    gens,       \* generations (uuids) handed out so far
    touches,    \* touch_access calls of reads in flight, each with its `now`
    held        \* what each child was granted: ghost of the children's meta

vars == <<db, clock, boot, gens, touches, held>>

Optional(S) == S \union {None}

-----------------------------------------------------------------------------
(* The rows. `by` and `stream_seq` of a message say which request's payload *)
(* it holds; the table itself has the offset, the data and ts.              *)

ProducerHeaders == [id : Producers, epoch : Epochs, seq : Seqs]
ProducerState == [epoch : Epochs, last_seq : Seqs, last_updated : Int]
Message == [offset : Nat, ts : Nat,
            by : Optional(ProducerHeaders), stream_seq : Optional(StreamSeqs)]
Meta == [generation : Nat, content_type : ContentTypes,
         ttl_seconds : Optional(Ttls), expires_at : Optional(ExpiresAts),
         closed : BOOLEAN, closed_by : Optional(ProducerHeaders),
         current_offset : Nat, last_seq : Optional(StreamSeqs),
         last_accessed_at : Nat, soft_deleted : BOOLEAN]
Database == [meta : Optional(Meta), messages : Seq(Message),
             producers : [Producers -> Optional(ProducerState)],
             fork_edges : [Edges -> Optional(Nat)]]
Grant == [generation : Nat, fork_offset : Nat, returned : BOOLEAN]

ASSUME NoneIsNoRow ==
    None \notin ProducerHeaders \union ProducerState \union Meta \union Grant

ZERO_OFFSET == 0
FRAMING == 5    \* bytes a message takes besides its payload

(* store.rs purge: everything but the fork intents and the pending releases *)
purge == [meta |-> None, messages |-> <<>>,
          producers |-> [p \in Producers |-> None],
          fork_edges |-> [e \in Edges |-> None]]

fork_edge_count(d) == Cardinality({e \in Edges : d.fork_edges[e] # None})

(* Mutants: a retirement that ignores the forks, and a purge that forgets   *)
(* the producers table.                                                     *)
retire_pinned(d) == purge
retire_keeping_producers(d) ==
    IF fork_edge_count(d) > 0
      THEN [d EXCEPT !.meta.soft_deleted = TRUE]
      ELSE [purge EXCEPT !.producers = d.producers]

(* The shared tail of an expiry and of a DELETE: forks keep the rows alive. *)
retire(d) ==
    IF fork_edge_count(d) > 0
      THEN [d EXCEPT !.meta.soft_deleted = TRUE]
      ELSE purge

is_expired(meta, now) ==
    \/ meta.expires_at # None /\ now >= meta.expires_at
    \/ meta.ttl_seconds # None /\ now >= meta.last_accessed_at + meta.ttl_seconds

visible_meta_while_locked(d, now) ==
    IF d.meta # None /\ is_expired(d.meta, now) THEN retire(d) ELSE d

Live(d) == d.meta # None /\ ~d.meta.soft_deleted

-----------------------------------------------------------------------------
(* Producer fencing *)

Stale(row, cutoff) == row # None /\ row.last_updated < cutoff

(* The row validate_producer sees: the addressed row expires synchronously. *)
producer_row(d, id, now) ==
    LET row == d.producers[id]
    IN  IF Stale(row, now - PRODUCER_STATE_TTL_MS) THEN None ELSE row

(* Without the addressed row if it is stale, and without the SWEEP_LIMIT    *)
(* oldest of the others; ties in age are broken by the id.                  *)
Swept(d, id, now, others) ==
    LET oldest(S) == \A p \in S, q \in others \ S :
                        d.producers[p].last_updated <= d.producers[q].last_updated
    IN  {[p \in Producers |->
              IF p \in S THEN None
              ELSE IF p = id THEN producer_row(d, id, now) ELSE d.producers[p]] :
            S \in {T \in SUBSET others :
                      /\ Cardinality(T) <= SWEEP_LIMIT
                      /\ T = others \/ Cardinality(T) = SWEEP_LIMIT
                      /\ oldest(T)}}

(* Mutant: the sweep takes the oldest rows whether or not they are stale. *)
sweep_oldest(d, id, now) ==
    Swept(d, id, now, {p \in Producers \ {id} : d.producers[p] # None})

(* The tables get_producer_state may leave: only stale rows are swept. *)
get_producer_state(d, id, now) ==
    Swept(d, id, now, {p \in Producers \ {id} :
                          Stale(d.producers[p], now - PRODUCER_STATE_TTL_MS)})

(* Mutant: the last sequence number of the producer is taken again. *)
validate_off_by_one(row, producer) ==
    IF row = None THEN IF producer.seq = 0 THEN "accepted" ELSE "sequence_gap"
    ELSE IF producer.epoch < row.epoch THEN "stale_epoch"
    ELSE IF producer.seq < row.last_seq THEN "duplicate"
    ELSE IF producer.seq <= row.last_seq + 1 THEN "accepted" ELSE "sequence_gap"

validate_producer(row, producer) ==
    CASE row = None ->
            IF producer.seq = 0 THEN "accepted" ELSE "sequence_gap"
      [] row # None /\ producer.epoch < row.epoch -> "stale_epoch"
      [] row # None /\ producer.epoch > row.epoch ->
            IF producer.seq = 0 THEN "accepted" ELSE "invalid_epoch_seq"
      [] row # None /\ producer.epoch = row.epoch ->
            IF producer.seq <= row.last_seq THEN "duplicate"
            ELSE IF producer.seq = row.last_seq + 1 THEN "accepted"
            ELSE "sequence_gap"

commit_producer_state(table, producer, now) ==
    [table EXCEPT ![producer.id] =
        [epoch |-> producer.epoch, last_seq |-> producer.seq, last_updated |-> now]]

(* The producers table an accepted write commits. *)
fenced(d, producer, now) ==
    IF producer = None THEN {d.producers}
    ELSE {commit_producer_state(table, producer, now) :
              table \in get_producer_state(d, producer.id, now)}

-----------------------------------------------------------------------------
(* Writes *)

advance_offset(offset, size) == offset + FRAMING + size

append_message(d, size, now, producer, seq) ==
    LET next == advance_offset(d.meta.current_offset, size)
    IN  [d EXCEPT !.meta.current_offset = next,
                  !.messages = Append(@, [offset |-> next, ts |-> now,
                                          by |-> producer, stream_seq |-> seq])]

(* Mutant: the touch is rounded up to the next tick. *)
touch_rounded(d, now) ==
    IF d.meta = None THEN d ELSE [d EXCEPT !.meta.last_accessed_at = now + 1]

touch(d, now) ==
    IF d.meta = None THEN d ELSE [d EXCEPT !.meta.last_accessed_at = now]

set_last_seq(d, seq) ==
    IF seq = None THEN d ELSE [d EXCEPT !.meta.last_seq = seq]

(* Mutant: the closer is overwritten by a later close. *)
set_closed_plain(d, producer) ==
    [d EXCEPT !.meta.closed = TRUE, !.meta.closed_by = producer]

(* COALESCE(?, closed_by): a close without a producer keeps the closer. *)
set_closed(d, producer) ==
    [d EXCEPT !.meta.closed = TRUE,
              !.meta.closed_by = IF producer = None THEN @ ELSE producer]

closed_by_matches(meta, producer) == producer # None /\ meta.closed_by = producer

PutRequests ==
    {r \in [content_type : ContentTypes, ttl_seconds : Optional(Ttls),
            expires_at : Optional(ExpiresAts), closed : BOOLEAN,
            size : Sizes \union {0}] :
        r.ttl_seconds = None \/ r.expires_at = None}

PostRequests ==
    [producer : Optional(ProducerHeaders), stream_seq : Optional(StreamSeqs),
     content_type : ContentTypes, size : Sizes, close : BOOLEAN]

create_meta(r, generation, now) ==
    [generation |-> generation, content_type |-> r.content_type,
     ttl_seconds |-> r.ttl_seconds, expires_at |-> r.expires_at,
     closed |-> r.closed, closed_by |-> None, current_offset |-> ZERO_OFFSET,
     last_seq |-> None, last_accessed_at |-> now, soft_deleted |-> FALSE]

verdict(d, producer, now) ==
    IF producer = None THEN "accepted"
    ELSE validate_producer(producer_row(d, producer.id, now), producer)

(* Mutant: only the repetition of a Stream-Seq is a conflict. *)
sequence_repeated(meta, r) ==
    meta.last_seq # None /\ r.stream_seq # None /\ r.stream_seq = meta.last_seq

sequence_conflict(meta, r) ==
    meta.last_seq # None /\ r.stream_seq # None /\ r.stream_seq <= meta.last_seq

(* Mutant: Stream-Seq is validated before the producer's duplicate check. *)
append_reply_seq_first(d, r, now) ==
    IF sequence_conflict(d.meta, r) THEN "sequence_conflict"
    ELSE verdict(d, r.producer, now)

(* What the transaction of a POST decides: the producer comes first.        *)
append_reply(d, r, now) ==
    IF verdict(d, r.producer, now) # "accepted" THEN verdict(d, r.producer, now)
    ELSE IF sequence_conflict(d.meta, r) THEN "sequence_conflict"
    ELSE "accepted"

(* The reply to a POST with a body, in the order the handler decides it. *)
post_reply(d, r, now) ==
    IF d.meta = None THEN "not_found"
    ELSE IF d.meta.soft_deleted THEN "gone"
    ELSE IF d.meta.closed
      THEN IF closed_by_matches(d.meta, r.producer) THEN "close_success" ELSE "closed"
    ELSE IF r.content_type # d.meta.content_type THEN "content_type_mismatch"
    ELSE append_reply(d, r, now)

(* The databases an accepted POST may commit, all of it in one transaction. *)
posted(d, r, now) ==
    {LET appended == append_message([d EXCEPT !.producers = table], r.size, now,
                                    r.producer, r.stream_seq)
         sequenced == set_last_seq(appended, r.stream_seq)
     IN  touch(IF r.close THEN set_closed(sequenced, r.producer) ELSE sequenced, now) :
        table \in fenced(d, r.producer, now)}

(* The reply to an empty POST that closes; one without producer headers     *)
(* closes again a stream that is closed.                                    *)
close_reply(d, producer, now) ==
    IF d.meta = None THEN "not_found"
    ELSE IF d.meta.soft_deleted THEN "gone"
    ELSE IF producer = None THEN "accepted"
    ELSE IF d.meta.closed
      THEN IF closed_by_matches(d.meta, producer) THEN "close_success" ELSE "closed"
    ELSE verdict(d, producer, now)

close_only(d, producer, now) ==
    {touch(set_closed([d EXCEPT !.producers = table], producer), now) :
        table \in fenced(d, producer, now)}

-----------------------------------------------------------------------------
(* The handlers *)

Init ==
    /\ db = purge
    /\ clock = 0 /\ boot = 0 /\ gens = 0
    /\ touches = {}
    /\ held = [e \in Edges |-> None]

(* A request samples the clock, then waits for the mutex. *)
Sampled == boot .. clock

handle_put(r, now) ==
    LET d == visible_meta_while_locked(db, now)
        created == [d EXCEPT !.meta = create_meta(r, gens + 1, now)]
    IN  /\ IF d.meta # None
             THEN db' = d /\ gens' = gens
             ELSE /\ gens < MaxGeneration
                  /\ gens' = gens + 1
                  /\ db' = IF r.size = 0 THEN created
                           ELSE append_message(created, r.size, now, None, None)
        /\ UNCHANGED <<clock, boot, touches, held>>

handle_post(r, now) ==
    LET d == visible_meta_while_locked(db, now)
    IN  /\ IF post_reply(d, r, now) = "accepted"
             THEN /\ Len(d.messages) < MaxMessages
                  /\ db' \in posted(d, r, now)
             ELSE db' = d
        /\ UNCHANGED <<clock, boot, gens, touches, held>>

handle_close_only(producer, now) ==
    LET d == visible_meta_while_locked(db, now)
    IN  /\ IF close_reply(d, producer, now) = "accepted"
             THEN db' \in close_only(d, producer, now)
             ELSE db' = d
        /\ UNCHANGED <<clock, boot, gens, touches, held>>

(* DELETE samples the clock with the mutex held. *)
handle_delete ==
    LET d == visible_meta_while_locked(db, clock)
    IN  /\ db' = IF Live(d) THEN retire(d) ELSE d
        /\ UNCHANGED <<clock, boot, gens, touches, held>>

(* HEAD, and the expiry check that maintenance and every read begin with. *)
visible_meta(now) ==
    /\ db' = visible_meta_while_locked(db, now)
    /\ UNCHANGED <<clock, boot, gens, touches, held>>

(* A read finds the stream and samples the clock for its touch... *)
read_snapshot ==
    /\ db.meta # None
    /\ touches' = touches \union {clock}
    /\ UNCHANGED <<db, clock, boot, gens, held>>

(* ...and touches whatever row is there when it gets the mutex. *)
touch_access(now) ==
    /\ now \in touches
    /\ touches' = touches \ {now}
    /\ db' = touch(db, now)
    /\ UNCHANGED <<clock, boot, gens, held>>

(* A child retries an acquire as often as it likes, and a call it gave up   *)
(* may still arrive.  An offset beyond the tail, or another content type    *)
(* than the source's, is refused.                                           *)
fork_acquire(e, fork_offset, content_type) ==
    LET recorded == db.fork_edges[e] # None /\ db.meta # None
        d == visible_meta_while_locked(db, clock)
        offset == IF fork_offset = None THEN d.meta.current_offset ELSE fork_offset
        granted == /\ Live(d)
                   /\ content_type \in {None, d.meta.content_type}
                   /\ offset <= d.meta.current_offset
        Grants(generation, at) ==
            held' = IF held[e] # None THEN held
                    ELSE [held EXCEPT ![e] = [generation |-> generation,
                                              fork_offset |-> at, returned |-> FALSE]]
    IN  /\ \/ /\ recorded
              /\ db' = db
              /\ Grants(db.meta.generation, db.fork_edges[e])
           \/ /\ ~recorded /\ granted
              /\ db' = [d EXCEPT !.fork_edges[e] = IF @ = None THEN offset ELSE @]
              /\ Grants(d.meta.generation, db'.fork_edges[e])
           \/ /\ ~recorded /\ ~granted
              /\ db' = d /\ held' = held
        /\ UNCHANGED <<clock, boot, gens, touches>>

(* Mutant: the last release leaves the soft-deleted rows behind. *)
keep_after_release(d) == d

purge_after_release(d) ==
    IF d.meta.soft_deleted /\ fork_edge_count(d) = 0 THEN purge ELSE d

(* A child returns what it was granted; the call may be repeated.           *)
fork_release(e) ==
    LET released == [db EXCEPT !.fork_edges[e] = None]
        ours == /\ db.meta # None
                /\ db.meta.generation = held[e].generation
                /\ db.fork_edges[e] # None
    IN  /\ held[e] # None
        /\ held' = [held EXCEPT ![e].returned = TRUE]
        /\ db' = IF ours THEN purge_after_release(released) ELSE db
        /\ UNCHANGED <<clock, boot, gens, touches>>

(* The actor dies and starts again: requests in flight are lost with it.    *)
Restart ==
    /\ boot < clock \/ touches # {}
    /\ boot' = clock /\ touches' = {}
    /\ UNCHANGED <<db, clock, gens, held>>

Tick ==
    /\ clock < MaxClock
    /\ clock' = clock + 1
    /\ UNCHANGED <<db, boot, gens, touches, held>>

Next ==
    \/ \E r \in PutRequests, now \in Sampled : handle_put(r, now)
    \/ \E r \in PostRequests, now \in Sampled : handle_post(r, now)
    \/ \E p \in Optional(ProducerHeaders), now \in Sampled : handle_close_only(p, now)
    \/ handle_delete
    \/ \E now \in Sampled : visible_meta(now)
    \/ read_snapshot
    \/ \E now \in touches : touch_access(now)
    \/ \E e \in Edges, o \in Optional(ForkOffsets), c \in Optional(ContentTypes) :
            fork_acquire(e, o, c)
    \/ \E e \in Edges : fork_release(e)
    \/ Restart
    \/ Tick

Spec == Init /\ [][Next]_vars

-----------------------------------------------------------------------------
(* Properties *)

(* Every row has its type, and no row, sample or generation is from the     *)
(* future: touch, append_message and create_meta write samples of the clock.*)
TypeOK ==
    /\ db \in Database
    /\ clock \in Nat /\ boot \in 0 .. clock /\ gens \in Nat
    /\ touches \subseteq Sampled
    /\ held \in [Edges -> Optional(Grant)]
    /\ \A i \in DOMAIN db.messages : db.messages[i].ts <= clock
    /\ db.meta # None => /\ db.meta.last_accessed_at <= clock
                         /\ db.meta.generation <= gens

(* purge leaves nothing of a stream behind: no message, dedup row or edge   *)
(* of one generation is there to meet the next.                             *)
NothingOutlivesMeta == db.meta = None => db = purge

By(d, p, i) == d.messages[i].by # None /\ d.messages[i].by.id = p

(* Message i is the last of producer p. *)
Latest(d, p, i) ==
    /\ i \in DOMAIN d.messages /\ By(d, p, i)
    /\ \A k \in i + 1 .. Len(d.messages) : ~By(d, p, k)

(* The producer state that message i left is older than its retention.      *)
Lapsed(i) == db.messages[i].ts + PRODUCER_STATE_TTL_MS < clock

Follows(new, old) ==
    \/ new.epoch = old.epoch /\ new.seq = old.seq + 1
    \/ new.epoch > old.epoch /\ new.seq = 0

(* A producer's messages are in the stream in the order it numbered them,   *)
(* with no gap and no repetition, whatever POSTs were retried, reordered or *)
(* delayed: a producer starts at 0, and each later message follows its      *)
(* previous one, unless handle_post had forgotten an idle producer.         *)
InOrderOnce ==
    \A p \in Producers : \A j \in DOMAIN db.messages :
        By(db, p, j) =>
            LET new == db.messages[j].by
            IN  \/ /\ new.seq = 0
                   /\ \A i \in 1 .. j - 1 : ~By(db, p, i)
                \/ \E i \in 1 .. j - 1 :
                       /\ By(db, p, i)
                       /\ \A k \in i + 1 .. j - 1 : ~By(db, p, k)
                       /\ \/ Follows(new, db.messages[i].by)
                          \/ new.seq = 0 /\ Lapsed(i)

(* While a stream is open, its producers table is the summary of its log    *)
(* that dedup relies on: a row holds the last epoch, seq and time of its    *)
(* producer, and a producer without a row has no message, or was idle for   *)
(* longer than the retention, whatever the bounded sweeps deleted and       *)
(* whatever older clocks the POSTs were stamped with.                       *)
DedupRemembers ==
    db.meta # None /\ ~db.meta.closed =>
        \A p \in Producers :
            \/ /\ db.producers[p] = None
               /\ \A i \in DOMAIN db.messages : ~By(db, p, i)
            \/ \E i \in DOMAIN db.messages :
                   /\ Latest(db, p, i)
                   /\ LET m == db.messages[i]
                      IN  IF db.producers[p] = None THEN Lapsed(i)
                          ELSE db.producers[p] = [epoch |-> m.by.epoch,
                                   last_seq |-> m.by.seq, last_updated |-> m.ts]

(* Stream-Seq values of accepted POSTs increase along the log, across       *)
(* producers, closes and POSTs without one.                                 *)
StreamSeqOrdered ==
    \A i, j \in DOMAIN db.messages :
        i < j /\ db.messages[i].stream_seq # None /\ db.messages[j].stream_seq # None
            => db.messages[i].stream_seq < db.messages[j].stream_seq

(* The retry of a POST that was committed is settled by its producer        *)
(* headers: 204 duplicate, or 403 when the producer has moved to a newer    *)
(* epoch; never a second append and never a Stream-Seq conflict with itself *)
(* (handle_post dedups first), while the producer's state is retained.      *)
RetrySettled ==
    \A i \in DOMAIN db.messages, now \in Sampled, close \in BOOLEAN :
        LET m == db.messages[i]
            d == visible_meta_while_locked(db, now)
            retained == \A k \in i .. Len(db.messages) :
                            By(db, m.by.id, k) => ~Lapsed(k)
            retry == [producer |-> m.by, stream_seq |-> m.stream_seq,
                      content_type |-> d.meta.content_type, size |-> 1,
                      close |-> close]
        IN  m.by # None /\ retained /\ Live(d) /\ ~d.meta.closed
                => post_reply(d, retry, now) \in {"duplicate", "stale_epoch"}

SameStream == /\ db.meta # None /\ db'.meta # None
              /\ db.meta.generation = db'.meta.generation

(* Once closed, a stream stays closed with the log it had, and the producer *)
(* that closed it stays its closer, so that its retry is answered as a      *)
(* success however often others close the stream again.                     *)
ClosedForGood ==
    [][SameStream /\ db.meta.closed =>
        /\ db'.meta.closed /\ db'.messages = db.messages
        /\ db'.meta.closed_by = db.meta.closed_by]_vars

(* A fork that was granted a reference and has not returned it keeps its    *)
(* source: the same generation, the edge as granted, and every offset up to *)
(* the fork offset, through DELETE, expiry and retried acquires.            *)
PinHolds ==
    \A e \in Edges :
        held[e] # None /\ ~held[e].returned =>
            /\ db.meta # None /\ db.meta.generation = held[e].generation
            /\ db.fork_edges[e] = held[e].fork_offset
            /\ held[e].fork_offset <= db.meta.current_offset

(* A soft-deleted stream, whose path nobody can reuse, exists only for an   *)
(* edge: the last fork_release removes it.                                  *)
NoZombie ==
    db.meta # None /\ db.meta.soft_deleted => fork_edge_count(db) > 0
=============================================================================
