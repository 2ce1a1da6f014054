---------------------------- MODULE StreamReads ----------------------------
(***************************************************************************)
(* The reads of one stream actor against its writers: catch-up GETs,       *)
(* long-polls and SSE sessions.  A read takes the lifecycle mutex only to  *)
(* look at the meta row (visible_meta) and to touch it at the end; the     *)
(* queries of the batch and of the final meta row run without it, each     *)
(* against whatever is committed at that moment.  A writer commits and     *)
(* then notifies the watch channel before it lets the mutex go.            *)
(* The log is append only and complete from offset 1 to its tail while the *)
(* meta row exists (DurableStream), so a message is its generation and its *)
(* offset, counted in messages.  The client asks from the offset it was    *)
(* last told.                                                              *)
(***************************************************************************)
EXTENDS Integers, Sequences, FiniteSetsExt

CONSTANTS
    Readers,
    MAX_READ_ROWS,          \* messages in one batch
    MAX_CONCURRENT_READS,   \* permits of the `readers` semaphore
    MAX_LIVE_READERS,       \* permits of the `live_readers` semaphore
    Modes,                  \* the reads clients make: "get", "long-poll", "sse"
    Starts,                 \* where they start: "position", "now"
    None,
    MaxTail, MaxGeneration, MaxCommits      \* bounds of the exploration

ASSUME BoundsAreNaturals ==
    /\ MAX_READ_ROWS \in Nat \ {0} /\ MAX_CONCURRENT_READS \in Nat \ {0}
    /\ MAX_LIVE_READERS \in Nat
    /\ MaxTail \in Nat /\ MaxGeneration \in Nat /\ MaxCommits \in Nat

ASSUME RequestsAreReads ==
    Modes \subseteq {"get", "long-poll", "sse"} /\ Starts \subseteq {"position", "now"}

VARIABLES
    meta,       \* the committed meta row
    version,    \* the value of the watch channel `changes`
    notifying,  \* a writer has committed, holds the mutex and has not notified
    commits,    \* commits so far
    gens,       \* generations handed out so far
    rd,         \* what each reader's request is doing
    position,   \* the offset each client resumes from
    got,        \* the messages each client was sent, in order
    said        \* the last answer each client got

vars == <<meta, version, notifying, commits, gens, rd, position, got, said>>

Row == [generation : 1 .. MaxGeneration, tail : 0 .. MaxTail,
        closed : BOOLEAN, soft_deleted : BOOLEAN]
Delivered == [generation : 1 .. MaxGeneration, offset : 1 .. MaxTail]
Answer == [generation : 1 .. MaxGeneration, offset : 0 .. MaxTail, closed : BOOLEAN,
           via : {"read", "timeout"}]

ASSUME NoneIsNoRow == None \notin Row \union Answer

Request == [pc : {"idle", "position", "now", "subscribe", "permit", "visible", "lengths",
                  "rows", "fresh", "touch", "wait"},
            mode : {"get", "long-poll", "sse"}, seen : Nat, after : 0 .. MaxTail,
            initial : Row \union {None}, woken : BOOLEAN,
            snapshot : Row \union {None}, upto : Nat, batch : SUBSET Delivered,
            capped : BOOLEAN]

Idle == [pc |-> "idle", mode |-> "get", seen |-> 0, after |-> 0, initial |-> None,
         woken |-> FALSE, snapshot |-> None, upto |-> 0, batch |-> {}, capped |-> FALSE]

Init ==
    /\ meta = None /\ version = 0 /\ notifying = FALSE /\ commits = 0 /\ gens = 0
    /\ rd = [r \in Readers |-> Idle]
    /\ position = [r \in Readers |-> 0]
    /\ got = [r \in Readers |-> <<>>]
    /\ said = [r \in Readers |-> None]

clients == <<position, got, said>>

-----------------------------------------------------------------------------
(* The writers: one transaction each, then the notification. *)

commit(row) ==
    /\ ~notifying /\ commits < MaxCommits
    /\ meta' = row /\ notifying' = TRUE /\ commits' = commits + 1
    /\ UNCHANGED <<version, rd, clients>>

handle_put ==
    \E first \in {0, 1}, closed \in BOOLEAN :
        /\ meta = None /\ gens < MaxGeneration /\ first <= MaxTail
        /\ gens' = gens + 1
        /\ commit([generation |-> gens', tail |-> first, closed |-> closed,
                   soft_deleted |-> FALSE])

handle_post ==
    \E close \in BOOLEAN :
        /\ meta # None /\ ~meta.soft_deleted /\ ~meta.closed /\ meta.tail < MaxTail
        /\ gens' = gens
        /\ commit([meta EXCEPT !.tail = @ + 1, !.closed = close])

handle_close_only ==
    /\ meta # None /\ ~meta.soft_deleted
    /\ gens' = gens
    /\ commit([meta EXCEPT !.closed = TRUE])

(* DELETE or expiry: with fork edges the row is only marked. *)
retire ==
    /\ meta # None /\ ~meta.soft_deleted
    /\ gens' = gens
    /\ \E row \in {None, [meta EXCEPT !.soft_deleted = TRUE]} : commit(row)

(* Releasing an edge notifies too; the last one of a soft-deleted stream    *)
(* purges it.                                                               *)
fork_release ==
    /\ meta # None
    /\ gens' = gens
    /\ \/ commit(meta)
       \/ meta.soft_deleted /\ commit(None)

notify_change ==
    /\ notifying /\ notifying' = FALSE
    /\ version' = version + 1
    /\ UNCHANGED <<meta, commits, gens, rd, clients>>

-----------------------------------------------------------------------------
(* read_snapshot *)

reading == {r \in Readers : rd[r].pc \in {"visible", "lengths", "rows", "fresh", "touch"}}

stored_messages(after, cap) ==
    IF meta = None THEN {}
    ELSE {[generation |-> meta.generation, offset |-> i] :
              i \in {n \in 1 .. meta.tail : after < n /\ n <= cap}}

(* The answer read_snapshot has become impossible: a GET fails or is a 404, *)
(* an SSE session ends.                                                     *)
give_up(r) ==
    /\ rd' = [rd EXCEPT ![r] = Idle]
    /\ UNCHANGED clients

(* The permit, or none and an error...                                      *)
try_acquire(r) ==
    /\ rd[r].pc = "permit"
    /\ IF Cardinality(reading) < MAX_CONCURRENT_READS
         THEN rd' = [rd EXCEPT ![r].pc = "visible"] /\ UNCHANGED clients
         ELSE give_up(r)

(* ...held from then on; the meta row, under the mutex.                     *)
read_visible(r) ==
    /\ rd[r].pc = "visible" /\ ~notifying
    /\ IF meta # None /\ meta.generation = rd[r].initial.generation
         THEN /\ rd' = [rd EXCEPT ![r].pc = "lengths", ![r].snapshot = meta]
              /\ UNCHANGED clients
         ELSE give_up(r)

(* read_messages_range, the first query: how far the batch may go.          *)
read_lengths(r) ==
    LET found == stored_messages(rd[r].after, MaxTail)
        capped == Cardinality(found) > MAX_READ_ROWS
        selected == IF capped THEN MAX_READ_ROWS ELSE Cardinality(found)
    IN  /\ rd[r].pc = "lengths"
        /\ rd' = [rd EXCEPT ![r].pc = IF found = {} THEN "fresh" ELSE "rows",
                            ![r].upto = rd[r].after + selected,
                            ![r].capped = capped, ![r].batch = {}]
        /\ UNCHANGED clients

(* ...the second query: the rows themselves. *)
read_rows(r) ==
    /\ rd[r].pc = "rows"
    /\ rd' = [rd EXCEPT ![r].pc = "fresh",
                        ![r].batch = stored_messages(rd[r].after, rd[r].upto)]
    /\ UNCHANGED clients

(* Mutant: the meta row is not read again after the batch. *)
read_fresh_trusting(r) ==
    /\ rd[r].pc = "fresh"
    /\ rd' = [rd EXCEPT ![r].pc = "touch"]
    /\ UNCHANGED clients

(* The meta row again, without the mutex: the one the answer describes.     *)
read_fresh(r) ==
    /\ rd[r].pc = "fresh"
    /\ IF meta # None /\ meta.generation = rd[r].snapshot.generation
         THEN /\ rd' = [rd EXCEPT ![r].pc = "touch", ![r].snapshot = meta]
              /\ UNCHANGED clients
         ELSE give_up(r)

-----------------------------------------------------------------------------
(* The answers *)

(* Mutant: the answer names the offset after its last message.              *)
next_offset_past(q) ==
    IF q.batch = {} THEN q.snapshot.tail ELSE 1 + Max({m.offset : m \in q.batch})

(* Stream-Next-Offset of the answer: the last message sent, else the tail.  *)
next_offset(q) ==
    IF q.batch = {} THEN q.snapshot.tail ELSE Max({m.offset : m \in q.batch})

at_tail(q) == ~q.capped /\ next_offset(q) = q.snapshot.tail

(* Mutant: Stream-Closed is the meta row's, wherever the batch ends. *)
answer_closed_anywhere(q) == q.snapshot.closed

answer_closed(q) == q.snapshot.closed /\ at_tail(q)

Tell(r, generation, offset, closed, via) ==
    /\ position' = [position EXCEPT ![r] = offset]
    /\ said' = [said EXCEPT ![r] = [generation |-> generation, offset |-> offset,
                                    closed |-> closed, via |-> via]]

(* ORDER BY msg_offset ASC *)
ordered(batch) ==
    CHOOSE s \in [1 .. Cardinality(batch) -> batch] :
        \A i, j \in DOMAIN s : i < j => s[i].offset < s[j].offset

Send(r) ==
    LET q == rd[r]
    IN  /\ Tell(r, q.snapshot.generation, next_offset(q), answer_closed(q), "read")
        /\ got' = [got EXCEPT ![r] = @ \o ordered(q.batch)]

(* Mutant: the reader only watches for changes from now on. *)
await_from_now(r, after) ==
    rd' = [rd EXCEPT ![r].pc = "wait", ![r].after = after, ![r].seen = version]

await(r, after) ==
    rd' = [rd EXCEPT ![r].pc = "wait", ![r].after = after]

(* The touch, and then the answer: build_read_response.  A long-poll that   *)
(* was at the tail it first saw, and found nothing, waits instead.          *)
answer_get(r) ==
    LET q == rd[r]
        caught_up == q.after = q.initial.tail
    IN  /\ q.pc = "touch" /\ q.mode # "sse" /\ ~notifying
        /\ IF /\ q.mode = "long-poll" /\ ~q.woken /\ caught_up
              /\ q.batch = {} /\ ~q.snapshot.closed
             THEN await(r, q.after) /\ UNCHANGED clients
             ELSE rd' = [rd EXCEPT ![r] = Idle] /\ Send(r)

(* Mutant: a frame is sent again after the next change. *)
resume_from_after(q) == q.after

resume_from(q) == next_offset(q)

(* pump_sse sends a data and a control frame, ends at a closed tail, reads  *)
(* on when the batch was capped, ends at MAX_SSE_LIFETIME_MS, or waits.     *)
answer_sse(r) ==
    LET q == rd[r]
    IN  /\ q.pc = "touch" /\ q.mode = "sse" /\ ~notifying
        /\ Send(r)
        /\ \/ answer_closed(q) /\ rd' = [rd EXCEPT ![r] = Idle]
           \/ /\ ~answer_closed(q) /\ q.capped
              /\ rd' = [rd EXCEPT ![r].pc = "permit", ![r].after = resume_from(q)]
           \/ ~answer_closed(q) /\ ~q.capped /\ await(r, resume_from(q))

-----------------------------------------------------------------------------
(* The requests *)

(* A GET subscribes before it looks at the stream; SSE does so in its pump. *)
start(r) ==
    \E mode \in Modes, from \in Starts :
        /\ rd[r].pc = "idle"
        /\ rd' = [rd EXCEPT ![r] = [Idle EXCEPT !.pc = from, !.mode = mode,
                                                !.seen = version]]
        /\ UNCHANGED clients

live_readers == {r \in Readers : rd[r].mode = "sse" /\
                                 rd[r].pc \notin {"idle", "position", "now"}}

handle_get(r) ==
    LET q == rd[r]
        offset == IF q.pc = "now" THEN meta.tail ELSE position[r]
        gone == meta = None \/ meta.soft_deleted
        full == q.mode = "sse" /\ Cardinality(live_readers) >= MAX_LIVE_READERS
    IN  /\ q.pc \in {"position", "now"} /\ ~notifying
        /\ IF gone \/ full THEN give_up(r)
           ELSE IF q.pc = "now" /\ q.mode = "get"
             THEN /\ rd' = [rd EXCEPT ![r] = Idle]
                  /\ Tell(r, meta.generation, meta.tail, meta.closed, "read")
                  /\ got' = got
             ELSE /\ rd' = [rd EXCEPT ![r].pc = IF q.mode = "sse" THEN "subscribe"
                                                ELSE "permit",
                                      ![r].initial = meta, ![r].after = offset]
                  /\ UNCHANGED clients

subscribe(r) ==
    /\ rd[r].pc = "subscribe"
    /\ rd' = [rd EXCEPT ![r].pc = "permit", ![r].seen = version]
    /\ UNCHANGED clients

(* changes.changed() marks the version as seen. *)
wake(r) ==
    /\ rd[r].pc = "wait" /\ version # rd[r].seen
    /\ rd' = [rd EXCEPT ![r].pc = "permit", ![r].seen = version, ![r].woken = TRUE]
    /\ UNCHANGED clients

(* LONG_POLL_TIMEOUT_MS: a long-poll answers 204 with the tail it first saw *)
(* and the closed flag of the moment; SSE reads again.                      *)
timeout(r) ==
    /\ rd[r].pc = "wait"
    /\ IF rd[r].mode = "sse"
         THEN rd' = [rd EXCEPT ![r].pc = "permit"] /\ UNCHANGED clients
         ELSE /\ rd' = [rd EXCEPT ![r] = Idle]
              /\ Tell(r, rd[r].initial.generation, rd[r].initial.tail,
                      meta # None /\ meta.closed, "timeout")
              /\ got' = got

(* The client goes away, or MAX_SSE_LIFETIME_MS is over. *)
hang_up(r) == rd[r].pc # "idle" /\ give_up(r)

(* A new actor has a new channel, and no reader.                            *)
Restart ==
    /\ version > 0 \/ notifying
    /\ version' = 0 /\ notifying' = FALSE
    /\ rd' = [r \in Readers |-> Idle]
    /\ UNCHANGED <<meta, commits, gens, clients>>

Read(r) ==
    /\ \/ handle_get(r) \/ subscribe(r) \/ try_acquire(r) \/ read_visible(r)
       \/ read_lengths(r) \/ read_rows(r) \/ read_fresh(r)
       \/ answer_get(r) \/ answer_sse(r) \/ wake(r)
    /\ UNCHANGED <<meta, version, notifying, commits, gens>>

Outside(r) ==
    /\ start(r) \/ timeout(r) \/ hang_up(r)
    /\ UNCHANGED <<meta, version, notifying, commits, gens>>

Next ==
    \/ handle_put \/ handle_post \/ handle_close_only \/ retire \/ fork_release
    \/ notify_change
    \/ Restart
    \/ \E r \in Readers : Read(r) \/ Outside(r)

Spec == Init /\ [][Next]_vars

(* A writer that committed notifies, and a request that can go on does.     *)
FairSpec == Spec /\ WF_vars(notify_change) /\ \A r \in Readers : WF_vars(Read(r))

-----------------------------------------------------------------------------
(* Properties *)

TypeOK ==
    /\ meta \in Row \union {None} /\ version \in Nat /\ notifying \in BOOLEAN
    /\ commits \in 0 .. MaxCommits /\ gens \in 0 .. MaxGeneration
    /\ rd \in [Readers -> Request]
    /\ position \in [Readers -> 0 .. MaxTail]
    /\ got \in [Readers -> Seq(Delivered)]
    /\ said \in [Readers -> Answer \union {None}]

(* What an answer sends is the run of messages right after the offset it    *)
(* was asked for, all of the generation the request began with: the two     *)
(* queries of read_messages_range may run on either side of a delete and a  *)
(* recreate, and then the answer is given up.                               *)
WholeBatches ==
    [][\A r \in Readers :
        \A i \in Len(got[r]) + 1 .. Len(got'[r]) :
            got'[r][i] = [generation |-> rd[r].initial.generation,
                          offset |-> rd[r].after + i - Len(got[r])]]_vars

(* A client that always asks from the offset it was told gets no message of *)
(* a generation twice or out of order, over any mix of reads and sessions.  *)
InOrder ==
    \A r \in Readers : \A i, j \in DOMAIN got[r] :
        i < j /\ got[r][i].generation = got[r][j].generation
            => got[r][i].offset < got[r][j].offset

(* A reader that sleeps has nothing to read, or is about to be woken: no    *)
(* commit falls between its subscription and its snapshot unseen.           *)
NoLostWakeup ==
    \A r \in Readers :
        rd[r].pc = "wait" =>
            \/ notifying \/ version # rd[r].seen
            \/ /\ meta # None /\ meta.generation = rd[r].initial.generation
               /\ meta.tail = rd[r].after /\ ~meta.closed

ClosedSaid(r) ==
    /\ said[r] # None /\ said[r].closed
    /\ meta # None /\ meta.generation = said[r].generation

(* Stream-Closed (or streamClosed) in an answer that read the stream means  *)
(* that the stream ends at the offset of that answer, even when the append  *)
(* that closed it was committed between the queries of that read.           *)
ClosedReadIsTheEnd ==
    \A r \in Readers : ClosedSaid(r) /\ said[r].via = "read"
        => meta.closed /\ said[r].offset = meta.tail

(* The same of every answer: the 204 of a long-poll that timed out pairs    *)
(* the tail of its start with the closed flag of its end (read.rs 173-183). *)
ClosedIsTheEnd ==
    \A r \in Readers : ClosedSaid(r) => said[r].offset = meta.tail

(* A client that reads from the start was sent every message before the     *)
(* offset it was told to resume from (README: "resume from where they left  *)
(* off", "reconnect without losing a token").                               *)
NothingSkipped ==
    \A r \in Readers : \A i \in 1 .. position[r] :
        \E k \in DOMAIN got[r] : got[r][k].offset = i

(* An SSE session that stays up is told of every commit: it reaches the     *)
(* tail, or ends with the stream, without any timeout's help.               *)
TailFollowed ==
    \A r \in Readers, n \in 1 .. MaxTail :
        (rd[r].mode = "sse" /\ rd[r].pc = "wait" /\ meta # None /\ meta.tail = n)
            ~> (position[r] >= n \/ rd[r].pc = "idle" \/ meta = None \/ meta.tail < n)
=============================================================================
