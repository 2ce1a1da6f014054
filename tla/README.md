# Verification of rivet-durable-streams

TLA+ specifications of the durable-streams service in this repository, TLC
configurations that model-check them, and TLAPS proofs. One *stream* is one Rivet
actor with its own SQLite database; an HTTP facade routes a path to its actor.
Paths below are relative to the repository's `src/`, and "README" in section 5 is the
repository's own.

## 1. Inventory of the system

| component | state it keeps | operations | hard behaviour | what makes it correct |
|---|---|---|---|---|
| write path `actor/write.rs`, `store.rs` | `meta`, `messages`, `producers` rows | PUT, POST, close-only POST | `now` is sampled before the `lifecycle` mutex is taken; retries; closes that race appends | no append twice, no gap, Stream-Seq grows, a closed stream is final |
| producer fencing `actor/producer.rs` | `producers` rows, `meta.closed_by` | `validate_producer`, bounded sweep of idle rows | reordered and repeated POSTs, epochs, rows that expire | a producer's messages are in its order; a retry is settled |
| lifecycle `actor/lifecycle.rs` | `meta.soft_deleted`, `last_accessed_at`, `expires_at` | HEAD, DELETE, lazy expiry, touch | expiry found by any request; a touch that arrives late | a purge is complete; forks keep their source |
| reads `actor/read.rs` | `changes` watch channel, `readers` and `live_readers` semaphores | GET, long-poll, SSE, stitched reads | the batch and the meta row are read without the mutex; subscription against commit; timeout against commit; budgets over a chain of forks | in order, once, whole batches, no lost wake-up, a closed answer is the end |
| forks `actor/fork.rs` | `fork_edges`, `fork_intents`, `gc_releases` | fork PUT, `ForkAcquire`, `ForkRelease` | three databases, no common transaction; failed calls; crashes | a fork's source stays; no reference leaks; a fork begins where it says |
| maintenance `actor/maintenance.rs` | what is scheduled | `reconcile_fork_intents`, `flush_gc_releases`, expiry timers | runs overlap with the handlers and with each other; each timer is armed by the run before, which may fail | owed releases are made, intents settle, idle streams go |
| actor wiring `actor.rs` | the mutex, the semaphores, the channel | actions `Maintenance`, `ForkAcquire`, `ForkRelease`, `ReadRange` | a restart loses everything that is not in SQLite | |
| protocol helpers `protocol.rs` | none | offsets, TTL, JSON fragments, cursors, SSE framing | fragments joined and cut anywhere | a body is one JSON array |
| HTTP facade `facade.rs` | none | calls under a time limit, bounds, header bridge | 504 while the actor still commits | what is acknowledged is stored once |
| store schema `store.rs` | `user_version` | one migration, in one transaction with its version | | |
| `serverless_http.rs`, `main.rs`, `lib.rs`, `inspector/` | none of their own | transport, start-up, a read-only view | | |

Interactions. The facade resolves the actor of a path and calls its `fetch`; handlers
of one actor serialise on the `lifecycle` mutex, reads and maintenance run beside
them; a writer commits, then bumps the watch channel that live reads wait on. A child
actor calls `ForkAcquire`, `ForkRelease` and `ReadRange` of its source; a source never
calls its children. Maintenance is scheduled by handlers, by itself and by the start
of an actor.

## 2. Modules

| module | models | state correspondence |
|---|---|---|
| `DurableStream` | every handler of one actor that takes the mutex: PUT of a root stream, POST, close, DELETE, HEAD and lazy expiry, the touch of a read, `ForkAcquire` and `ForkRelease` at the source, a restart | `db` is the four tables; `clock` the time; `boot` the last start; `touches` the samples of reads under way; `held` (ghost) what children were granted |
| `IdempotentLog` | abstract: what a stream promises its writers, without tables, clocks or requests | `log` who wrote each entry, `status`, `forgotten` |
| `StreamIsLog` | the refinement mapping from `DurableStream` to `IdempotentLog` | |
| `ExpiryTimers` | extends `DurableStream`: what its handlers schedule, `run_maintenance`'s expiry part, crash and start | `schedule` is the runtime's, `creating` the PUT that still holds the mutex, `maintenance` each run under way: when it started, then the expiry it has seen; `missed` (ghost) says a run or a PUT failed before it could schedule |
| `ProducerSessions` | extends `DurableStream`: producer clients, the facade's calls with their 504s and 502s, the actor that executes them late | `client`, `calls`, `faults`; `committed` is history |
| `StreamReads` | one actor's GETs, long-polls and SSE sessions, query by query, against its writers | `meta` the committed row, `version` the channel, `notifying` the moment between commit and notification, `rd` each request's program counter and locals (a permit is held from before the mutex is asked for); `position`, `got`, `said` are the clients |
| `StitchedReads` | `read_stitched` over a chain of forks, call by call and query by query, against the streams; the message a fork at a sub-offset begins with | `meta`, `messages` the rows of each stream, `stack` the nested calls with the innermost last, `reply` the batch returned; `log` and `answer` are history |
| `Payloads` | the JSON of `protocol.rs`: fragments, joining, cutting at a sub-offset | pure operators |
| `ForkProtocol` | several actors: the handler under each mutex, any number of maintenance runs beside it, calls that fail, come late or twice, crashes | the four tables of each actor, `armed` the timer, `proc` and `call` the tasks and the calls they wait for, `late` the calls nobody waits for any more; `contested` (ghost) the edges asked for while another acquire of them could still take effect, or from a list of intents read before the intent was settled |
| `DurableStreamProofs`, `StreamIsLogProofs`, `ExpiryTimersProofs`, `ForkProtocolProofs`, `StreamReadsProofs`, `ProducerSessionsProofs`, `StitchedReadsProofs` | theorems and their proofs (section 6) | |
| `MCDurableStream`, `MCForkProtocol`, `MCStitchedReads`, `MCProducerSessions`, `MCExpiryTimers` | the instances TLC runs | |

`DurableStream` is the hub. `ExpiryTimers` and `ProducerSessions` compose it with the
runtime and with the clients: they use its handlers as they are. It gives the other
modules what they take for granted: a stream's log is complete up to its tail while
the row exists (so `StreamReads` counts a message by its offset), and a source with an
edge is not purged (so `StitchedReads` grants edges in one step).

A handler that holds the mutex through all its transactions is one action. What
the mutex does not cover is explicit: the time a handler uses is any
`now \in boot .. clock`, since `now_ms()` is called before `lifecycle.lock()`
(`write.rs` 75, 227, 329), and a maintenance run uses one taken between its start and
its look (`maintenance.rs` 31); a read's touch keeps its sample while others run; a read
holds its permit while it waits for the mutex (`read.rs` 445-448); in `StreamReads` and `StitchedReads` each SQL query is a step; in `ForkProtocol` each
call, reply and transaction is a step, and a crash may fall between any two; in
`ExpiryTimers` a PUT still holds the mutex after its commit, when it schedules the
expiry, and a maintenance run may be overtaken by handlers and by other runs before its
look and between its look and its timer.

### Assumptions

- Time does not run backwards (`now_ms` reads the system clock), and a restart
  comes later than every sample of the actor before it.
- A SQL statement does not fail. A failed transaction leaves the tables as they
  were, which is the same as the handler not running.
- What is scheduled with the runtime is run, at its time or later, and survives the
  actor; an actor that crashed is started again (`ExpiryTimers`). Without that a
  crash between the commit of a PUT and its `schedule_expiry` leaves an idle stream
  with nobody to look at it.
- Arming maintenance and the transaction it covers are one step in `ForkProtocol`:
  `MAINTENANCE_RETRY_MS` is far longer than a local transaction.
- What the runtime does with a call that failed is not visible here, so nothing is
  assumed of it: a call between actors may be delivered after its caller saw it fail or
  has crashed, or more than once, and the facade's calls, in `ProducerSessions`, are
  executed after their 504. In `ForkProtocol` a late call may also never be delivered.
- In `ForkProtocol` a maintenance run fails only by a call or a crash. That it ends with
  an error of its own before it schedules anything is `fails` in `ExpiryTimers`; for
  forks it amounts to a crash of that run, whose intents and releases stay in the tables.
- `reconcile_fork_intents` ends with a flush of its own, and `run_maintenance` flushes
  once more: `ForkProtocol` has one flush for the two, and another run does the second.
- In `StitchedReads` an edge is granted and returned in the step of its child; how
  that goes in messages is `ForkProtocol`.
- In `Payloads` a JSON value is one token whatever its text, and a length is a number
  of tokens. Array values of a body are flattened before they get there, as
  `process_json_append` does.
- Timeouts (`LONG_POLL_TIMEOUT_MS`, `MAX_SSE_LIFETIME_MS`, `actor_timeout`) may come
  at any time.
- `Message.by` and `.stream_seq` record the request of a row; the table itself
  holds its data. They are only read by the properties.
- Offsets in `DurableStream` are bytes as in `advance_offset` with a fixed framing
  of 5; a POST with several JSON values, whose messages are committed in the same
  transaction, is one message.
- A protocol-abiding client in `ProducerSessions` retries with the same headers, moves
  on after a success, and stops at any other answer of the actor.

## 3. Runs

| run | instance | question | bounds and why they are enough |
|---|---|---|---|
| `producers` | 2 producers, epochs 0-1, seqs 0-1, Stream-Seq 1, 2 or none, clock 0-1, 3 messages; writers only | are dedup, epochs, Stream-Seq and closing right for repeated, reordered and delayed POSTs, and is every handler an action of `IdempotentLog`? | a takeover by a newer epoch, a second message, a retry of either and an interleaved second producer need three messages; retention 0 makes rows lapse within one tick. Two Stream-Seq values let one come again, and a smaller one come after a greater. Reads and touches are left out (`WritesSpec`): without a TTL no handler looks at what they write. A sweep that stops short of some stale rows needs a third producer: `TableRemembersLog` covers it, for any number and any `SWEEP_LIMIT` |
| `lifecycle` | TTL 1, absolute expiry at 2, two edges, offsets within and beyond the tail, clock 0-2, 2 generations | is a purge complete, does an edge keep its source, does the last release remove it? | two generations let everything left behind meet a successor; two edges distinguish the last release from another |
| `expiry` | TTL 1 and absolute expiry at 1, requests up to time 1, clock 0-2, 2 generations, one edge, 2 runs at a time, one restart, one failed run, no POST accepted | is a stream with an expiry always looked at in time, and does it go when it is left alone? | a renewal (a close, a late touch), a restart, a failure, another run and a recreation may each fall between a timer and its run; every expiry is due by time 2, when the last timer chain ends. An accepted POST renews and schedules exactly as a close does |
| `sessions` | clients of two epochs of one producer and of another producer, two requests each, the last a POST, a closing POST or a close; 2 faults | is what is acknowledged stored exactly once, and does every client settle? | two faults leave a late call and its retry in the actor at once, beside a rival epoch and an anonymous close |
| `reads` | 1 client, all modes and starts, 2 messages, 2 generations, batches of one row | order, whole batches, wake-ups, closed answers | a batch of one row makes `capped` true with two messages; a second generation is enough to confuse it with the first |
| `reads_tail` | 2 clients, long-poll and SSE, one permit of each kind, 2 commits, fair | is a sleeping reader woken whoever has the permit, and does a session follow the tail without a timeout? | one permit and two readers is the smallest contention |
| `stitched` | a chain of three streams, messages of 1 or 3 values, sub-offsets 1 and 2, 2 rows and 4 tokens a batch, 3 generations, 3 messages, 2 steps of streams during one read | are stitched batches gapless and within their budgets, do forks at a sub-offset begin with the right values? | every level can hold a message; a message of 3 values (6 tokens) exceeds the budget and one of 1 (2 tokens) fits twice; two steps let a stream be deleted and created again under a read |
| `forks_live` | a root and its fork, one edge, 2 generations, 2 maintenance runs at a time, 2 faults (a failed call, a crash, a call delivered twice, a run nobody scheduled), fair | is every uncontested edge owned and its fork pinned? do releases, intents and soft-deleted sources drain? | the two runs and the creation may all ask for the edge; a fault and a second one at any point of the recovery; a call sent by a run that is gone meets its successors |
| `fork_chain` | leaf, fork, root; 3 edges, 3 generations, 2 fork offsets, a run of each fork, one fault | do releases cascade, with a fault anywhere in the cascade? do two intents of one stream, at different offsets, keep apart? | three streams are the shortest chain with a middle. It begins with the fork of the root in place (`Grown`), with or without an attempt of the leaf that failed and left its intent, its edge recorded or not: states that `Init` reaches by a PUT, a fork and a failed call, with that fault counted |
| `reads_skip`, `reads_closed`, `forks_race` | small | section 5 | |

`ForkProtocol`, `StitchedReads`, `ProducerSessions` and `ExpiryTimers` cfgs set
`CHECK_DEADLOCK FALSE`: clients may stop asking, and with its bounds used up the system
is at rest. All other runs check deadlock. Producers and edges are symmetric where
no liveness is checked: the code compares their ids only for equality (the id that
breaks a tie of the sweep is left open in the model).

Fairness.
- `StreamReads`: `notify_change` and the steps of a request that needs no outside
  event are weakly fair: straight-line async code of a task the executor polls.
  Starting a request, a timeout and a client that leaves are not.
- `ForkProtocol`: one weak fairness condition on the disjunction of the tasks that are
  ready, the calls (delivered or failed) and the armed maintenance: something of it
  happens as long as anything of it can. It need not be fair to each task: faults and
  generations are bounded and a maintenance is armed by a client or a fault, so a task
  that is left waiting is in the end the only one that can go on. Crashes, failures and
  clients are outside it, and so are late calls, which may be lost.
- `ProducerSessions`: one weak fairness condition on sending and executing: the actor
  gets to what it was asked, a client without an answer tries again. Faults are
  bounded.
- `ExpiryTimers`: time passes, and the upkeep (the end of a PUT, what is due, the steps
  of a maintenance run) goes on. Nothing a client does is fair, and no failure is.

## 4. Properties

- `DurableStream`: `InOrderOnce` (dedup, over epochs and retention), `DedupRemembers`
  (the producers table against the log), `StreamSeqOrdered`, `RetrySettled` (a
  committed POST that is retried is answered by its producer headers),
  `ClosedForGood`, `NothingOutlivesMeta`, `PinHolds`, `NoZombie`.
- `StreamIsLog`: `ImplementsLog`, the refinement.
- `ExpiryTimers`: `LookedAtInTime`, `IdleStreamsGo`.
- `ProducerSessions`: `AckedOnce`, `StoppedByOthers` (no gap or conflict of a client's
  own making), `SessionsSettle`.
- `StreamReads`: `InOrder`, `WholeBatches`, `NoLostWakeup`, `ClosedReadIsTheEnd`,
  `TailFollowed`.
- `StitchedReads`: `StitchedWhole`, `UncappedReachesTail`, `CappedAdvances`,
  `WithinBudget`, `BodyIsOneArray`, `SubOffsetOfSource`.
- `ForkProtocol`: `UncontestedOwned`, `UncontestedPinned`, `NoZombie`, `ReleasesDrain`,
  `IntentsSettle`, `ZombiesCollected`.

Each is stated in words above its definition. For each property, one *mutant* operator
sits before the definition it replaces: a plausible slip in that code which makes TLC
find the property violated.

## 5. Findings

1. `NothingSkipped` (run `reads_skip`). `read_snapshot` reads the batch and then
   the meta row again, without the mutex. With an empty batch the answer's
   `Stream-Next-Offset` is the later row's tail (`read.rs` 223-226, 388-393), so a
   POST that commits in between is skipped by the client that resumes there. The
   README promises that clients "reconnect without losing a token".
2. `ClosedIsTheEnd` (run `reads_closed`). The timeout branch of a long-poll pairs
   the tail of its start with the `closed` flag of its end (`read.rs` 173-183): the
   message that closed the stream may be behind the offset it says is the end.
3. `LiveForkPinned` (run `forks_race`). Maintenance reconciles an intent while
   `create_fork` is between its acquire and its transaction; the fork is created
   on a reference that maintenance releases. The comment in `fork.rs` 126-127 calls
   a stray maintenance event harmless.

The root of 3 is more general: `reconcile_fork_intents` acquires an edge again without
asking whether anybody else does. Two maintenance runs may overlap (`on_start` and any
number of timers, no lock in `maintenance.rs` 26-37), both list an intent, one settles it
and releases the edge, and the acquire of the other records the edge once more. When that
second acquire fails after its effect, or its actor crashes, no row is left to give the
edge back, and a soft-deleted source stays. A call that is delivered after its caller
gave up does the same. `contested` in `ForkProtocol` marks the edges this can happen to,
at the acquire that begins it: one sent while another acquire of the edge may still take
effect or is not yet acted on, or one made from a list whose intent is settled by then.
What `UncontestedOwned` and `UncontestedPinned` say of all other edges, and
`ZombiesCollected` of executions without such edges, therefore is: this overlap is the
only way to leak or lose a reference, whatever calls fail and whenever actors crash.

Observed while modelling and claimed by no document: an expired stream that forks still
pin arms one more maintenance each time it is looked at (`lifecycle.rs` 62), so its
timers do not die out before its last fork goes; the retry of a committed POST is
answered 409 when another client has closed the stream meanwhile (`write.rs` 235,
which `StoppedByOthers` allows for any but the closing request).

## 6. Proofs

The constants are assumed to be what the code gives them, no more:

| module | assumptions |
|---|---|
| `DurableStream` | `NumbersAreNaturals`, `FiniteRows` (finitely many edges), `NoneIsNoNumber` and `NoneIsNoRow` (SQL NULL is not a value), `NoneIsNoName` |
| `ExpiryTimers` | `TimesAreNaturals` (a retry is not immediate) |
| `ProducerSessions` | `SessionsAreProducers` (clients are epochs of producers, their numbers begin at 0, the last request is a POST or a close of size 1; there is a content type) |
| `StreamReads` | `BoundsAreNaturals`, `RequestsAreReads` (modes and starts are those of a GET), `NoneIsNoRow` |
| `ForkProtocol` | `BoundsAreNaturals`, `NoneIsNoRow`, `ForksAreStreams` (a fork and its source are streams) |
| `StitchedReads` | `LimitsArePositive` (a read may take a row and a byte; a POST has a value, a sub-offset is positive; a source is a stream), `NoneIsNoValue` |

A theorem holds for every value that meets them: any number of clients, producers,
streams and generations, and any bound of the exploration.

| theorem | property | in words |
|---|---|---|
| `TypeCorrect` | `TypeOK` | rows are well typed and nothing is from the future |
| `ForksKeepTheirSource` | `PinHolds` | a granted edge keeps its source until it is returned |
| `PurgesAreComplete` | `NothingOutlivesMeta` | no row survives the meta row |
| `LastReleasePurges` | `NoZombie` | a soft-deleted stream has an edge |
| `ClosedStaysClosed` | `ClosedForGood` | a closed stream and its closer are final |
| `StreamSeqIncreases` | `StreamSeqOrdered` | accepted Stream-Seq values grow |
| `ProducersWriteInOrder` | `InOrderOnce` | a producer's messages: in order, no gap, no repetition |
| `TableRemembersLog` | `DedupRemembers` | the producers table summarises the log |
| `RetriesAreSettled` | `RetrySettled` | a retried POST is a duplicate or of a stale epoch |
| `StreamImplementsLog` | `ImplementsLog` | the stream actor implements the idempotent log |
| `TimersAreADurableStream` | | with its timers an actor is still the actor of `DurableStream`: all of the above holds of it |
| `StreamsAreLookedAt` | `LookedAtInTime` | a stream with an expiry always has somebody who will look at it in time, unless a run or a PUT failed to schedule |
| `TimersKeepTheLog` | `ImplementsLog` | with its timers an actor still implements the idempotent log: timers that fire, are lost and are armed again take nothing out of a log |
| `AcknowledgedOnce` | `AckedOnce` | what a client was told is committed is in the log, once |
| `ClientsStoppedByOthers` | `StoppedByOthers` | a client is stopped by a newer epoch or another's close only: never by a gap or a conflict of its own making |
| `SessionsWriteInOrder` | `InOrderOnce`, `DedupRemembers` | with 504s, lost answers and late calls between them, the clients' messages are in their order, once |
| `SessionsWriteALog` | | all that clients, facade and restarts do to a stream is, step by step, what `IdempotentLog` allows |
| `ReadsTypeCorrect` | `TypeOK` of `StreamReads` | |
| `NoWakeupIsLost` | `NoLostWakeup` | a live read does not sleep on a commit it has not seen |
| `ClientsReadInOrder` | `InOrder` | a client that resumes where it was told gets the log in order |
| `ClosedAnswersNameTheEnd` | `ClosedReadIsTheEnd` | an answer that says closed, other than a timeout's, ends at the end |
| `BatchesAreWhole` | `WholeBatches` | a batch is what the log has between its ends |
| `ForksTypeCorrect` | `TypeOK` of `ForkProtocol` | |
| `ZombiesHaveEdges` | `NoZombie` of `ForkProtocol` | a soft-deleted source has an edge |
| `EdgesAreOwned` | `UncontestedOwned` | an edge no acquire overlapped on is answered for by a row of its child, through failed, late and repeated calls, overlapping maintenance and crashes |
| `ForksArePinned` | `UncontestedPinned` | a fork whose edge no acquire overlapped on has it at a source of the right generation, under the same faults |
| `StitchedTypeCorrect` | `TypeOK` of `StitchedReads` | calls of a read carry what `ReadRange` may be given; rows are their generation's, beyond the fork offset |
| `BatchesAreStitchedWhole` | `StitchedWhole` | a batch stitched over a chain of any depth is a gapless, ordered run of one generation's history, from the offset asked for |
| `UncappedBatchesReachTheTail` | `UncappedReachesTail` | a batch that does not say it was cut short reaches the tail |
| `CappedBatchesAdvance` | `CappedAdvances` | one that was cut short holds a message |
| `BatchesAreWithinBudget` | `WithinBudget` | all levels together keep to the limit and the budget of one read |
| `SubOffsetsAreOfTheSource` | `SubOffsetOfSource` | a fork at a sub-offset begins with that many values of its source's next message |
| `BodiesAreOneArray` | `BodyIsOneArray` | the body of a stitched batch is one JSON array of exactly the values of its messages |
| `FragmentsJoin` | | however values are divided among POSTs, their fragments join to one array of all of them |

The argument.

- *Types.* `DbOK(d, c, g)` is `TypeOK` of one database at a time and a generation.
  Each operator of the model keeps it; `TypeStep` goes through the handlers.
- *Life cycle.* `PinHolds` is not inductive alone: an edge may belong to a stream
  that is soft-deleted, expired or purged meanwhile. `LifecycleInv` adds `Sound(db)`:
  without a meta row the database is `purge`, a soft-deleted row is referenced, and
  no edge is beyond the tail. With it an expiry, a DELETE and a last release can only
  remove a stream no edge is recorded for, and offsets only grow (`Continues`).
- *Effects.* `PostEffect`, `CloseEffect` and `Created` say what an accepted POST, a
  close and a creating PUT write. `StepCases` then sorts every step: the log is left
  alone or purged, begun, appended to, or closed. The theorems about the log
  are proved by these four cases instead of eleven handlers.
- *Stream-Seq.* `SeqBounded` (last_seq is the greatest of the log) is the
  strengthening that makes `StreamSeqOrdered` inductive.
- *Dedup.* `DedupOK(db, clock)` says three things of each producer. `Remembered`:
  while the stream is open its row is its latest message, or both the row and the
  retention are gone. `Accounted`: each message follows the one before, or that one
  had lapsed. `Ordered`: between messages that have not lapsed, (epoch, seq) grows.
  The delicate part is a POST with an older clock: it judges rows stale against
  its own `now`, so a row it deletes is stale for the present too, and never the other
  way round (`AcceptedFollows`, `DedupBystander`); `DedupLater` says that time
  only makes more of the log lapse. `RetrySettled` follows: a retained message has a
  row that is at or beyond it.
- *Refinement.* `log` is the writers of the messages, `status` is read off the meta row,
  and `forgotten` are the producers whose latest message has lapsed: the one thing the
  abstract log has to know of time. Each of the four cases is one abstract action or a
  stutter; that an appended entry is `Expected` is `AcceptedFollows` again, and a
  passing tick is `Forget`.
- *Timers.* `TimersStep` shows that each action of `ExpiryTimers` is one of
  `DurableStream` or leaves its variables alone, so `LifecycleInv` carries over.
  `LookedAtInTime` is inductive once the times in it are known to be numbers
  (`LookInv`): a handler that hands out no generation only adds to the schedule and
  never brings the latest possible expiry forward (`StillInTime`: TTL and absolute
  expiry are never rewritten, `SameExpiry`, and time only advances); a new generation
  is `creating`; a look replaces the timer that was used up, whichever of the runs it is (`ExpiryOfRow`: the expiry
  of a row is no later than the latest it can be, as no row is from the future). A run
  or a PUT that fails breaks the chain, and the property says so (`missed`) until the
  actor starts again or a stream is created.
- *Sessions.* In this composition the clock does not tick, so nothing is forgotten
  (`AtRest`), and the history `committed` stands between the actor and its clients. On
  the actor's side the producers table (`Rows`), the log (`Logged`) and the closer
  (`Ends`) are exactly what was committed; on the clients' side a number lower than a
  client's own is committed (`Progress`), and a call has the headers its client had
  when it sent it (`Underway`, `OneListens`). A retry that overtakes or follows the
  call it repeats is then a duplicate by `Rows`, whatever became of the first answer.
  What reaches the actor is among the requests its handlers know (`SessionsAsk`: the
  headers of a call are its client's, its content type the stream's), and what the
  facade and the clients do besides leaves the stream alone. So `LifecycleInv`, `DedupOK`
  and the steps of the refinement carry over to this composition, as they do to the
  timers; that an initial stream is one a PUT created is `SessionsBegin`.
- *Reads.* What keeps a live read from sleeping is `Current`: as long as the channel
  has not moved since the read subscribed and no writer is between its commit and its
  notification (`Unseen`), what it knows of the stream is true. For the order, a message
  is counted by its offset: `Received` says that whatever a client has of the present
  generation lies at or below its position, `Fetched` that a batch is a run of one
  generation that begins right after the offset asked for, and `Past` that a row seen
  earlier in the same generation has been appended to, at most. That a strictly
  increasing sequence of a run lists it without a hole is a counting argument
  (`RunInOrder`). Nothing is claimed here of what findings 1 and 2 are about: that no
  message is behind the position unsent, and what a timeout's 204 says.
- *Forks.* The argument is about one edge at a time. An edge that was handed out has
  one child and one source, whatever names it; exactly one of an intent, a pending
  release and the meta row of the child answers for it (`RowInv`). A task acquires it
  only under the intent, gives it back only when nothing needs it any more, and only
  to the generation that recorded it; and what a call has found still holds when its
  caller reads the answer (`TaskInv`). Failed calls and crashes keep this because a row
  that answers for an edge is replaced by another in one transaction, and dropped only
  after the source has confirmed. All of it needs that one acquire of
  the edge at a time is on its way or not yet acted on (`Alone`), which is what an edge
  that is not in `contested` has. A call that nobody waits for any more is bound by the
  same facts as one that is waited for (`LateInv`): an acquire still has its intent
  behind it, and a release finds that nothing needs the edge.
- *Stitched reads.* `StoreInv` says what the rows mean: a stream's own rows are its
  generation's history beyond the fork offset, and up to there its history is its
  source's, which is still the generation it was forked from. A call has been asked for
  one generation's messages in a range, within a limit and a budget; it asks its source
  for exactly the inherited part of that (`SourceAsked`), and what is returned is good
  for whoever asked (`Good`, `Serves`), at any depth. Steps of the streams disturb no
  call: what a level reads is pinned by the row of the level above (`LevelsKept`), and an
  append lies beyond everything a call can have been asked for (`WithinGrows`). The
  outermost stream is not pinned, so all of this holds only while it is the generation
  the request began with (`Fresh`): the comparison `read_snapshot` makes before it
  answers is needed, and enough. Sums of bytes and the order of rows are facts about
  every number, proved at the least number they would fail for (`Least`, `Upward`).
- *Sub-offsets.* What `create_fork` reads is the first message beyond the fork offset,
  since a batch has no hole at its beginning (`HeadIsFirst`). All data alternate between
  values and commas (`AllAlternate`), so what is parsed of a message are its values, and
  the first `n` of them are the first `2 * n` tokens (`PrefixCut`). Both first messages stay the
  first ones: appends come after the tail, and the fork pins its source (`FirstKept`).
- *Bodies.* `Pairs(d, v)` says that the tokens `d` are the values `v` with a comma behind
  each. The data of a message are such a `d`, be they posted (`PostPairs`) or cut off by
  a sub-offset (`AllAlternate`, `PairsOfOne`); joining keeps it (`PairsConcat`), and so
  does flattening any number of them (`FlattenedPairs`): `FlattenSeq` is a recursive
  function, and `Runs` lists the values it takes one by one, which exist by `Upward`.
  Taking one comma off the end of such a `d` leaves an array of exactly `v`
  (`ArrayOfPairs`). Were the comma taken off each fragment instead, as in the mutant, the
  second of these steps would fail.

TLC checks every property of the table, and checked every inductive invariant before it
was proved, on the runs of section 3.

Only model-checked: the six liveness properties (`TailFollowed`, `ReleasesDrain`,
`IntentsSettle`, `ZombiesCollected`, `SessionsSettle`, `IdleStreamsGo`), since fairness
and `ENABLED` are out of the prover's reach. Every invariant and every action property
that a passing run checks is a theorem.

## 7. Not modelled, and the plan

Models that could be added: a chain of maintenance runs that meets more than 64 failing
releases (`store.rs` 536, beyond any bound TLC can take as it stands); fork intents and
expiry timers in one composition (here a failure of the one ends the run of the other as
the nondeterministic `fails`).

Left out:

- Offset text, cursors and SSE framing of `protocol.rs`: conversions character by
  character. Offsets are compared as text of 16 digits; an overflow is 10^16 bytes
  away, and `advance_offset` is modelled by its sum.
- ETags and cache headers: they change no state, and nothing in the repository says
  what the ETag of a recreated path is.
- The schema: there is one migration, run in one transaction with its version.
- Body limits, header bridging and CORS of the facade, `serverless_http.rs`,
  `main.rs`, `lib.rs`: no state of their own. The inspector is a read-only view.
