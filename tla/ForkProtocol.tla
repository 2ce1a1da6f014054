---------------------------- MODULE ForkProtocol ----------------------------
(***************************************************************************)
(* Forks between stream actors.  A child that is created as a fork takes a *)
(* reference (an edge) on its source by a ForkAcquire call, and gives it   *)
(* back by a ForkRelease call; a persisted intent covers the time before   *)
(* its own meta row exists, a persisted release the time after it is gone. *)
(* Each actor runs one handler at a time under its lifecycle mutex (PUT,   *)
(* DELETE, an expiry, the two calls), and beside it, WITHOUT the mutex,    *)
(* any number of maintenance runs.  Calls may fail before or after they    *)
(* took effect, or be delivered when nobody waits for them any more, and   *)
(* actors may crash between any two transactions.  Arming the maintenance  *)
(* timer and the transaction it covers are one step: MAINTENANCE_RETRY_MS  *)
(* is longer than a local transaction.                                     *)
(***************************************************************************)
EXTENDS Integers, FiniteSets

CONSTANTS
    Streams,
    Forks,          \* the pairs <<child, source>> that clients ask for
    Offsets,        \* and the fork offsets
    Runs,           \* the maintenance runs <<stream, name>> there may be at a time
    None,
    MaxEdges, MaxGeneration, MaxFaults      \* bounds

ASSUME ForksAreStreams == Forks \subseteq Streams \X Streams
ASSUME BoundsAreNaturals == MaxEdges \in Nat /\ MaxGeneration \in Nat

VARIABLES
    meta,           \* meta row of each stream
    fork_edges,     \* references each stream has recorded
    fork_intents,   \* acquisitions each stream may have made
    gc_releases,    \* references each stream still has to give back
    armed,          \* a Maintenance action is scheduled for it
    proc,           \* the handler and the maintenance runs of each actor
    call,           \* the action call each of them waits for
    late,           \* calls on their way that nobody waits for any more
    edges, gens,    \* edge ids and generations handed out so far
    faults,         \* failures, crashes and maintenance runs without need
    contested       \* ghost: edges with an acquire beside or after another one

tables == <<meta, fork_edges, fork_intents, gc_releases, contested>>
bounds == <<edges, gens, faults>>
vars == <<tables, armed, proc, call, late, bounds>>

handler(s) == <<s, "handler">>
Procs == {handler(s) : s \in Streams} \union Runs

ASSUME RunsOfStreams == \A p \in Runs : p[1] \in Streams /\ p # handler(p[1])

Free == [pc |-> "free", todo |-> {}, retry |-> FALSE, reply |-> None]

Unlocked(s) == proc[handler(s)].pc = "free"

EdgeIds == 1 .. MaxEdges
Generations == 1 .. MaxGeneration

Intent == [edge : EdgeIds, parent : Streams, offset : Offsets]
GcRelease == [edge : EdgeIds, parent : Streams, generation : Generations]
Meta ==
    [generation : Generations, soft_deleted : BOOLEAN, parent : {None}, edge : {0},
     source_generation : {None}]
    \union
    [generation : Generations, soft_deleted : BOOLEAN, parent : Streams, edge : EdgeIds,
     source_generation : Generations]
Task ==
    [pc : {"free", "acquire", "look", "reconcile", "flush"},
     todo : SUBSET (Intent \union GcRelease), retry : BOOLEAN, reply : Procs \union {None}]
Call ==
    [to : Streams, op : {"acquire", "release"}, edge : EdgeIds,
     generation : Generations \union {None},
     status : {"sent", "running", "done", "failed"}, ok : BOOLEAN]

ASSUME NoneIsNoRow == None \notin Streams \union Procs \union Meta \union Call

Init ==
    /\ meta = [s \in Streams |-> None]
    /\ fork_edges = [s \in Streams |-> {}]
    /\ fork_intents = [s \in Streams |-> {}]
    /\ gc_releases = [s \in Streams |-> {}]
    /\ armed = [s \in Streams |-> FALSE]
    /\ proc = [p \in Procs |-> Free]
    /\ call = [p \in Procs |-> None]
    /\ late = {} /\ contested = {}
    /\ edges = 0 /\ gens = 0 /\ faults = 0

-----------------------------------------------------------------------------
(* Calls *)

Acquire(to, edge) ==
    [to |-> to, op |-> "acquire", edge |-> edge, generation |-> None,
     status |-> "sent", ok |-> FALSE]
Release(g) ==
    [to |-> g.parent, op |-> "release", edge |-> g.edge, generation |-> g.generation,
     status |-> "sent", ok |-> FALSE]
Answered(c, ok, generation) ==
    [c EXCEPT !.status = "done", !.ok = ok, !.generation = generation]

(* Budget for what the system does not do by itself.                        *)
Fault == faults < MaxFaults /\ faults' = faults + 1

(* The caller sees an error: its call is still on its way, or it is running *)
(* at the source, or only the answer is lost.                               *)
call_fails(p) ==
    /\ call[p] # None /\ call[p].status \in {"sent", "running", "done"}
    /\ Fault
    /\ late' = IF call[p].status = "sent" THEN late \union {call[p]} ELSE late
    /\ call' = [call EXCEPT ![p].status = "failed"]
    /\ UNCHANGED <<tables, armed, proc, edges, gens>>

lose(c) == late' = late \ {c} /\ UNCHANGED <<tables, armed, proc, call, bounds>>

(* An acquire of the edge may still take effect, or has done so and its     *)
(* answer is not yet acted on.                                              *)
Outstanding(edge) ==
    \/ \E p \in Procs : call[p] # None /\ call[p].op = "acquire" /\ call[p].edge = edge
    \/ \E c \in late : c.op = "acquire" /\ c.edge = edge

-----------------------------------------------------------------------------
(* flush_gc_releases: one release call for every pending row, then a retry  *)
(* when one of them failed.  With nothing pending it is over at once.  The  *)
(* caller of a handler that flushes waits for its end.                      *)

FlushFor(pending, caller) ==
    IF pending = {} THEN Free
    ELSE [Free EXCEPT !.pc = "flush", !.todo = pending, !.reply = caller]
FlushFrom(pending) == FlushFor(pending, None)

flush_send(p) ==
    \E g \in proc[p].todo :
        /\ proc[p].pc = "flush" /\ call[p] = None
        /\ call' = [call EXCEPT ![p] = Release(g)]
        /\ UNCHANGED <<tables, armed, proc, late, bounds>>

flush_reply(p) ==
    LET s == p[1]
        mine(g) == g.edge = call[p].edge
        rest == {g \in proc[p].todo : ~mine(g)}
        failed == call[p].status = "failed"
    IN  /\ proc[p].pc = "flush" /\ call[p] # None
        /\ call[p].status \in {"done", "failed"}
        /\ call' = [call EXCEPT ![p] = None]
        /\ proc' = [proc EXCEPT ![p] = [proc[p] EXCEPT !.todo = rest, !.retry = @ \/ failed]]
        /\ gc_releases' = IF failed THEN gc_releases
                          ELSE [gc_releases EXCEPT ![s] = {g \in @ : ~mine(g)}]
        /\ UNCHANGED <<meta, fork_edges, fork_intents, contested, armed, late, bounds>>

(* Mutant: a failed release is not tried again. *)
rearm_never(s, retry) == armed

rearm(s, retry) == [armed EXCEPT ![s] = @ \/ retry]

flush_end(p) ==
    LET to == proc[p].reply
    IN  /\ proc[p].pc = "flush" /\ proc[p].todo = {} /\ call[p] = None
        /\ armed' = rearm(p[1], proc[p].retry)
        /\ proc' = [proc EXCEPT ![p] = Free]
        /\ call' = IF to # None /\ call[to] # None
                     /\ call[to].to = p[1] /\ call[to].status = "running"
                     THEN [call EXCEPT ![to].status = "done"] ELSE call
        /\ UNCHANGED <<tables, late, bounds>>

-----------------------------------------------------------------------------
(* Leaving: purge_stream_tx queues the release of the stream's own edge.    *)

(* Mutants: the purge forgets the reference the stream holds, or which      *)
(* generation it is of.                                                     *)
owed_nothing(s) == {}
owed_anonymous(s) ==
    IF meta[s].parent = None THEN {}
    ELSE {[edge |-> meta[s].edge, parent |-> meta[s].parent, generation |-> None]}

owed(s) ==
    IF meta[s].parent = None THEN {}
    ELSE {[edge |-> meta[s].edge, parent |-> meta[s].parent,
           generation |-> meta[s].source_generation]}

purge_stream_tx(s) ==
    /\ meta' = [meta EXCEPT ![s] = None]
    /\ fork_edges' = [fork_edges EXCEPT ![s] = {}]
    /\ gc_releases' = [gc_releases EXCEPT ![s] = @ \union owed(s)]
    /\ UNCHANGED <<fork_intents, contested>>

(* Mutant: a stream leaves without looking at its forks. *)
pinned_never(s) == FALSE

pinned(s) == fork_edges[s] # {}

(* DELETE, or the expiry that any request finds: arm, retire, then flush.   *)
retire(s) ==
    /\ Unlocked(s) /\ meta[s] # None /\ ~meta[s].soft_deleted
    /\ armed' = [armed EXCEPT ![s] = TRUE]
    /\ IF pinned(s)
         THEN /\ meta' = [meta EXCEPT ![s].soft_deleted = TRUE]
              /\ proc' = proc
              /\ UNCHANGED <<fork_edges, fork_intents, gc_releases, contested>>
         ELSE /\ purge_stream_tx(s)
              /\ proc' = [proc EXCEPT ![handler(s)] = FlushFrom(gc_releases'[s])]
    /\ UNCHANGED <<call, late, bounds>>

-----------------------------------------------------------------------------
(* The two calls, at the source *)

(* A recorded edge is granted again; a source that is there may refuse a    *)
(* new one all the same (the offset, the content type).                     *)
fork_acquire(s, edge, ok) ==
    LET recorded == meta[s] # None /\ edge \in fork_edges[s]
    IN  /\ Unlocked(s)
        /\ \/ /\ ok /\ meta[s] # None /\ (recorded \/ ~meta[s].soft_deleted)
              /\ fork_edges' = [fork_edges EXCEPT ![s] = @ \union {edge}]
           \/ ~ok /\ ~recorded /\ UNCHANGED fork_edges
        /\ UNCHANGED <<meta, fork_intents, gc_releases, contested, armed, proc>>

(* Mutant: the last release of a soft-deleted stream does not purge it. *)
purge_after_release_never(s, edge) == FALSE

purge_after_release(s, edge) == meta[s].soft_deleted /\ fork_edges[s] = {edge}

fork_release(s, edge, generation, caller) ==
    LET ours == meta[s] # None /\ meta[s].generation = generation
    IN  /\ Unlocked(s)
        /\ armed' = rearm(s, ours /\ meta[s].soft_deleted)
        /\ IF ours /\ edge \in fork_edges[s] /\ purge_after_release(s, edge)
             THEN /\ purge_stream_tx(s)
                  /\ proc' = [proc EXCEPT ![handler(s)] = FlushFor(gc_releases'[s], caller)]
             ELSE /\ fork_edges' = IF ours THEN [fork_edges EXCEPT ![s] = @ \ {edge}]
                                   ELSE fork_edges
                  /\ UNCHANGED <<meta, fork_intents, gc_releases, contested, proc>>

answer_acquire(p) ==
    LET c == call[p]
    IN  /\ c # None /\ c.op = "acquire" /\ c.status = "sent"
        /\ \E ok \in BOOLEAN :
              /\ fork_acquire(c.to, c.edge, ok)
              /\ call' = [call EXCEPT ![p] =
                             Answered(c, ok, IF ok THEN meta[c.to].generation ELSE None)]
        /\ UNCHANGED <<late, bounds>>

answer_release(p) ==
    LET c == call[p]
    IN  /\ c # None /\ c.op = "release" /\ c.status = "sent"
        /\ fork_release(c.to, c.edge, c.generation, p)
        /\ call' = [call EXCEPT ![p].status =
                       IF proc'[handler(c.to)].pc = "free" THEN "done" ELSE "running"]
        /\ UNCHANGED <<late, bounds>>

(* A late call is executed like any other; late is a set, so that it may    *)
(* hold the call twice.                                                     *)
late_call(c) ==
    /\ \/ c.op = "acquire" /\ \E ok \in BOOLEAN : fork_acquire(c.to, c.edge, ok)
       \/ c.op = "release" /\ fork_release(c.to, c.edge, c.generation, None)
    /\ \/ late' = late \ {c} /\ faults' = faults
       \/ late' = late /\ Fault
    /\ UNCHANGED <<call, edges, gens>>

-----------------------------------------------------------------------------
(* PUT *)

Fork(s, source, edge, generation) ==
    [generation |-> gens + 1, soft_deleted |-> FALSE, parent |-> source,
     edge |-> edge, source_generation |-> generation]
Root(s) == Fork(s, None, 0, None)

handle_put(s) ==
    /\ Unlocked(s) /\ meta[s] = None /\ gens < MaxGeneration
    /\ meta' = [meta EXCEPT ![s] = Root(s)]
    /\ gens' = gens + 1
    /\ UNCHANGED <<fork_edges, fork_intents, gc_releases, contested, armed, proc, call,
                   late, edges, faults>>

(* An intent for the same source and offset is taken up again; otherwise    *)
(* maintenance is armed and a new one persisted before the call.            *)
create_fork(s, source, offset) ==
    LET found == {i \in fork_intents[s] : i.parent = source /\ i.offset = offset}
        Ask(edge) ==
            /\ proc' = [proc EXCEPT ![handler(s)].pc = "acquire"]
            /\ call' = [call EXCEPT ![handler(s)] = Acquire(source, edge)]
            /\ contested' = IF Outstanding(edge) THEN contested \union {edge} ELSE contested
    IN  /\ <<s, source>> \in Forks /\ s # source
        /\ Unlocked(s) /\ meta[s] = None
        /\ \/ \E i \in found : Ask(i.edge) /\ UNCHANGED <<fork_intents, armed, edges>>
           \/ /\ found = {} /\ edges < MaxEdges
              /\ edges' = edges + 1
              /\ armed' = [armed EXCEPT ![s] = TRUE]
              /\ fork_intents' = [fork_intents EXCEPT ![s] =
                    @ \union {[edge |-> edges', parent |-> source, offset |-> offset]}]
              /\ Ask(edges')
        /\ UNCHANGED <<meta, fork_edges, gc_releases, late, gens, faults>>

delete_fork_intent(s, edge) ==
    fork_intents' = [fork_intents EXCEPT ![s] = {i \in @ : i.edge # edge}]

enqueue_gc_release(s, edge, source, generation) ==
    gc_releases' = [gc_releases EXCEPT ![s] =
        IF \E g \in @ : g.edge = edge THEN @
        ELSE @ \union {[edge |-> edge, parent |-> source, generation |-> generation]}]

(* The call failed, or a later read of the source did: the PUT fails and    *)
(* leaves its intent to maintenance or to its own retry.                    *)
create_fork_fails(s) ==
    LET h == handler(s)
    IN  /\ proc[h].pc = "acquire"
        /\ \/ call[h].status = "failed" /\ faults' = faults
           \/ call[h].status = "done" /\ call[h].ok /\ Fault
        /\ proc' = [proc EXCEPT ![h] = Free] /\ call' = [call EXCEPT ![h] = None]
        /\ UNCHANGED <<tables, armed, late, edges, gens>>

(* The source refuses: the intent has nothing to cover. *)
create_fork_refused(s) ==
    LET h == handler(s)
    IN  /\ proc[h].pc = "acquire" /\ call[h].status = "done" /\ ~call[h].ok
        /\ delete_fork_intent(s, call[h].edge)
        /\ proc' = [proc EXCEPT ![h] = Free] /\ call' = [call EXCEPT ![h] = None]
        /\ UNCHANGED <<meta, fork_edges, gc_releases, contested, armed, late, bounds>>

(* The creation transaction: the meta row takes over from the intent.       *)
create_fork_commits(s) ==
    LET h == handler(s)
    IN  /\ proc[h].pc = "acquire" /\ call[h].status = "done" /\ call[h].ok
        /\ gens < MaxGeneration /\ gens' = gens + 1
        /\ meta' = [meta EXCEPT ![s] =
                       Fork(s, call[h].to, call[h].edge, call[h].generation)]
        /\ delete_fork_intent(s, call[h].edge)
        /\ proc' = [proc EXCEPT ![h] = Free] /\ call' = [call EXCEPT ![h] = None]
        /\ UNCHANGED <<fork_edges, gc_releases, contested, armed, late, edges, faults>>

(* A sub-offset or body that does not fit: give the reference back.         *)
release_acquired(s) ==
    LET h == handler(s)
    IN  /\ proc[h].pc = "acquire" /\ call[h].status = "done" /\ call[h].ok
        /\ armed' = [armed EXCEPT ![s] = TRUE]
        /\ enqueue_gc_release(s, call[h].edge, call[h].to, call[h].generation)
        /\ delete_fork_intent(s, call[h].edge)
        /\ proc' = [proc EXCEPT ![h] = FlushFrom(gc_releases'[s])]
        /\ call' = [call EXCEPT ![h] = None]
        /\ UNCHANGED <<meta, fork_edges, contested, late, bounds>>

-----------------------------------------------------------------------------
(* run_maintenance: intents are reconciled when there is no stream, then    *)
(* the pending releases are flushed (reconcile_fork_intents ends with a     *)
(* flush of its own: one flush here, another run is the second).  Runs take *)
(* no lock: they overlap with each other and with the handler.              *)

run_maintenance(p) ==
    /\ proc[p].pc = "free"
    /\ proc' = [proc EXCEPT ![p].pc = IF meta[p[1]] = None THEN "look" ELSE "reconcile"]
    /\ UNCHANGED <<tables, call, late, edges, gens>>

Maintenance(p) ==
    armed[p[1]] /\ run_maintenance(p) /\ armed' = [armed EXCEPT ![p[1]] = FALSE] /\ faults' = faults

(* A run that nobody waits for: an expiry timer is a Maintenance as well.   *)
stray_maintenance(p) == run_maintenance(p) /\ armed' = armed /\ Fault

reconcile_fork_intents(p) ==
    /\ proc[p].pc = "look"
    /\ proc' = [proc EXCEPT ![p].pc = "reconcile", ![p].todo = fork_intents[p[1]]]
    /\ UNCHANGED <<tables, armed, call, late, bounds>>

(* An intent is settled by acquiring its edge, again or for the first time: *)
(* whether or not another run or the handler asks for it too, and whether   *)
(* or not it is still there.                                                *)
reconcile_send(p) ==
    \E i \in proc[p].todo :
        /\ proc[p].pc = "reconcile" /\ call[p] = None
        /\ call' = [call EXCEPT ![p] = Acquire(i.parent, i.edge)]
        /\ contested' = IF Outstanding(i.edge) \/ i \notin fork_intents[p[1]]
                        THEN contested \union {i.edge} ELSE contested
        /\ UNCHANGED <<meta, fork_edges, fork_intents, gc_releases, armed, proc, late, bounds>>

reconcile_reply(p) ==
    LET s == p[1]
        c == call[p]
    IN  /\ proc[p].pc = "reconcile" /\ c # None /\ c.status \in {"done", "failed"}
        /\ call' = [call EXCEPT ![p] = None]
        /\ proc' = [proc EXCEPT ![p].todo = {i \in @ : i.edge # c.edge}]
        /\ armed' = rearm(s, c.status = "failed")
        /\ IF c.status = "failed"
             THEN UNCHANGED <<fork_intents, gc_releases>>
             ELSE /\ delete_fork_intent(s, c.edge)
                  /\ IF c.ok THEN enqueue_gc_release(s, c.edge, c.to, c.generation)
                     ELSE UNCHANGED gc_releases
        /\ UNCHANGED <<meta, fork_edges, contested, late, bounds>>

reconcile_end(p) ==
    /\ proc[p].pc = "reconcile" /\ proc[p].todo = {} /\ call[p] = None
    /\ proc' = [proc EXCEPT ![p] = FlushFrom(gc_releases[p[1]])]
    /\ UNCHANGED <<tables, armed, call, late, bounds>>

(* The tasks of the actor die, their calls go on; it starts with a run.     *)
crash(s) ==
    LET mine == {p \in Procs : p[1] = s /\ call[p] # None}
        served == {p \in Procs : call[p] # None /\ call[p].to = s /\ call[p].status = "running"}
    IN  /\ Fault
        /\ proc' = [p \in Procs |-> IF p[1] = s THEN Free ELSE proc[p]]
        /\ call' = [p \in Procs |-> IF p[1] = s THEN None
                                    ELSE IF p \in served THEN [call[p] EXCEPT !.status = "failed"]
                                    ELSE call[p]]
        /\ late' = late \union {call[p] : p \in {q \in mine : call[q].status = "sent"}}
        /\ armed' = [armed EXCEPT ![s] = TRUE]
        /\ UNCHANGED <<tables, edges, gens>>

-----------------------------------------------------------------------------

Progress(p) ==
    \/ flush_send(p) \/ flush_reply(p) \/ flush_end(p)
    \/ answer_acquire(p) \/ answer_release(p)

Creation(s) ==
    create_fork_fails(s) \/ create_fork_refused(s) \/ create_fork_commits(s)
        \/ release_acquired(s)

Upkeep(p) ==
    \/ Maintenance(p) \/ reconcile_fork_intents(p)
    \/ reconcile_send(p) \/ reconcile_reply(p) \/ reconcile_end(p)

Clients(s) ==
    \/ handle_put(s) \/ retire(s)
    \/ \E source \in Streams, offset \in Offsets : create_fork(s, source, offset)

Network == \/ \E p \in Procs : call_fails(p)
           \/ \E c \in late : late_call(c) \/ lose(c)

Next ==
    \/ \E p \in Procs : Progress(p)
    \/ \E s \in Streams : Creation(s) \/ Clients(s) \/ crash(s)
    \/ \E p \in Runs : Upkeep(p) \/ stray_maintenance(p)
    \/ Network

Spec == Init /\ [][Next]_vars

(* The runtime does not rest while something is ready: a task goes on, a    *)
(* call that is waited for is delivered, a scheduled maintenance starts.    *)
(* Faults and clients are bounded, so that it need not be fair to each of   *)
(* them.  Nothing is promised of a late call.                               *)
FairSpec ==
    /\ Spec
    /\ WF_vars(\/ \E p \in Procs : Progress(p)
               \/ \E s \in Streams : Creation(s)
               \/ \E p \in Runs : Upkeep(p))

-----------------------------------------------------------------------------
(* Properties *)

TypeOK ==
    /\ meta \in [Streams -> Meta \union {None}]
    /\ fork_edges \in [Streams -> SUBSET EdgeIds]
    /\ fork_intents \in [Streams -> SUBSET Intent]
    /\ gc_releases \in [Streams -> SUBSET GcRelease]
    /\ armed \in [Streams -> BOOLEAN]
    /\ proc \in [Procs -> Task] /\ call \in [Procs -> Call \union {None}]
    /\ late \subseteq Call
    /\ edges \in 0 .. MaxEdges /\ gens \in 0 .. MaxGeneration

(* Stream c answers for edge e of stream s, by something it has persisted.  *)
Owns(c, e, s) ==
    \/ \E i \in fork_intents[c] : i.edge = e /\ i.parent = s
    \/ \E g \in gc_releases[c] : g.edge = e /\ g.parent = s
    \/ meta[c] # None /\ meta[c].edge = e /\ meta[c].parent = s

Pinned(c) ==
    /\ meta[meta[c].parent] # None
    /\ meta[meta[c].parent].generation = meta[c].source_generation
    /\ meta[c].edge \in fork_edges[meta[c].parent]

IsFork(c) == meta[c] # None /\ meta[c].parent # None

(* A stream that is a fork has its reference recorded at its source, which  *)
(* is there in the generation it was forked from (create_fork: the          *)
(* maintenance it arms is "harmless").                                      *)
LiveForkPinned == \A c \in Streams : IsFork(c) => Pinned(c)

(* No reference is acquired without a persisted duty to give it back ("an   *)
(* acquired reference without one is not [harmless]", create_fork), and no  *)
(* fork loses its own, however calls fail and actors crash between their    *)
(* transactions: of every edge with no acquire sent beside another one, nor *)
(* from a list of intents read before the intent was settled.               *)
UncontestedOwned ==
    \A s \in Streams : \A e \in fork_edges[s] \ contested :
        \E c \in Streams : Owns(c, e, s)

UncontestedPinned ==
    \A c \in Streams : IsFork(c) => Pinned(c) \/ meta[c].edge \in contested

(* Every release a stream owes is made in the end: the retry that a failed  *)
(* call arms, and the maintenance of a restart, see to it.                  *)
ReleasesDrain ==
    \A f \in Forks, e \in EdgeIds :
        (\E g \in gc_releases[f[1]] : g.edge = e) ~> ~(\E g \in gc_releases[f[1]] : g.edge = e)

(* An intent of a creation that failed is settled while there is no stream. *)
IntentsSettle ==
    \A f \in Forks, e \in EdgeIds :
        (\E i \in fork_intents[f[1]] : i.edge = e)
            ~> (~(\E i \in fork_intents[f[1]] : i.edge = e) \/ meta[f[1]] # None)

(* A soft-deleted stream goes away once the streams that could hold it are  *)
(* gone for good, unless one of its edges was contested.                    *)
ZombiesCollected ==
    \A f \in Forks :
        [](contested = {}) /\ <>[](\A c \in Streams \ {f[2]} : meta[c] = None)
            => []<>~(meta[f[2]] # None /\ meta[f[2]].soft_deleted)

(* A soft-deleted stream has an edge left: along a chain of forks, the      *)
(* release that takes the last one purges it and passes its own reference   *)
(* on, before the call is answered.                                         *)
NoZombie ==
    \A s \in Streams : meta[s] # None /\ meta[s].soft_deleted => fork_edges[s] # {}
=============================================================================
