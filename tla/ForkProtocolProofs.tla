------------------------- MODULE ForkProtocolProofs -------------------------
(***************************************************************************)
(* Theorems about ForkProtocol, for every value of its constants.          *)
(* The argument is about one edge at a time.  An edge that was handed out  *)
(* has one child and one source, whatever names it (Assigned).  For it     *)
(* answers exactly one of an intent, a pending release and the meta row of *)
(* the child (RowInv).  A task acquires it only under the intent, gives it *)
(* back only when nothing needs it any more and only in the generation     *)
(* that recorded it, and what a call has found still holds when its caller *)
(* reads the answer (TaskInv); a call that nobody waits for any more does  *)
(* no harm when it arrives (LateInv).  All of it needs that no acquire of  *)
(* the edge is sent while another one may still take effect (Alone), nor   *)
(* for an intent that is settled: it is what overlapping creations and     *)
(* reconciliations break, so it is claimed of edges not contested.         *)
(***************************************************************************)
EXTENDS ForkProtocol, TLAPS

(* The handler of a stream, and its maintenance runs. *)
LEMMA TaskNames ==
    /\ \A s \in Streams : handler(s) \in Procs /\ handler(s)[1] = s
    /\ \A p \in Runs : p \in Procs /\ p[1] \in Streams /\ \A s \in Streams : p # handler(s)
    /\ \A s, t : handler(s) = handler(t) => s = t
    /\ \A p \in Procs : p[1] \in Streams /\ (p = handler(p[1]) \/ p \in Runs)
<1>1. \A s : handler(s)[1] = s
  BY DEF handler
<1>2. \A p \in Runs : p[1] \in Streams /\ p # handler(p[1])
  BY RunsOfStreams
<1> QED
  BY <1>1, <1>2 DEF Procs

-----------------------------------------------------------------------------
(* Types *)

LEMMA TypeInit == Init => TypeOK
<1> SUFFICES ASSUME Init PROVE TypeOK
  OBVIOUS
<1>1. Free \in Task
  BY DEF Free, Task
<1> QED
  BY <1>1, BoundsAreNaturals DEF Init, TypeOK

LEMMA FreeIsTask == Free \in Task
BY DEF Free, Task

LEMMA FlushIsTask ==
    ASSUME NEW pending \in SUBSET GcRelease, NEW caller \in Procs \union {None}
    PROVE  FlushFor(pending, caller) \in Task
BY DEF FlushFor, Free, Task

LEMMA ReleaseIsCall ==
    ASSUME NEW g \in GcRelease
    PROVE  Release(g) \in Call /\ Release(g) # None
<1>1. Release(g) \in Call
  BY DEF Release, Call, GcRelease
<1> QED
  BY <1>1, NoneIsNoRow

LEMMA AcquireIsCall ==
    ASSUME NEW to \in Streams, NEW e \in EdgeIds
    PROVE  Acquire(to, e) \in Call /\ Acquire(to, e) # None
<1>1. Acquire(to, e) \in Call
  BY DEF Acquire, Call
<1> QED
  BY <1>1, NoneIsNoRow

LEMMA AnsweredIsCall ==
    ASSUME NEW c \in Call, NEW ok \in BOOLEAN, NEW g \in Generations \union {None}
    PROVE  Answered(c, ok, g) \in Call /\ Answered(c, ok, g) # None
<1>1. Answered(c, ok, g) \in Call
  BY DEF Answered, Call
<1> QED
  BY <1>1, NoneIsNoRow

LEMMA OwedIsRelease ==
    ASSUME TypeOK, NEW s \in Streams, meta[s] # None
    PROVE  owed(s) \subseteq GcRelease
BY NoneIsNoRow DEF owed, TypeOK, Meta, GcRelease

-----------------------------------------------------------------------------
(* Tasks and their calls *)

(* What a task waits for is what it is doing: a handler that creates a fork *)
(* acquires its edge, and there is no stream yet; a reconciliation settles  *)
(* one of the intents it has listed, a flush gives back one of the          *)
(* references.                                                              *)
Waits(p) ==
    /\ proc[p].pc \in {"free", "look"} => call[p] = None
    /\ proc[p].pc = "acquire" =>
         /\ p = handler(p[1]) /\ meta[p[1]] = None
         /\ call[p] # None /\ call[p].op = "acquire"
    /\ proc[p].pc \in {"look", "reconcile"} => p \in Runs
    /\ proc[p].pc \in {"free", "acquire", "look"} => proc[p].todo = {}
    /\ proc[p].pc = "reconcile" =>
         /\ proc[p].todo \subseteq Intent
         /\ call[p] # None =>
              /\ call[p].op = "acquire"
              /\ \E i \in proc[p].todo : i.edge = call[p].edge /\ i.parent = call[p].to
    /\ proc[p].pc = "flush" =>
         /\ proc[p].todo \subseteq GcRelease
         /\ call[p] # None =>
              /\ call[p].op = "release"
              /\ \E g \in proc[p].todo : /\ g.edge = call[p].edge /\ g.parent = call[p].to
                                         /\ g.generation = call[p].generation

(* An acquire is answered at once; a granted one names the generation. *)
Answers(p) ==
    call[p] # None /\ call[p].op = "acquire" =>
        /\ call[p].status # "running"
        /\ call[p].status = "done" /\ call[p].ok => call[p].generation \in Generations

Tasks == \A p \in Procs : Waits(p) /\ Answers(p)


-----------------------------------------------------------------------------
(* What one step does to the tasks and their calls: each lemma says of an   *)
(* action which task and which call it changes, and to what.                *)

TaskOf(p, t) ==
    /\ proc' \in [Procs -> Task] /\ proc'[p] = t
    /\ \A q \in Procs : q # p => proc'[q] = proc[q]
CallOf(p, c) ==
    /\ call' \in [Procs -> Call \union {None}] /\ call'[p] = c
    /\ \A q \in Procs : q # p => call'[q] = call[q]

LEMMA TaskChanges ==
    ASSUME TypeOK, NEW p \in Procs, NEW t \in Task, proc' = [proc EXCEPT ![p] = t]
    PROVE  TaskOf(p, t)
BY DEF TaskOf, TypeOK

LEMMA CallChanges ==
    ASSUME TypeOK, NEW p \in Procs, NEW c \in Call \union {None},
           call' = [call EXCEPT ![p] = c]
    PROVE  CallOf(p, c)
BY DEF CallOf, TypeOK

SameCall(c, d) ==
    c # None /\ c.op = d.op /\ c.to = d.to /\ c.edge = d.edge /\ c.ok = d.ok
        /\ c.generation = d.generation

LEMMA StatusChanges ==
    ASSUME TypeOK, NEW p \in Procs, call[p] # None,
           NEW st \in {"sent", "running", "done", "failed"},
           call' = [call EXCEPT ![p].status = st]
    PROVE  /\ CallOf(p, [call[p] EXCEPT !.status = st])
           /\ SameCall(call'[p], call[p]) /\ call'[p].status = st
<1> DEFINE c == [call[p] EXCEPT !.status = st]
<1>1. call[p] \in Call
  BY DEF TypeOK
<1>2. c \in Call /\ c.status = st /\ c.op = call[p].op /\ c.to = call[p].to
      /\ c.edge = call[p].edge /\ c.ok = call[p].ok /\ c.generation = call[p].generation
  BY <1>1 DEF Call
<1>3. call' = [call EXCEPT ![p] = c]
  OBVIOUS
<1>4. CallOf(p, c)
  <2> HIDE DEF c
  <2> QED BY <1>2, <1>3, CallChanges
<1>5. c # None
  <2> HIDE DEF c
  <2> QED BY <1>2, NoneIsNoRow
<1> QED
  BY <1>2, <1>4, <1>5 DEF CallOf, SameCall

LEMMA RearmIsArmed ==
    ASSUME TypeOK, NEW s \in Streams, NEW retry
    PROVE  rearm(s, retry) \in [Streams -> BOOLEAN]
<1>1. (armed[s] \/ retry) \in BOOLEAN
  BY Zenon
<1> QED
  BY <1>1 DEF rearm, TypeOK

LEMMA CallFailsEffect ==
    ASSUME TypeOK, NEW p \in Procs, call_fails(p)
    PROVE  /\ CallOf(p, [call[p] EXCEPT !.status = "failed"])
           /\ SameCall(call'[p], call[p]) /\ call'[p].status = "failed"
           /\ \/ late' = late
              \/ call[p].status = "sent" /\ late' = late \union {call[p]}
BY StatusChanges DEF call_fails

LEMMA FlushSendEffect ==
    ASSUME TypeOK, Tasks, NEW p \in Procs, flush_send(p)
    PROVE  \E g \in proc[p].todo : g \in GcRelease /\ CallOf(p, Release(g)) /\ Release(g) \in Call
<1> PICK g \in proc[p].todo : call' = [call EXCEPT ![p] = Release(g)]
  BY DEF flush_send
<1>1. g \in GcRelease
  BY DEF flush_send, Tasks, Waits
<1>2. Release(g) \in Call
  BY <1>1, ReleaseIsCall
<1> QED
  BY <1>1, <1>2, CallChanges

LEMMA FlushReplyEffect ==
    ASSUME TypeOK, NEW p \in Procs, flush_reply(p)
    PROVE  /\ TaskOf(p, proc'[p]) /\ proc'[p].pc = "flush"
           /\ proc'[p].todo = {g \in proc[p].todo : g.edge # call[p].edge}
           /\ CallOf(p, None)
<1> DEFINE rest == {g \in proc[p].todo : ~(g.edge = call[p].edge)}
           failed == call[p].status = "failed"
           t == [proc[p] EXCEPT !.todo = rest, !.retry = proc[p].retry \/ failed]
<1>1. proc[p] \in Task /\ rest \in SUBSET (Intent \union GcRelease)
  BY DEF TypeOK, Task
<1>2. proc' = [proc EXCEPT ![p] = t]
  BY DEF flush_reply
<1>3. (proc[p].retry \/ failed) \in BOOLEAN
  BY Zenon
<1>4. t \in Task /\ t.pc = proc[p].pc /\ t.todo = rest
  BY <1>1, <1>3 DEF Task
<1>5. TaskOf(p, t)
  <2> HIDE DEF t
  <2> QED BY <1>2, <1>4, TaskChanges
<1>6. CallOf(p, None)
  BY CallChanges DEF flush_reply
<1>7. proc[p].pc = "flush"
  BY DEF flush_reply
<1> QED
  <2> HIDE DEF t
  <2> QED BY <1>4, <1>5, <1>6, <1>7 DEF TaskOf

(* The end of a flush answers the call that waited for it. *)
LEMMA FlushEndEffect ==
    ASSUME TypeOK, Tasks, NEW p \in Procs, flush_end(p)
    PROVE  /\ TaskOf(p, Free)
           /\ call' \in [Procs -> Call \union {None}]
           /\ \A q \in Procs :
                 \/ call'[q] = call[q]
                 \/ /\ q # p /\ call[q] # None /\ call[q].status = "running"
                    /\ SameCall(call'[q], call[q]) /\ call'[q].status = "done"
<1> DEFINE to == proc[p].reply
           waits == to # None /\ call[to] # None /\ call[to].to = p[1]
                      /\ call[to].status = "running"
<1>1. TaskOf(p, Free)
  BY FreeIsTask, TaskChanges DEF flush_end
<1>2. CASE ~waits
  <2>1. call' = call
    BY <1>2 DEF flush_end
  <2> QED
    BY <1>1, <2>1 DEF TypeOK
<1>3. CASE waits
  <2>1. to \in Procs
    BY <1>3 DEF TypeOK, Task
  <2>2. call' = [call EXCEPT ![to].status = "done"]
    BY <1>3 DEF flush_end
  <2>3. CallOf(to, [call[to] EXCEPT !.status = "done"])
        /\ SameCall(call'[to], call[to]) /\ call'[to].status = "done"
    <3> HIDE DEF to
    <3> QED BY <1>3, <2>1, <2>2, StatusChanges
  <2>4. to # p
    BY <1>3 DEF flush_end
  <2> QED
    BY <1>1, <1>3, <2>3, <2>4 DEF CallOf
<1> QED
  BY <1>2, <1>3

(* An acquire at its source records the edge, or leaves an edge that is not *)
(* recorded so.                                                             *)
Granted(s, e) ==
    /\ meta[s] # None /\ fork_edges' = [fork_edges EXCEPT ![s] = @ \union {e}]
    /\ UNCHANGED <<meta, fork_intents, gc_releases, contested, proc>>
Refused(s, e) ==
    /\ meta[s] # None => e \notin fork_edges[s]
    /\ UNCHANGED <<meta, fork_edges, fork_intents, gc_releases, contested, proc>>

LEMMA AcquireEffect ==
    ASSUME NEW s, NEW e, NEW ok \in BOOLEAN, fork_acquire(s, e, ok)
    PROVE  (ok = TRUE /\ Granted(s, e)) \/ (ok = FALSE /\ Refused(s, e))
<1>1. CASE ok = TRUE
  BY <1>1 DEF fork_acquire, Granted
<1>2. CASE ok = FALSE
  BY <1>2 DEF fork_acquire, Refused
<1> QED
  BY <1>1, <1>2

LEMMA AnswerAcquireEffect ==
    ASSUME TypeOK, NEW p \in Procs, answer_acquire(p)
    PROVE  /\ call[p] # None /\ call[p].op = "acquire" /\ call[p].status = "sent"
           /\ call[p].to \in Streams /\ call[p].edge \in EdgeIds
           /\ CallOf(p, call'[p]) /\ late' = late
           /\ call'[p] # None /\ call'[p].op = "acquire" /\ call'[p].to = call[p].to
           /\ call'[p].edge = call[p].edge /\ call'[p].status = "done"
           /\ \/ /\ Granted(call[p].to, call[p].edge) /\ call'[p].ok = TRUE
                 /\ call'[p].generation = meta[call[p].to].generation
                 /\ call'[p].generation \in Generations
              \/ Refused(call[p].to, call[p].edge) /\ call'[p].ok = FALSE
<1> DEFINE c == call[p]
           s == c.to
<1>1. /\ c \in Call /\ s \in Streams /\ c.edge \in EdgeIds /\ c.op = "acquire" /\ c # None
      /\ c.status = "sent" /\ late' = late
  BY NoneIsNoRow DEF answer_acquire, TypeOK, Call
<1>2. PICK ok \in BOOLEAN :
         /\ fork_acquire(s, c.edge, ok)
         /\ call' = [call EXCEPT ![p] = Answered(c, ok, IF ok THEN meta[s].generation ELSE None)]
  BY DEF answer_acquire
<1>3. CASE ok = TRUE
  <2> DEFINE a == Answered(c, TRUE, meta[s].generation)
  <2>1. call' = [call EXCEPT ![p] = a]
    BY <1>2, <1>3
  <2>2. Granted(s, c.edge)
    BY <1>2, <1>3, AcquireEffect
  <2>3. meta[s].generation \in Generations
    BY <1>1, <2>2 DEF TypeOK, Meta, Granted
  <2>4. a \in Call /\ a # None
    BY <1>1, <2>3, AnsweredIsCall
  <2>5. /\ a.op = c.op /\ a.to = c.to /\ a.edge = c.edge /\ a.status = "done"
        /\ a.ok = TRUE /\ a.generation = meta[s].generation
    BY <1>1 DEF Answered, Call
  <2>6. CallOf(p, a) /\ call'[p] = a
    <3> HIDE DEF a
    <3> QED BY <2>1, <2>4, CallChanges DEF CallOf
  <2> QED
    <3> HIDE DEF a
    <3> QED BY <1>1, <2>2, <2>3, <2>4, <2>5, <2>6
<1>4. CASE ok = FALSE
  <2> DEFINE a == Answered(c, FALSE, None)
  <2>1. call' = [call EXCEPT ![p] = a]
    BY <1>2, <1>4
  <2>2. Refused(s, c.edge)
    BY <1>2, <1>4, AcquireEffect
  <2>4. a \in Call /\ a # None
    BY <1>1, AnsweredIsCall
  <2>5. /\ a.op = c.op /\ a.to = c.to /\ a.edge = c.edge /\ a.status = "done"
        /\ a.ok = FALSE
    BY <1>1 DEF Answered, Call
  <2>6. CallOf(p, a) /\ call'[p] = a
    <3> HIDE DEF a
    <3> QED BY <2>1, <2>4, CallChanges DEF CallOf
  <2> QED
    <3> HIDE DEF a
    <3> QED BY <1>1, <2>2, <2>4, <2>5, <2>6
<1> QED
  BY <1>3, <1>4

(* The purge of a stream leaves one flush, of all it owes, to its handler.  *)
Purged(s) ==
    /\ s \in Streams /\ Unlocked(s) /\ meta[s] # None
    /\ purge_stream_tx(s)
    /\ TaskOf(handler(s), proc'[handler(s)])
    /\ proc'[handler(s)].pc = (IF gc_releases'[s] = {} THEN "free" ELSE "flush")
    /\ proc'[handler(s)].todo = gc_releases'[s]

LEMMA FlushFields ==
    ASSUME NEW pending \in SUBSET GcRelease, NEW caller \in Procs \union {None}
    PROVE  /\ FlushFor(pending, caller).pc = (IF pending = {} THEN "free" ELSE "flush")
           /\ FlushFor(pending, caller).todo = pending
BY DEF FlushFor, Free

LEMMA PurgeQueues ==
    ASSUME TypeOK, NEW s \in Streams, meta[s] # None, purge_stream_tx(s)
    PROVE  /\ gc_releases' \in [Streams -> SUBSET GcRelease]
           /\ gc_releases'[s] = gc_releases[s] \union owed(s)
           /\ gc_releases'[s] \in SUBSET GcRelease
           /\ \A c \in Streams : c # s => gc_releases'[c] = gc_releases[c]
BY OwedIsRelease DEF purge_stream_tx, TypeOK

LEMMA RetireEffect ==
    ASSUME TypeOK, NEW s \in Streams, retire(s)
    PROVE  \/ /\ Purged(s) /\ fork_edges[s] = {} /\ ~meta[s].soft_deleted
           \/ /\ fork_edges[s] # {} /\ meta[s] # None
              /\ meta' = [meta EXCEPT ![s].soft_deleted = TRUE]
              /\ UNCHANGED <<fork_edges, fork_intents, gc_releases, contested, proc>>
<1>1. CASE pinned(s)
  BY <1>1 DEF retire, pinned
<1>2. CASE ~pinned(s)
  <2> DEFINE t == FlushFor(gc_releases'[s], None)
  <2>1. /\ purge_stream_tx(s) /\ Unlocked(s) /\ meta[s] # None /\ fork_edges[s] = {}
        /\ ~meta[s].soft_deleted /\ proc' = [proc EXCEPT ![handler(s)] = t]
    BY <1>2 DEF retire, pinned, FlushFrom
  <2>2. t \in Task /\ t.pc = (IF gc_releases'[s] = {} THEN "free" ELSE "flush")
        /\ t.todo = gc_releases'[s]
    BY <2>1, PurgeQueues, FlushIsTask, FlushFields
  <2> HIDE DEF t
  <2>3. TaskOf(handler(s), t)
    BY <2>1, <2>2, TaskChanges, TaskNames
  <2> QED
    BY <2>1, <2>2, <2>3 DEF Purged, TaskOf
<1> QED
  BY <1>1, <1>2

(* The release of the last edge of a soft-deleted stream purges it; any     *)
(* other release takes its edge, if it is there and of this generation.     *)
Ours(s, generation) == meta[s] # None /\ meta[s].generation = generation
Takes(s, e, generation) ==
    /\ Ours(s, generation) => fork_edges[s] # {e} \/ ~meta[s].soft_deleted
    /\ fork_edges' = IF Ours(s, generation) THEN [fork_edges EXCEPT ![s] = @ \ {e}]
                     ELSE fork_edges
    /\ UNCHANGED <<meta, fork_intents, gc_releases, contested, proc>>

LEMMA ReleaseEffect ==
    ASSUME TypeOK, NEW s \in Streams, NEW e \in EdgeIds, NEW generation,
           NEW caller \in Procs \union {None}, fork_release(s, e, generation, caller)
    PROVE  /\ Unlocked(s)
           /\ \/ Ours(s, generation) /\ Purged(s) /\ fork_edges[s] = {e}
              \/ Takes(s, e, generation)
<1> DEFINE last == e \in fork_edges[s] /\ purge_after_release(s, e)
<1>1. CASE Ours(s, generation) /\ last
  <2> DEFINE t == FlushFor(gc_releases'[s], caller)
  <2>1. purge_stream_tx(s) /\ proc' = [proc EXCEPT ![handler(s)] = t] /\ Unlocked(s)
    BY <1>1 DEF fork_release, Ours
  <2>2. t \in Task /\ t.pc = (IF gc_releases'[s] = {} THEN "free" ELSE "flush")
        /\ t.todo = gc_releases'[s]
    BY <1>1, <2>1, PurgeQueues, FlushIsTask, FlushFields DEF Ours
  <2>3. fork_edges[s] = {e}
    BY <1>1 DEF purge_after_release
  <2> HIDE DEF t
  <2>4. TaskOf(handler(s), t)
    BY <2>1, <2>2, TaskChanges, TaskNames
  <2>5. Purged(s)
    BY <1>1, <2>1, <2>2, <2>4 DEF Purged, TaskOf, Ours
  <2> QED
    BY <1>1, <2>1, <2>3, <2>5
<1>2. CASE ~(Ours(s, generation) /\ last)
  BY <1>2 DEF fork_release, purge_after_release, Takes, Ours
<1> QED
  BY <1>1, <1>2

LEMMA AnswerReleaseEffect ==
    ASSUME TypeOK, Tasks, NEW p \in Procs, answer_release(p)
    PROVE  /\ call[p] # None /\ call[p].op = "release" /\ call[p].status = "sent"
           /\ call[p].to \in Streams /\ call[p].edge \in EdgeIds
           /\ Unlocked(call[p].to) /\ p # handler(call[p].to) /\ late' = late
           /\ CallOf(p, call'[p]) /\ SameCall(call'[p], call[p])
           /\ call'[p].status \in {"running", "done"}
           /\ \/ /\ Ours(call[p].to, call[p].generation) /\ Purged(call[p].to)
                 /\ fork_edges[call[p].to] = {call[p].edge}
              \/ Takes(call[p].to, call[p].edge, call[p].generation)
<1> DEFINE c == call[p]
           s == c.to
           st == IF proc'[handler(s)].pc = "free" THEN "done" ELSE "running"
<1>1. c \in Call /\ s \in Streams /\ c.edge \in EdgeIds /\ c.op = "release" /\ c # None
      /\ c.status = "sent" /\ late' = late
  BY NoneIsNoRow DEF answer_release, TypeOK, Call
<1>2. fork_release(s, c.edge, c.generation, p) /\ call' = [call EXCEPT ![p].status = st]
  BY DEF answer_release
<1>3. /\ Unlocked(s)
      /\ \/ Ours(s, c.generation) /\ Purged(s) /\ fork_edges[s] = {c.edge}
         \/ Takes(s, c.edge, c.generation)
  BY <1>1, <1>2, ReleaseEffect
<1>4. st \in {"running", "done"}
  OBVIOUS
<1>5. CallOf(p, call'[p]) /\ SameCall(call'[p], c) /\ call'[p].status \in {"running", "done"}
  <2> HIDE DEF st
  <2> QED BY <1>1, <1>2, <1>4, StatusChanges DEF CallOf
<1>6. p # handler(s)
  BY <1>1, <1>3 DEF Unlocked, Tasks, Waits
<1> QED
  BY <1>1, <1>3, <1>5, <1>6

(* A late call does the same at its source, and nobody is told. *)
LEMMA LateCallEffect ==
    ASSUME TypeOK, NEW c \in late, late_call(c)
    PROVE  /\ c \in Call /\ c.to \in Streams /\ c.edge \in EdgeIds
           /\ Unlocked(c.to) /\ late' \subseteq late /\ call' = call
           /\ \/ c.op = "acquire" /\ (Granted(c.to, c.edge) \/ Refused(c.to, c.edge))
              \/ /\ c.op = "release" /\ Ours(c.to, c.generation) /\ Purged(c.to)
                 /\ fork_edges[c.to] = {c.edge}
              \/ c.op = "release" /\ Takes(c.to, c.edge, c.generation)
<1>1. c \in Call /\ c.to \in Streams /\ c.edge \in EdgeIds
  BY DEF TypeOK, Call
<1>2. late' \subseteq late /\ call' = call
  BY DEF late_call
<1>3. CASE c.op = "acquire" /\ \E ok \in BOOLEAN : fork_acquire(c.to, c.edge, ok)
  <2> PICK ok \in BOOLEAN : fork_acquire(c.to, c.edge, ok)
    BY <1>3
  <2>1. Unlocked(c.to)
    BY DEF fork_acquire
  <2> QED
    BY <1>1, <1>2, <1>3, <2>1, AcquireEffect
<1>4. CASE c.op = "release" /\ fork_release(c.to, c.edge, c.generation, None)
  <2>1. /\ Unlocked(c.to)
        /\ \/ Ours(c.to, c.generation) /\ Purged(c.to) /\ fork_edges[c.to] = {c.edge}
           \/ Takes(c.to, c.edge, c.generation)
    BY <1>1, <1>4, ReleaseEffect
  <2> QED
    BY <1>1, <1>2, <1>4, <2>1
<1> QED
  BY <1>3, <1>4 DEF late_call

(* A creation waits at the source with the edge of an intent: one that is   *)
(* there, or the next one.                                                  *)
Asked(s, source, e) ==
    /\ TaskOf(handler(s), proc'[handler(s)]) /\ CallOf(handler(s), call'[handler(s)])
    /\ proc'[handler(s)].pc = "acquire" /\ proc'[handler(s)].todo = {}
    /\ call'[handler(s)] # None /\ call'[handler(s)].op = "acquire"
    /\ call'[handler(s)].to = source /\ call'[handler(s)].edge = e
    /\ call'[handler(s)].status = "sent"
    /\ contested \subseteq contested' /\ (e \notin contested' => ~Outstanding(e))

LEMMA CreateEffect ==
    ASSUME TypeOK, Tasks, NEW s \in Streams, NEW source \in Streams, NEW offset \in Offsets,
           create_fork(s, source, offset)
    PROVE  /\ Unlocked(s) /\ meta[s] = None /\ proc[handler(s)].pc = "free"
           /\ \/ /\ UNCHANGED <<fork_intents, armed, edges>>
                 /\ \E i \in fork_intents[s] :
                       i.parent = source /\ i.edge \in EdgeIds /\ Asked(s, source, i.edge)
              \/ /\ edges' = edges + 1 /\ edges' \in EdgeIds /\ Asked(s, source, edges')
                 /\ armed' = [armed EXCEPT ![s] = TRUE]
                 /\ fork_intents' = [fork_intents EXCEPT
                       ![s] = @ \union {[edge |-> edges', parent |-> source, offset |-> offset]}]
<1> DEFINE h == handler(s)
           Ask(edge) ==
              /\ proc' = [proc EXCEPT ![h].pc = "acquire"]
              /\ call' = [call EXCEPT ![h] = Acquire(source, edge)]
              /\ contested' = IF Outstanding(edge) THEN contested \union {edge} ELSE contested
<1>1. Unlocked(s) /\ meta[s] = None /\ proc[h].pc = "free"
  BY DEF create_fork, Unlocked
<1>2. ASSUME NEW e \in EdgeIds, Ask(e) PROVE Asked(s, source, e)
  <2> DEFINE t == [proc[h] EXCEPT !.pc = "acquire"]
             c == Acquire(source, e)
  <2>1. h \in Procs /\ proc[h] \in Task /\ proc[h].todo = {}
    BY <1>1, TaskNames DEF TypeOK, Tasks, Waits
  <2>2. t \in Task /\ t.pc = "acquire" /\ t.todo = {}
    BY <2>1 DEF Task
  <2>3. c \in Call /\ c # None
    BY AcquireIsCall
  <2>4. c.op = "acquire" /\ c.to = source /\ c.edge = e /\ c.status = "sent"
    BY DEF Acquire
  <2>5. proc' = [proc EXCEPT ![h] = t] /\ call' = [call EXCEPT ![h] = c]
    BY <1>2
  <2>6. contested \subseteq contested' /\ (e \notin contested' => ~Outstanding(e))
    BY <1>2
  <2> HIDE DEF t, c, h
  <2>7. TaskOf(h, t) /\ CallOf(h, c)
    BY <2>1, <2>2, <2>3, <2>5, TaskChanges, CallChanges
  <2>8. proc'[h] = t /\ call'[h] = c
    BY <2>7 DEF TaskOf, CallOf
  <2> QED
    BY <2>2, <2>3, <2>4, <2>6, <2>7, <2>8 DEF Asked, h
<1>3. \/ /\ edges < MaxEdges /\ edges' = edges + 1 /\ Ask(edges')
         /\ armed' = [armed EXCEPT ![s] = TRUE]
         /\ fork_intents' = [fork_intents EXCEPT
               ![s] = @ \union {[edge |-> edges', parent |-> source, offset |-> offset]}]
      \/ \E i \in fork_intents[s] :
            i.parent = source /\ Ask(i.edge) /\ UNCHANGED <<fork_intents, armed, edges>>
  BY DEF create_fork
<1> HIDE DEF Ask
<1>4. CASE \E i \in fork_intents[s] :
              i.parent = source /\ Ask(i.edge) /\ UNCHANGED <<fork_intents, armed, edges>>
  <2>1. \A i \in fork_intents[s] : i.edge \in EdgeIds
    BY DEF TypeOK, Intent
  <2> QED
    BY <1>1, <1>2, <1>4, <2>1
<1>5. CASE edges < MaxEdges /\ edges' = edges + 1 /\ Ask(edges')
  <2>1. edges' \in EdgeIds
    BY <1>5, BoundsAreNaturals DEF TypeOK, EdgeIds
  <2>2. Asked(s, source, edges')
    <3> PICK e : e = edges'
      OBVIOUS
    <3>1. e \in EdgeIds /\ Ask(e)
      BY <1>5, <2>1
    <3> QED
      BY <1>2, <3>1
  <2>3. \/ /\ armed' = [armed EXCEPT ![s] = TRUE]
           /\ fork_intents' = [fork_intents EXCEPT
                 ![s] = @ \union {[edge |-> edges', parent |-> source, offset |-> offset]}]
        \/ edges' = edges
    BY <1>3
  <2> QED
    BY <1>1, <1>5, <2>1, <2>2, <2>3 DEF TypeOK
<1> QED
  BY <1>3, <1>4, <1>5

(* A creation that is over leaves its handler free, or flushing when it     *)
(* returns what it acquired.                                                *)
LEMMA CreationEndsEffect ==
    ASSUME TypeOK, NEW s \in Streams,
           create_fork_fails(s) \/ create_fork_refused(s) \/ create_fork_commits(s)
    PROVE  TaskOf(handler(s), Free) /\ CallOf(handler(s), None)
<1>1. proc' = [proc EXCEPT ![handler(s)] = Free] /\ call' = [call EXCEPT ![handler(s)] = None]
  BY DEF create_fork_fails, create_fork_refused, create_fork_commits
<1> QED
  BY <1>1, FreeIsTask, TaskNames, TaskChanges, CallChanges

(* What a handler learns when its acquire was granted. *)
LEMMA HandlerGranted ==
    ASSUME TypeOK, Tasks, NEW s \in Streams, proc[handler(s)].pc = "acquire",
           call[handler(s)].status = "done", call[handler(s)].ok
    PROVE  /\ meta[s] = None /\ call[handler(s)].edge \in EdgeIds
           /\ call[handler(s)].to \in Streams
           /\ call[handler(s)].generation \in Generations
BY TaskNames DEF Tasks, Waits, Answers, TypeOK, Call

(* The release is queued, unless one of the same edge is. *)
LEMMA QueueTypes ==
    ASSUME TypeOK, NEW s \in Streams, NEW edge \in EdgeIds, NEW source \in Streams,
           NEW g \in Generations, enqueue_gc_release(s, edge, source, g)
    PROVE  /\ gc_releases' \in [Streams -> SUBSET GcRelease]
           /\ gc_releases[s] \subseteq gc_releases'[s]
           /\ (\E x \in gc_releases[s] : x.edge = edge) => gc_releases'[s] = gc_releases[s]
           /\ \E x \in gc_releases'[s] : x.edge = edge
           /\ \A x \in gc_releases'[s] :
                 x \in gc_releases[s] \/ (x.edge = edge /\ x.parent = source /\ x.generation = g)
           /\ \A c \in Streams : c # s => gc_releases'[c] = gc_releases[c]
<1> DEFINE r == [edge |-> edge, parent |-> source, generation |-> g]
           old == gc_releases[s]
           new == IF \E x \in old : x.edge = edge THEN old ELSE old \union {r}
<1>1. r \in GcRelease /\ r.edge = edge /\ r.parent = source /\ r.generation = g
  BY DEF GcRelease
<1>2. gc_releases' = [gc_releases EXCEPT ![s] = new]
  BY DEF enqueue_gc_release
<1>3. old \in SUBSET GcRelease
  BY DEF TypeOK
<1> HIDE DEF r
<1>4. new \in SUBSET GcRelease
  BY <1>1, <1>3
<1>5. gc_releases'[s] = new
  <2> HIDE DEF new
  <2> QED BY <1>2 DEF TypeOK
<1>6. gc_releases' \in [Streams -> SUBSET GcRelease]
      /\ \A c \in Streams : c # s => gc_releases'[c] = gc_releases[c]
  <2> HIDE DEF new
  <2> QED BY <1>2, <1>4 DEF TypeOK
<1>7. r \in new \/ (\E x \in old : x.edge = edge)
  OBVIOUS
<1>8. \A x \in new : x \in old \/ x = r
  OBVIOUS
<1>9. old \subseteq new /\ ((\E x \in old : x.edge = edge) => new = old)
  OBVIOUS
<1> HIDE DEF new, old
<1>10. \A x \in new : x \in old \/ (x.edge = edge /\ x.parent = source /\ x.generation = g)
  BY <1>1, <1>8
<1>11. \E x \in new : x.edge = edge
  BY <1>1, <1>7, <1>9
<1> QED
  BY <1>5, <1>6, <1>9, <1>10, <1>11 DEF old

LEMMA DeleteTypes ==
    ASSUME TypeOK, NEW s \in Streams, NEW edge, delete_fork_intent(s, edge)
    PROVE  /\ fork_intents' \in [Streams -> SUBSET Intent]
           /\ fork_intents'[s] = {i \in fork_intents[s] : i.edge # edge}
           /\ \A c \in Streams : c # s => fork_intents'[c] = fork_intents[c]
BY DEF delete_fork_intent, TypeOK

LEMMA FlushFromFields ==
    ASSUME NEW pending \in SUBSET GcRelease
    PROVE  /\ FlushFrom(pending) \in Task
           /\ FlushFrom(pending).pc = (IF pending = {} THEN "free" ELSE "flush")
           /\ FlushFrom(pending).todo = pending
BY FlushIsTask, FlushFields DEF FlushFrom

LEMMA ReturnEffect ==
    ASSUME TypeOK, Tasks, NEW s \in Streams, release_acquired(s)
    PROVE  LET h == handler(s)
           IN  /\ gc_releases' \in [Streams -> SUBSET GcRelease]
               /\ TaskOf(h, proc'[h]) /\ CallOf(h, None)
               /\ proc'[h].pc = (IF gc_releases'[s] = {} THEN "free" ELSE "flush")
               /\ proc'[h].todo = gc_releases'[s]
<1>1. /\ proc[handler(s)].pc = "acquire" /\ call[handler(s)].status = "done"
      /\ call[handler(s)].ok
  BY DEF release_acquired
<1>2. gc_releases' \in [Streams -> SUBSET GcRelease]
  BY <1>1, HandlerGranted, QueueTypes DEF release_acquired
<1>3. gc_releases'[s] \in SUBSET GcRelease
  BY <1>2
<1>4. proc' = [proc EXCEPT ![handler(s)] = FlushFrom(gc_releases'[s])]
  BY DEF release_acquired
<1>5. CallOf(handler(s), None)
  BY TaskNames, CallChanges DEF release_acquired
<1>6. /\ TaskOf(handler(s), proc'[handler(s)]) /\ proc'[handler(s)].todo = gc_releases'[s]
      /\ proc'[handler(s)].pc = (IF gc_releases'[s] = {} THEN "free" ELSE "flush")
  <2>1. handler(s) \in Procs /\ FlushFrom(gc_releases'[s]) \in Task
    BY <1>3, TaskNames, FlushFromFields
  <2>2. TaskOf(handler(s), FlushFrom(gc_releases'[s]))
    BY <1>4, <2>1, TaskChanges
  <2> QED
    BY <1>3, <2>2, FlushFromFields DEF TaskOf
<1> QED
  BY <1>2, <1>5, <1>6

LEMMA MaintenanceEffect ==
    ASSUME TypeOK, Tasks, NEW p \in Runs, run_maintenance(p)
    PROVE  /\ TaskOf(p, proc'[p]) /\ proc'[p].pc \in {"look", "reconcile"}
           /\ proc'[p].todo = {} /\ call[p] = None
<1> DEFINE t == [proc[p] EXCEPT !.pc = IF meta[p[1]] = None THEN "look" ELSE "reconcile"]
<1>1. p \in Procs /\ proc[p] \in Task /\ proc[p].todo = {} /\ call[p] = None
  BY TaskNames DEF TypeOK, Tasks, Waits, run_maintenance
<1>2. t \in Task /\ t.pc \in {"look", "reconcile"} /\ t.todo = {}
  BY <1>1 DEF Task
<1>3. proc' = [proc EXCEPT ![p] = t]
  BY DEF run_maintenance
<1> HIDE DEF t
<1> QED
  BY <1>1, <1>2, <1>3, TaskChanges DEF TaskOf

LEMMA LookEffect ==
    ASSUME TypeOK, NEW p \in Runs, reconcile_fork_intents(p)
    PROVE  /\ TaskOf(p, proc'[p]) /\ proc'[p].pc = "reconcile"
           /\ proc'[p].todo = fork_intents[p[1]]
<1> DEFINE t == [proc[p] EXCEPT !.pc = "reconcile", !.todo = fork_intents[p[1]]]
<1>1. p \in Procs /\ p[1] \in Streams /\ proc[p] \in Task
  BY TaskNames DEF TypeOK
<1>2. fork_intents[p[1]] \in SUBSET (Intent \union GcRelease)
  BY <1>1 DEF TypeOK
<1>3. t \in Task /\ t.pc = "reconcile" /\ t.todo = fork_intents[p[1]]
  BY <1>1, <1>2 DEF Task
<1>4. proc' = [proc EXCEPT ![p] = t]
  BY DEF reconcile_fork_intents
<1> HIDE DEF t
<1> QED
  BY <1>1, <1>3, <1>4, TaskChanges DEF TaskOf

LEMMA ReconcileEndEffect ==
    ASSUME TypeOK, NEW p \in Runs, reconcile_end(p)
    PROVE  /\ TaskOf(p, proc'[p])
           /\ proc'[p].pc = (IF gc_releases[p[1]] = {} THEN "free" ELSE "flush")
           /\ proc'[p].todo = gc_releases[p[1]]
<1>1. p[1] \in Streams
  BY TaskNames
<1>2. gc_releases[p[1]] \in SUBSET GcRelease
  BY <1>1 DEF TypeOK
<1>3. p \in Procs /\ FlushFrom(gc_releases[p[1]]) \in Task
  BY <1>2, TaskNames, FlushFromFields
<1>4. TaskOf(p, FlushFrom(gc_releases[p[1]]))
  BY <1>3, TaskChanges DEF reconcile_end
<1> QED
  BY <1>2, <1>4, FlushFromFields DEF TaskOf

LEMMA ReconcileSendEffect ==
    ASSUME TypeOK, Tasks, NEW p \in Runs, reconcile_send(p)
    PROVE  /\ CallOf(p, call'[p]) /\ proc' = proc /\ proc[p].pc = "reconcile"
           /\ call[p] = None
           /\ call'[p] # None /\ call'[p].op = "acquire" /\ call'[p].status = "sent"
           /\ call'[p].to \in Streams
           /\ contested \subseteq contested'
           /\ call'[p].edge \notin contested' => ~Outstanding(call'[p].edge)
           /\ \E i \in proc[p].todo :
                 /\ i.edge = call'[p].edge /\ i.parent = call'[p].to
                 /\ i.edge \notin contested' => i \in fork_intents[p[1]]
<1> PICK i \in proc[p].todo :
       /\ proc[p].pc = "reconcile" /\ proc' = proc /\ call[p] = None
       /\ call' = [call EXCEPT ![p] = Acquire(i.parent, i.edge)]
       /\ contested' = IF Outstanding(i.edge) \/ i \notin fork_intents[p[1]]
                       THEN contested \union {i.edge} ELSE contested
  BY DEF reconcile_send
<1> DEFINE c == Acquire(i.parent, i.edge)
<1>1. p \in Procs
  BY TaskNames
<1>2. i.parent \in Streams /\ i.edge \in EdgeIds
  BY <1>1 DEF Tasks, Waits, Intent
<1>3. c \in Call /\ c # None
  BY <1>2, AcquireIsCall
<1>4. c.op = "acquire" /\ c.status = "sent" /\ c.edge = i.edge /\ c.to = i.parent
  BY DEF Acquire
<1>5. /\ contested \subseteq contested'
      /\ i.edge \notin contested' => ~Outstanding(i.edge) /\ i \in fork_intents[p[1]]
  OBVIOUS
<1>6. CallOf(p, c)
  <2> HIDE DEF c
  <2> QED BY <1>1, <1>3, CallChanges DEF c
<1>7. call'[p] = c
  BY <1>6 DEF CallOf
<1> HIDE DEF c
<1> QED
  BY <1>2, <1>3, <1>4, <1>5, <1>6, <1>7

LEMMA ReconcileReplyEffect ==
    ASSUME TypeOK, Tasks, NEW p \in Runs, reconcile_reply(p)
    PROVE  /\ TaskOf(p, proc'[p]) /\ CallOf(p, None) /\ proc'[p].pc = "reconcile"
           /\ proc'[p].todo = {i \in proc[p].todo : i.edge # call[p].edge}
<1> DEFINE rest == {i \in proc[p].todo : i.edge # call[p].edge}
           t == [proc[p] EXCEPT !.todo = rest]
<1>1. p \in Procs /\ proc[p] \in Task /\ proc[p].pc = "reconcile"
  BY TaskNames DEF TypeOK, reconcile_reply
<1>2. rest \in SUBSET (Intent \union GcRelease)
  BY <1>1 DEF Task
<1>3. t \in Task /\ t.pc = "reconcile" /\ t.todo = rest
  BY <1>1, <1>2 DEF Task
<1>4. proc' = [proc EXCEPT ![p] = t] /\ call' = [call EXCEPT ![p] = None]
  BY DEF reconcile_reply
<1>5. TaskOf(p, t) /\ CallOf(p, None)
  <2> HIDE DEF t
  <2> QED BY <1>1, <1>3, <1>4, TaskChanges, CallChanges
<1> HIDE DEF t
<1> QED
  BY <1>3, <1>5 DEF TaskOf

(* A crash frees the tasks of its actor, whose calls go on, and fails the   *)
(* calls it was answering: releases, for an acquire is answered in the step *)
(* it runs in.                                                              *)
LEMMA CrashEffect ==
    ASSUME TypeOK, NEW s \in Streams, crash(s)
    PROVE  /\ proc' \in [Procs -> Task] /\ call' \in [Procs -> Call \union {None}]
           /\ \A p \in Procs : IF p[1] = s THEN proc'[p] = Free /\ call'[p] = None
                ELSE /\ proc'[p] = proc[p]
                     /\ \/ call'[p] = call[p]
                        \/ /\ call[p] # None /\ SameCall(call'[p], call[p])
                           /\ call'[p].status = "failed"
           /\ \A x \in late' : \/ x \in late
                               \/ \E p \in Procs : p[1] = s /\ x = call[p] /\ call[p] # None
                                                 /\ call[p].status = "sent"
<1>1. ASSUME NEW p \in Procs, call[p] # None
      PROVE  LET c == [call[p] EXCEPT !.status = "failed"]
             IN  c \in Call /\ SameCall(c, call[p]) /\ c.status = "failed"
  <2> DEFINE c == [call[p] EXCEPT !.status = "failed"]
  <2>1. call[p] \in Call
    BY <1>1 DEF TypeOK
  <2>2. c \in Call /\ c.status = "failed" /\ c.op = call[p].op /\ c.to = call[p].to
        /\ c.edge = call[p].edge /\ c.ok = call[p].ok /\ c.generation = call[p].generation
    BY <2>1 DEF Call
  <2> HIDE DEF c
  <2>3. c # None
    BY <2>2, NoneIsNoRow
  <2> QED
    BY <2>2, <2>3 DEF SameCall, c
<1>2. proc' \in [Procs -> Task] /\ \A p \in Procs : proc'[p] = IF p[1] = s THEN Free ELSE proc[p]
  BY FreeIsTask DEF crash, TypeOK
<1>3. \A p \in Procs :
         call'[p] = IF p[1] = s THEN None
                    ELSE IF call[p] # None /\ call[p].to = s /\ call[p].status = "running"
                      THEN [call[p] EXCEPT !.status = "failed"] ELSE call[p]
  BY DEF crash
<1>4. ASSUME NEW p \in Procs
      PROVE  /\ call'[p] \in Call \union {None}
             /\ IF p[1] = s THEN call'[p] = None
                ELSE \/ call'[p] = call[p]
                     \/ /\ call[p] # None /\ SameCall(call'[p], call[p])
                        /\ call'[p].status = "failed"
  <2>1. call[p] \in Call \union {None}
    BY DEF TypeOK
  <2> QED
    BY <1>1, <1>3, <2>1
<1>5. call' \in [Procs -> Call \union {None}]
  BY <1>4 DEF crash
<1>6. \A x \in late' : \/ x \in late
                      \/ \E p \in Procs : p[1] = s /\ x = call[p] /\ call[p] # None
                                        /\ call[p].status = "sent"
  BY DEF crash
<1> QED
  BY <1>2, <1>4, <1>5, <1>6

(* What a creation gives back, and what a reconciliation settles: the       *)
(* intent goes, and its release is queued if the edge was acquired.         *)
Queued(s, e, src, g) ==
    /\ gc_releases[s] \subseteq gc_releases'[s]
    /\ \A c \in Streams : c # s => gc_releases'[c] = gc_releases[c]
    /\ (\E x \in gc_releases[s] : x.edge = e) => gc_releases'[s] = gc_releases[s]
    /\ \E x \in gc_releases'[s] : x.edge = e
    /\ \A x \in gc_releases'[s] :
          x \in gc_releases[s] \/ (x.edge = e /\ x.parent = src /\ x.generation = g)

Settled(s, e) ==
    /\ \A c \in Streams : c # s => fork_intents'[c] = fork_intents[c]
    /\ fork_intents'[s] = {i \in fork_intents[s] : i.edge # e}

LEMMA QueueIsQueued ==
    ASSUME TypeOK, NEW s \in Streams, NEW edge \in EdgeIds, NEW src \in Streams,
           NEW g \in Generations, enqueue_gc_release(s, edge, src, g)
    PROVE  Queued(s, edge, src, g)
BY QueueTypes DEF Queued

LEMMA ReturnQueues ==
    ASSUME TypeOK, Tasks, NEW s \in Streams, release_acquired(s)
    PROVE  LET h == handler(s)
           IN  /\ UNCHANGED <<meta, fork_edges, contested, edges, late>>
               /\ proc[h].pc = "acquire" /\ call[h].status = "done" /\ call[h].ok
               /\ Settled(s, call[h].edge)
               /\ Queued(s, call[h].edge, call[h].to, call[h].generation)
<1> DEFINE h == handler(s)
<1>1. proc[h].pc = "acquire" /\ call[h].status = "done" /\ call[h].ok
  BY DEF release_acquired
<1>2. call[h].edge \in EdgeIds /\ call[h].to \in Streams
      /\ call[h].generation \in Generations
  BY <1>1, HandlerGranted
<1>3. Queued(s, call[h].edge, call[h].to, call[h].generation)
  BY <1>2, QueueIsQueued DEF release_acquired
<1>4. Settled(s, call[h].edge)
  BY DeleteTypes DEF release_acquired, Settled
<1> QED
  BY <1>1, <1>3, <1>4 DEF release_acquired, bounds

LEMMA ReconcileQueues ==
    ASSUME TypeOK, Tasks, NEW p \in Runs, reconcile_reply(p)
    PROVE  LET s == p[1]
               c == call[p]
           IN  /\ UNCHANGED <<meta, fork_edges, contested, edges, late>>
               /\ proc[p].pc = "reconcile" /\ c # None /\ c.op = "acquire"
               /\ c.edge \in EdgeIds /\ c.to \in Streams
               /\ \/ c.status = "failed" /\ UNCHANGED <<fork_intents, gc_releases>>
                  \/ /\ c.status = "done" /\ ~c.ok /\ Settled(s, c.edge)
                     /\ UNCHANGED gc_releases
                  \/ /\ c.status = "done" /\ c.ok /\ Settled(s, c.edge)
                     /\ Queued(s, c.edge, c.to, c.generation)
<1> DEFINE s == p[1]
           c == call[p]
<1>1. /\ UNCHANGED <<meta, fork_edges, contested, edges, late>>
      /\ proc[p].pc = "reconcile" /\ c # None /\ c.status \in {"done", "failed"}
      /\ p \in Procs /\ s \in Streams
  BY TaskNames DEF reconcile_reply, bounds
<1>2. c.op = "acquire" /\ c.edge \in EdgeIds /\ c.to \in Streams
  BY <1>1 DEF Tasks, Waits, TypeOK, Call
<1>4. CASE c.status = "failed"
  BY <1>1, <1>2, <1>4 DEF reconcile_reply
<1>5. CASE c.status # "failed"
  <2>1. Settled(s, c.edge)
    BY <1>1, <1>5, DeleteTypes DEF reconcile_reply, Settled
  <2>2. CASE c.ok
    <3>1. c.generation \in Generations
      BY <1>1, <1>2, <1>5, <2>2 DEF Tasks, Answers
    <3>2. enqueue_gc_release(s, c.edge, c.to, c.generation)
      BY <1>5, <2>2 DEF reconcile_reply
    <3>3. Queued(s, c.edge, c.to, c.generation)
      BY <1>1, <1>2, <3>1, <3>2, QueueIsQueued
    <3> QED
      BY <1>1, <1>2, <1>5, <2>1, <2>2, <3>3
  <2>3. CASE ~c.ok
    BY <1>1, <1>2, <1>5, <2>1, <2>3 DEF reconcile_reply
  <2> QED
    BY <2>2, <2>3
<1> QED
  BY <1>4, <1>5

-----------------------------------------------------------------------------
(* The invariant, one part at a time *)

LEMMA TypeStep ==
    ASSUME TypeOK, Tasks, [Next]_vars
    PROVE  TypeOK'
<1>1. ASSUME NEW p \in Procs, call_fails(p) PROVE TypeOK'
  <2>1. call[p] \in Call /\ UNCHANGED <<tables, armed, proc, edges, gens>>
    BY <1>1 DEF call_fails, TypeOK
  <2>2. late' \subseteq Call
    BY <1>1, <2>1, CallFailsEffect DEF TypeOK
  <2> QED
    BY <1>1, <2>1, <2>2, CallFailsEffect DEF tables, TypeOK, CallOf
<1>2. ASSUME NEW p \in Procs, flush_send(p) PROVE TypeOK'
  <2>1. call' \in [Procs -> Call \union {None}]
    BY <1>2, FlushSendEffect DEF CallOf
  <2> QED
    BY <1>2, <2>1 DEF flush_send, tables, bounds, TypeOK
<1>3. ASSUME NEW p \in Procs, flush_reply(p) PROVE TypeOK'
  <2>1. gc_releases' \in [Streams -> SUBSET GcRelease]
    BY <1>3 DEF flush_reply, TypeOK
  <2> QED
    BY <1>3, <2>1, FlushReplyEffect DEF flush_reply, bounds, TypeOK, TaskOf, CallOf
<1>4. ASSUME NEW p \in Procs, flush_end(p) PROVE TypeOK'
  <2>1. armed' \in [Streams -> BOOLEAN]
    BY <1>4, RearmIsArmed, TaskNames DEF flush_end
  <2> QED
    BY <1>4, <2>1, FlushEndEffect DEF flush_end, tables, bounds, TypeOK, TaskOf
<1>20. ASSUME NEW s \in Streams, NEW e \in EdgeIds, Granted(s, e) \/ Refused(s, e)
       PROVE  /\ fork_edges' \in [Streams -> SUBSET EdgeIds]
              /\ UNCHANGED <<meta, fork_intents, gc_releases, contested, proc>>
  BY <1>20 DEF Granted, Refused, TypeOK
<1>21. ASSUME NEW s \in Streams, NEW e \in EdgeIds, NEW g, NEW c \in Procs \union {None},
              fork_release(s, e, g, c), Purged(s) \/ Takes(s, e, g)
       PROVE  /\ meta' \in [Streams -> Meta \union {None}]
              /\ fork_edges' \in [Streams -> SUBSET EdgeIds]
              /\ fork_intents' = fork_intents
              /\ gc_releases' \in [Streams -> SUBSET GcRelease]
              /\ armed' \in [Streams -> BOOLEAN]
              /\ proc' \in [Procs -> Task]
  <2>1. armed' \in [Streams -> BOOLEAN]
    BY <1>21, RearmIsArmed DEF fork_release
  <2>2. CASE Purged(s)
    <3>1. gc_releases' \in [Streams -> SUBSET GcRelease]
      BY <2>2, PurgeQueues DEF Purged
    <3> QED
      BY <2>1, <2>2, <3>1 DEF Purged, purge_stream_tx, TaskOf, TypeOK
  <2>3. CASE Takes(s, e, g)
    BY <2>1, <2>3 DEF Takes, TypeOK
  <2> QED
    BY <1>21, <2>2, <2>3
<1>5. ASSUME NEW p \in Procs, answer_acquire(p) PROVE TypeOK'
  <2>1. call[p].to \in Streams /\ call[p].edge \in EdgeIds
        /\ (Granted(call[p].to, call[p].edge) \/ Refused(call[p].to, call[p].edge))
    BY <1>5, AnswerAcquireEffect
  <2>2. call' \in [Procs -> Call \union {None}] /\ late' = late
    BY <1>5, AnswerAcquireEffect DEF CallOf
  <2>3. UNCHANGED <<armed, bounds>>
    BY <1>5 DEF answer_acquire, fork_acquire
  <2> QED
    BY <1>20, <2>1, <2>2, <2>3 DEF bounds, TypeOK
<1>6. ASSUME NEW p \in Procs, answer_release(p) PROVE TypeOK'
  <2>1. /\ call[p].to \in Streams /\ call[p].edge \in EdgeIds
        /\ Purged(call[p].to) \/ Takes(call[p].to, call[p].edge, call[p].generation)
    BY <1>6, AnswerReleaseEffect
  <2>2. call' \in [Procs -> Call \union {None}] /\ late' = late
    BY <1>6, AnswerReleaseEffect DEF CallOf
  <2>3. fork_release(call[p].to, call[p].edge, call[p].generation, p) /\ UNCHANGED bounds
    BY <1>6 DEF answer_release
  <2> QED
    BY <1>21, <2>1, <2>2, <2>3 DEF bounds, TypeOK
<1>22. ASSUME NEW c \in late, late_call(c) PROVE TypeOK'
  <2>1. c.to \in Streams /\ c.edge \in EdgeIds /\ late' \subseteq late /\ call' = call
    BY <1>22, LateCallEffect
  <2>2. UNCHANGED <<edges, gens>>
    BY <1>22 DEF late_call
  <2>3. CASE c.op = "acquire"
    <3>1. Granted(c.to, c.edge) \/ Refused(c.to, c.edge)
      BY <1>22, <2>3, LateCallEffect
    <3>2. armed' = armed
      BY <1>22, <2>3 DEF late_call, fork_acquire
    <3> QED
      BY <1>20, <2>1, <2>2, <3>1, <3>2 DEF TypeOK
  <2>4. CASE c.op = "release"
    <3>1. Purged(c.to) \/ Takes(c.to, c.edge, c.generation)
      BY <1>22, <2>4, LateCallEffect
    <3>2. fork_release(c.to, c.edge, c.generation, None)
      BY <1>22, <2>4 DEF late_call
    <3> QED
      BY <1>21, <2>1, <2>2, <3>1, <3>2 DEF TypeOK
  <2> QED
    BY <1>22, <2>3, <2>4 DEF late_call
<1>23. ASSUME NEW c \in late, lose(c) PROVE TypeOK'
  BY <1>23 DEF lose, tables, bounds, TypeOK
<1>7. ASSUME NEW s \in Streams, retire(s) PROVE TypeOK'
  <2>1. armed' \in [Streams -> BOOLEAN] /\ UNCHANGED <<call, late, bounds>>
    BY <1>7 DEF retire, TypeOK
  <2>2. CASE Purged(s)
    <3>1. gc_releases' \in [Streams -> SUBSET GcRelease]
      BY <2>2, PurgeQueues DEF Purged
    <3> QED
      BY <2>1, <2>2, <3>1 DEF Purged, purge_stream_tx, TaskOf, bounds, TypeOK
  <2>3. CASE ~Purged(s)
    <3>1. [meta[s] EXCEPT !.soft_deleted = TRUE] \in Meta
      <4>1. meta[s] \in Meta
        BY <1>7 DEF retire, TypeOK
      <4> QED
        BY <4>1 DEF Meta
    <3>2. meta' = [meta EXCEPT ![s] = [meta[s] EXCEPT !.soft_deleted = TRUE]]
          /\ UNCHANGED <<fork_edges, fork_intents, gc_releases, proc>>
      BY <1>7, <2>3, RetireEffect
    <3> QED
      BY <2>1, <3>1, <3>2 DEF bounds, TypeOK
  <2> QED
    BY <2>2, <2>3
<1>8. ASSUME NEW s \in Streams, handle_put(s) PROVE TypeOK'
  BY <1>8, BoundsAreNaturals DEF handle_put, Root, Fork, TypeOK, Meta, Generations
<1>9. ASSUME NEW s \in Streams, NEW source \in Streams, NEW offset \in Offsets,
             create_fork(s, source, offset)
      PROVE TypeOK'
  <2>1. fork_intents' \in [Streams -> SUBSET Intent] /\ edges' \in 0 .. MaxEdges
    <3>1. CASE edges' = edges /\ UNCHANGED fork_intents
      BY <3>1 DEF TypeOK
    <3>2. CASE /\ edges' \in EdgeIds
               /\ fork_intents' = [fork_intents EXCEPT
                     ![s] = @ \union {[edge |-> edges', parent |-> source, offset |-> offset]}]
      <4>1. [edge |-> edges', parent |-> source, offset |-> offset] \in Intent
        BY <3>2 DEF Intent
      <4> QED
        BY <3>2, <4>1 DEF TypeOK, EdgeIds
    <3> QED
      BY <1>9, <3>1, <3>2, CreateEffect
  <2>2. armed' \in [Streams -> BOOLEAN]
    <3>1. armed' = armed \/ armed' = [armed EXCEPT ![s] = TRUE]
      BY <1>9 DEF create_fork
    <3> QED
      BY <3>1 DEF TypeOK
  <2>3. proc' \in [Procs -> Task] /\ call' \in [Procs -> Call \union {None}]
    BY <1>9, CreateEffect DEF Asked, TaskOf, CallOf
  <2> QED
    BY <1>9, <2>1, <2>2, <2>3 DEF create_fork, TypeOK
<1>10. ASSUME NEW s \in Streams, create_fork_fails(s) PROVE TypeOK'
  BY <1>10, CreationEndsEffect DEF create_fork_fails, tables, TypeOK, TaskOf, CallOf
<1>11. ASSUME NEW s \in Streams, create_fork_refused(s) PROVE TypeOK'
  <2>1. fork_intents' \in [Streams -> SUBSET Intent]
    BY <1>11, DeleteTypes DEF create_fork_refused
  <2>2. proc' \in [Procs -> Task] /\ call' \in [Procs -> Call \union {None}]
    BY <1>11, CreationEndsEffect DEF TaskOf, CallOf
  <2> QED
    BY <1>11, <2>1, <2>2 DEF create_fork_refused, bounds, TypeOK
<1>12. ASSUME NEW s \in Streams, create_fork_commits(s) PROVE TypeOK'
  <2>1. gens' \in Generations
    BY <1>12, BoundsAreNaturals DEF create_fork_commits, TypeOK, Generations
  <2>2. Fork(s, call[handler(s)].to, call[handler(s)].edge, call[handler(s)].generation) \in Meta
    BY <1>12, <2>1, HandlerGranted DEF create_fork_commits, Fork, Meta
  <2>3. meta' \in [Streams -> Meta \union {None}]
    BY <1>12, <2>2 DEF create_fork_commits, TypeOK
  <2>4. fork_intents' \in [Streams -> SUBSET Intent]
    BY <1>12, DeleteTypes DEF create_fork_commits
  <2>5. proc' \in [Procs -> Task] /\ call' \in [Procs -> Call \union {None}]
    BY <1>12, CreationEndsEffect DEF TaskOf, CallOf
  <2> QED
    BY <1>12, <2>1, <2>3, <2>4, <2>5 DEF create_fork_commits, TypeOK, Generations
<1>13. ASSUME NEW s \in Streams, release_acquired(s) PROVE TypeOK'
  <2>1. armed' \in [Streams -> BOOLEAN]
    BY <1>13 DEF release_acquired, TypeOK
  <2>2. fork_intents' \in [Streams -> SUBSET Intent]
    BY <1>13, DeleteTypes DEF release_acquired
  <2>3. /\ proc' \in [Procs -> Task] /\ call' \in [Procs -> Call \union {None}]
        /\ gc_releases' \in [Streams -> SUBSET GcRelease]
    BY <1>13, ReturnEffect DEF TaskOf, CallOf
  <2> QED
    BY <1>13, <2>1, <2>2, <2>3 DEF release_acquired, bounds, TypeOK
<1>14. ASSUME NEW p \in Runs, run_maintenance(p), armed' \in [Streams -> BOOLEAN] PROVE TypeOK'
  BY <1>14, MaintenanceEffect DEF run_maintenance, tables, TypeOK, TaskOf
<1>15. ASSUME NEW p \in Runs, Maintenance(p) \/ stray_maintenance(p) PROVE TypeOK'
  <2>1. run_maintenance(p) /\ (armed' = armed \/ armed' = [armed EXCEPT ![p[1]] = FALSE])
    BY <1>15 DEF Maintenance, stray_maintenance
  <2>2. armed' \in [Streams -> BOOLEAN]
    BY <2>1 DEF TypeOK
  <2> QED
    BY <1>14, <2>1, <2>2
<1>16. ASSUME NEW p \in Runs, reconcile_fork_intents(p) PROVE TypeOK'
  BY <1>16, LookEffect DEF reconcile_fork_intents, tables, bounds, TypeOK, TaskOf
<1>17. ASSUME NEW p \in Runs, reconcile_send(p) PROVE TypeOK'
  <2>1. call' \in [Procs -> Call \union {None}]
    BY <1>17, ReconcileSendEffect DEF CallOf
  <2> QED
    BY <1>17, <2>1 DEF reconcile_send, bounds, TypeOK
<1>18. ASSUME NEW p \in Runs, reconcile_reply(p) PROVE TypeOK'
  <2> DEFINE c == call[p]
             s == p[1]
  <2>0. s \in Streams
    BY TaskNames
  <2>1. armed' \in [Streams -> BOOLEAN]
    BY <1>18, <2>0, RearmIsArmed DEF reconcile_reply
  <2>2. c # None /\ c.op = "acquire" /\ c.to \in Streams /\ c.edge \in EdgeIds
        /\ (c.status = "done" /\ c.ok => c.generation \in Generations)
    BY <1>18, TaskNames DEF reconcile_reply, Tasks, Waits, Answers, TypeOK, Call
  <2>3. gc_releases' \in [Streams -> SUBSET GcRelease]
    <3>1. CASE UNCHANGED gc_releases
      BY <3>1 DEF TypeOK
    <3>2. CASE c.status = "done" /\ c.ok /\ enqueue_gc_release(s, c.edge, c.to, c.generation)
      BY <2>0, <2>2, <3>2, QueueTypes
    <3> QED
      BY <1>18, <3>1, <3>2 DEF reconcile_reply
  <2>4. fork_intents' \in [Streams -> SUBSET Intent]
    BY <1>18, <2>0, DeleteTypes DEF reconcile_reply, TypeOK
  <2> QED
    BY <1>18, <2>1, <2>3, <2>4, ReconcileReplyEffect DEF reconcile_reply, bounds, TypeOK,
       TaskOf, CallOf
<1>24. ASSUME NEW p \in Runs, reconcile_end(p) PROVE TypeOK'
  BY <1>24, ReconcileEndEffect DEF reconcile_end, tables, bounds, TypeOK, TaskOf
<1>25. ASSUME NEW s \in Streams, crash(s) PROVE TypeOK'
  <2>1. late' \subseteq Call
    BY <1>25, CrashEffect DEF TypeOK
  <2> QED
    BY <1>25, <2>1, CrashEffect DEF crash, tables, TypeOK
<1>19. CASE UNCHANGED vars
  BY <1>19 DEF vars, tables, bounds, TypeOK
<1> QED
  BY <1>1, <1>2, <1>3, <1>4, <1>5, <1>6, <1>7, <1>8, <1>9, <1>10, <1>11, <1>12, <1>13, <1>15,
     <1>16, <1>17, <1>18, <1>19, <1>22, <1>23, <1>24, <1>25
  DEF Next, Progress, Creation, Upkeep, Clients, Network

LEMMA TaskKept ==
    ASSUME NEW q \in Procs, Waits(q), Answers(q), proc'[q] = proc[q], call'[q] = call[q],
           proc[q].pc = "acquire" => meta'[q[1]] = None
    PROVE  Waits(q)' /\ Answers(q)'
BY DEF Waits, Answers

LEMMA TaskOfCall ==
    ASSUME NEW q \in Procs, Waits(q), Answers(q), proc'[q] = proc[q], call[q] # None,
           SameCall(call'[q], call[q]), call[q].op = "acquire" => call'[q].status = "failed",
           proc[q].pc = "acquire" => meta'[q[1]] = None
    PROVE  Waits(q)' /\ Answers(q)'
BY DEF Waits, Answers, SameCall

LEMMA TaskFree ==
    ASSUME NEW q \in Procs, proc'[q].pc = "free", proc'[q].todo = {}, call'[q] = None
    PROVE  Waits(q)' /\ Answers(q)'
BY DEF Waits, Answers

LEMMA TaskFlush ==
    ASSUME NEW q \in Procs, proc'[q].pc = "flush" \/ proc'[q].pc = "free", call'[q] = None,
           proc'[q].todo \subseteq GcRelease, proc'[q].pc = "free" => proc'[q].todo = {}
    PROVE  Waits(q)' /\ Answers(q)'
BY DEF Waits, Answers

LEMMA TasksStep ==
    ASSUME TypeOK, TypeOK', Tasks, [Next]_vars
    PROVE  Tasks'
<1> SUFFICES ASSUME NEW q \in Procs
             PROVE  Waits(q)' /\ Answers(q)'
  BY DEF Tasks
<1>0. Waits(q) /\ Answers(q)
  BY DEF Tasks
<1>1. ASSUME NEW p \in Procs, call_fails(p) PROVE Waits(q)' /\ Answers(q)'
  <2>1. UNCHANGED <<meta, proc>> /\ call[p] # None
    BY <1>1 DEF call_fails, tables
  <2>2. CASE q = p
    BY <1>0, <1>1, <2>1, <2>2, CallFailsEffect, TaskOfCall DEF Waits
  <2>3. CASE q # p
    BY <1>0, <1>1, <2>1, <2>3, CallFailsEffect, TaskKept DEF Waits, CallOf
  <2> QED
    BY <2>2, <2>3
<1>2. ASSUME NEW p \in Procs, flush_send(p) PROVE Waits(q)' /\ Answers(q)'
  <2>1. UNCHANGED <<meta, proc>> /\ proc[p].pc = "flush"
    BY <1>2 DEF flush_send, tables
  <2>2. CASE q = p
    <3>1. PICK g \in proc[p].todo : g \in GcRelease /\ call'[p] = Release(g) /\ Release(g) # None
      BY <1>2, FlushSendEffect, ReleaseIsCall DEF CallOf
    <3>2. Release(g).op = "release" /\ Release(g).edge = g.edge /\ Release(g).to = g.parent
          /\ Release(g).generation = g.generation
      BY DEF Release
    <3> QED
      BY <1>0, <2>1, <2>2, <3>1, <3>2 DEF Waits, Answers
  <2>3. CASE q # p
    BY <1>0, <1>2, <2>1, <2>3, FlushSendEffect, TaskKept DEF Waits, CallOf
  <2> QED
    BY <2>2, <2>3
<1>3. ASSUME NEW p \in Procs, flush_reply(p) PROVE Waits(q)' /\ Answers(q)'
  <2>1. UNCHANGED meta /\ proc[p].pc = "flush"
    BY <1>3 DEF flush_reply
  <2>2. CASE q = p
    <3>1. proc'[q].todo \subseteq GcRelease /\ proc'[q].pc = "flush" /\ call'[q] = None
      BY <1>0, <1>3, <2>1, <2>2, FlushReplyEffect DEF Waits, CallOf
    <3> QED
      BY <3>1, TaskFlush
  <2>3. CASE q # p
    BY <1>0, <1>3, <2>1, <2>3, FlushReplyEffect, TaskKept DEF Waits, CallOf, TaskOf
  <2> QED
    BY <2>2, <2>3
<1>4. ASSUME NEW p \in Procs, flush_end(p) PROVE Waits(q)' /\ Answers(q)'
  <2>1. UNCHANGED meta /\ call[p] = None
    BY <1>4 DEF flush_end, tables
  <2>2. CASE q = p
    <3>1. proc'[q] = Free /\ call'[q] = None
      BY <1>4, <2>1, <2>2, FlushEndEffect DEF TaskOf
    <3> QED
      BY <3>1, TaskFree DEF Free
  <2>3. CASE q # p
    <3>1. proc'[q] = proc[q]
      BY <1>4, <2>3, FlushEndEffect DEF TaskOf
    <3>2. CASE call'[q] = call[q]
      BY <1>0, <2>1, <3>1, <3>2, TaskKept DEF Waits
    <3>3. CASE call[q] # None /\ call[q].status = "running" /\ SameCall(call'[q], call[q])
      <4>1. call[q].op # "acquire"
        BY <1>0, <3>3 DEF Answers
      <4> QED
        BY <1>0, <2>1, <3>1, <3>3, <4>1, TaskOfCall DEF Waits
    <3> QED
      BY <1>4, <3>2, <3>3, FlushEndEffect
  <2> QED
    BY <2>2, <2>3
<1>20. ASSUME NEW s, NEW e, Granted(s, e) \/ Refused(s, e) PROVE UNCHANGED <<meta, proc>>
  BY <1>20 DEF Granted, Refused
<1>5. ASSUME NEW p \in Procs, answer_acquire(p) PROVE Waits(q)' /\ Answers(q)'
  <2>1. UNCHANGED <<meta, proc>>
    BY <1>5, <1>20, AnswerAcquireEffect
  <2>2. CASE q = p
    <3>1. /\ call[p] # None /\ call[p].op = "acquire"
          /\ call'[p] # None /\ call'[p].op = "acquire" /\ call'[p].to = call[p].to
          /\ call'[p].edge = call[p].edge /\ call'[p].status = "done"
          /\ call'[p].ok = TRUE => call'[p].generation \in Generations
      BY <1>5, AnswerAcquireEffect
    <3>2. Waits(q)'
      BY <1>0, <2>1, <2>2, <3>1 DEF Waits
    <3>3. call'[p].ok => call'[p].ok = TRUE
      BY <2>2, <3>1 DEF TypeOK, Call
    <3> QED
      BY <2>2, <3>1, <3>2, <3>3 DEF Answers
  <2>3. CASE q # p
    BY <1>0, <1>5, <2>1, <2>3, AnswerAcquireEffect, TaskKept DEF Waits, CallOf
  <2> QED
    BY <2>2, <2>3
<1>6. ASSUME NEW s \in Streams, Purged(s), q # handler(s), call'[q] = call[q]
      PROVE  Waits(q)' /\ Answers(q)'
  <2>1. proc'[q] = proc[q] /\ (meta'[q[1]] = None \/ meta'[q[1]] = meta[q[1]])
    BY <1>6, TaskNames DEF Purged, TaskOf, purge_stream_tx, TypeOK
  <2> QED
    BY <1>0, <1>6, <2>1, TaskKept DEF Waits
<1>7. ASSUME NEW s \in Streams, Purged(s), q = handler(s), call'[q] = call[q]
      PROVE  Waits(q)' /\ Answers(q)'
  <2>1. call[q] = None /\ (proc'[q].pc = "flush" \/ proc'[q].pc = "free")
        /\ proc'[q].todo \subseteq GcRelease /\ (proc'[q].pc = "free" => proc'[q].todo = {})
    BY <1>0, <1>7, PurgeQueues DEF Purged, Unlocked, Waits
  <2> QED
    BY <1>7, <2>1, TaskFlush
<1>8. ASSUME NEW p \in Procs, answer_release(p) PROVE Waits(q)' /\ Answers(q)'
  <2> DEFINE s == call[p].to
  <2>0. /\ s \in Streams /\ call[p] # None /\ call[p].op = "release"
        /\ SameCall(call'[p], call[p]) /\ (q # p => call'[q] = call[q])
        /\ (Purged(s) /\ p # handler(s)) \/ (UNCHANGED <<meta, proc>>)
    BY <1>8, AnswerReleaseEffect DEF CallOf, Takes
  <2>1. CASE q # p
    BY <1>0, <1>6, <1>7, <2>0, <2>1, TaskKept DEF Waits
  <2>2. CASE q = p
    <3>1. proc'[q] = proc[q] /\ (meta'[q[1]] = None \/ meta'[q[1]] = meta[q[1]])
      BY <2>0, <2>2, TaskNames DEF Purged, TaskOf, purge_stream_tx, TypeOK
    <3> QED
      BY <1>0, <2>0, <2>2, <3>1, TaskOfCall DEF Waits
  <2> QED
    BY <2>1, <2>2
<1>21. ASSUME NEW c \in late, late_call(c) PROVE Waits(q)' /\ Answers(q)'
  <2>1. /\ call' = call /\ c.to \in Streams
        /\ Purged(c.to) \/ UNCHANGED <<meta, proc>>
    BY <1>20, <1>21, LateCallEffect DEF Takes
  <2> QED
    BY <1>0, <1>6, <1>7, <2>1, TaskKept DEF Waits
<1>22. ASSUME NEW c \in late, lose(c) PROVE Waits(q)' /\ Answers(q)'
  BY <1>0, <1>22, TaskKept DEF lose, tables, Waits
<1>9. ASSUME NEW s \in Streams, retire(s) PROVE Waits(q)' /\ Answers(q)'
  <2>1. call' = call
    BY <1>9 DEF retire
  <2>2. CASE Purged(s)
    BY <1>6, <1>7, <2>1, <2>2
  <2>3. CASE ~Purged(s)
    <3>1. proc' = proc /\ meta[s] # None /\ meta' = [meta EXCEPT ![s].soft_deleted = TRUE]
      BY <1>9, <2>3, RetireEffect
    <3>2. meta[q[1]] = None => meta'[q[1]] = None
      BY <3>1, TaskNames DEF TypeOK
    <3> QED
      BY <1>0, <2>1, <3>1, <3>2, TaskKept DEF Waits
  <2> QED
    BY <2>2, <2>3
<1>10. ASSUME NEW s \in Streams, handle_put(s) PROVE Waits(q)' /\ Answers(q)'
  <2>1. proc' = proc /\ call' = call /\ proc[handler(s)].pc = "free"
        /\ meta' = [meta EXCEPT ![s] = Root(s)]
    BY <1>10 DEF handle_put, Unlocked
  <2>2. proc[q].pc = "acquire" => meta'[q[1]] = None
    BY <1>0, <2>1 DEF Waits, TypeOK
  <2> QED
    BY <1>0, <2>1, <2>2, TaskKept
<1>11. ASSUME NEW s \in Streams, NEW source \in Streams, NEW offset \in Offsets,
              create_fork(s, source, offset)
       PROVE  Waits(q)' /\ Answers(q)'
  <2>1. UNCHANGED meta /\ meta[s] = None /\ \E e : Asked(s, source, e)
    BY <1>11, CreateEffect DEF create_fork
  <2>2. CASE q = handler(s)
    BY <2>1, <2>2, TaskNames DEF Waits, Answers, Asked
  <2>3. CASE q # handler(s)
    BY <1>0, <2>1, <2>3, TaskKept DEF Waits, Asked, CallOf, TaskOf
  <2> QED
    BY <2>2, <2>3
<1>12. ASSUME NEW s \in Streams,
              create_fork_fails(s) \/ create_fork_refused(s) \/ create_fork_commits(s)
       PROVE  Waits(q)' /\ Answers(q)'
  <2>1. TaskOf(handler(s), Free) /\ CallOf(handler(s), None)
    BY <1>12, CreationEndsEffect
  <2>2. CASE q = handler(s)
    BY <2>1, <2>2, TaskFree DEF TaskOf, CallOf, Free
  <2>3. CASE q # handler(s)
    <3>1. proc[q].pc = "acquire" => q[1] # s
      BY <1>0, <2>3 DEF Waits
    <3>2. q[1] # s => meta'[q[1]] = meta[q[1]]
      BY <1>12, TaskNames DEF create_fork_fails, create_fork_refused, create_fork_commits,
         tables, TypeOK
    <3> QED
      BY <1>0, <2>1, <2>3, <3>1, <3>2, TaskKept DEF Waits, TaskOf, CallOf
  <2> QED
    BY <2>2, <2>3
<1>13. ASSUME NEW s \in Streams, release_acquired(s) PROVE Waits(q)' /\ Answers(q)'
  <2>1. UNCHANGED meta
    BY <1>13 DEF release_acquired
  <2>2. CASE q = handler(s)
    <3>1. /\ proc'[q].pc = "flush" \/ proc'[q].pc = "free"
          /\ call'[q] = None /\ proc'[q].todo \subseteq GcRelease
          /\ proc'[q].pc = "free" => proc'[q].todo = {}
      BY <1>13, <2>2, ReturnEffect DEF CallOf
    <3> QED
      BY <3>1, TaskFlush
  <2>3. CASE q # handler(s)
    BY <1>0, <1>13, <2>1, <2>3, ReturnEffect, TaskKept DEF Waits, CallOf, TaskOf
  <2> QED
    BY <2>2, <2>3
<1>14. ASSUME NEW p \in Runs, run_maintenance(p) PROVE Waits(q)' /\ Answers(q)'
  <2>1. UNCHANGED <<meta, call>>
    BY <1>14 DEF run_maintenance, tables
  <2>2. CASE q = p
    <3>1. /\ call'[q] = None /\ proc'[q].pc \in {"look", "reconcile"} /\ proc'[q].todo = {}
          /\ q \in Runs
      BY <1>14, <2>1, <2>2, MaintenanceEffect
    <3> QED
      BY <3>1 DEF Waits, Answers
  <2>3. CASE q # p
    BY <1>0, <1>14, <2>1, <2>3, MaintenanceEffect, TaskKept DEF Waits, TaskOf
  <2> QED
    BY <2>2, <2>3
<1>15. ASSUME NEW p \in Runs, reconcile_fork_intents(p) PROVE Waits(q)' /\ Answers(q)'
  <2>1. UNCHANGED <<meta, call>> /\ proc[p].pc = "look" /\ p[1] \in Streams
    BY <1>15, TaskNames DEF reconcile_fork_intents, tables
  <2>2. CASE q = p
    <3>1. /\ call'[q] = None /\ proc'[q].pc = "reconcile" /\ proc'[q].todo \subseteq Intent
          /\ q \in Runs
      BY <1>0, <1>15, <2>1, <2>2, LookEffect DEF Waits, TypeOK
    <3> QED
      BY <3>1 DEF Waits, Answers
  <2>3. CASE q # p
    BY <1>0, <1>15, <2>1, <2>3, LookEffect, TaskKept DEF Waits, TaskOf
  <2> QED
    BY <2>2, <2>3
<1>16. ASSUME NEW p \in Runs, reconcile_send(p) PROVE Waits(q)' /\ Answers(q)'
  <2>1. UNCHANGED <<meta, proc>> /\ proc[p].pc = "reconcile"
    BY <1>16 DEF reconcile_send
  <2>2. CASE q = p
    BY <1>0, <1>16, <2>1, <2>2, ReconcileSendEffect DEF Waits, Answers
  <2>3. CASE q # p
    BY <1>0, <1>16, <2>1, <2>3, ReconcileSendEffect, TaskKept DEF Waits, CallOf
  <2> QED
    BY <2>2, <2>3
<1>17. ASSUME NEW p \in Runs, reconcile_reply(p) PROVE Waits(q)' /\ Answers(q)'
  <2>1. UNCHANGED meta /\ proc[p].pc = "reconcile"
    BY <1>17 DEF reconcile_reply
  <2>2. CASE q = p
    <3>1. /\ proc'[q].pc = "reconcile" /\ call'[q] = None
          /\ proc'[q].todo \subseteq proc[q].todo /\ proc[q].todo \subseteq Intent
      BY <1>0, <1>17, <2>1, <2>2, ReconcileReplyEffect DEF CallOf, Waits
    <3> QED
      BY <2>2, <3>1 DEF Waits, Answers
  <2>3. CASE q # p
    BY <1>0, <1>17, <2>1, <2>3, ReconcileReplyEffect, TaskKept DEF Waits, TaskOf, CallOf
  <2> QED
    BY <2>2, <2>3
<1>23. ASSUME NEW p \in Runs, reconcile_end(p) PROVE Waits(q)' /\ Answers(q)'
  <2>1. UNCHANGED <<meta, call>> /\ call[p] = None /\ p[1] \in Streams
    BY <1>23, TaskNames DEF reconcile_end, tables
  <2>2. CASE q = p
    <3>1. /\ proc'[q].pc = (IF gc_releases[p[1]] = {} THEN "free" ELSE "flush")
          /\ proc'[q].todo = gc_releases[p[1]] /\ call'[q] = None
      BY <1>23, <2>1, <2>2, ReconcileEndEffect
    <3> QED
      BY <2>1, <3>1, TaskFlush DEF TypeOK
  <2>3. CASE q # p
    BY <1>0, <1>23, <2>1, <2>3, ReconcileEndEffect, TaskKept DEF Waits, TaskOf
  <2> QED
    BY <2>2, <2>3
<1>18. ASSUME NEW s \in Streams, crash(s) PROVE Waits(q)' /\ Answers(q)'
  <2>1. UNCHANGED meta
    BY <1>18 DEF crash, tables
  <2>2. CASE q[1] = s
    BY <1>18, <2>2, CrashEffect, TaskFree DEF Free
  <2>3. CASE q[1] # s
    BY <1>0, <1>18, <2>1, <2>3, CrashEffect, TaskKept, TaskOfCall DEF Waits
  <2> QED
    BY <2>2, <2>3
<1>19. CASE UNCHANGED vars
  BY <1>0, <1>19, TaskKept DEF vars, tables, Waits
<1> QED
  BY <1>1, <1>2, <1>3, <1>4, <1>5, <1>8, <1>9, <1>10, <1>11, <1>12, <1>13, <1>14, <1>15,
     <1>16, <1>17, <1>18, <1>19, <1>21, <1>22, <1>23
  DEF Next, Progress, Creation, Upkeep, Clients, Network, Maintenance, stray_maintenance

(* A stream that is not there is the source of nothing. *)
NoEdges == \A s \in Streams : meta[s] = None => fork_edges[s] = {}

LEMMA LifeStep ==
    ASSUME TypeOK, Tasks, NoEdges, NoZombie, [Next]_vars
    PROVE  NoEdges' /\ NoZombie'
<1> USE DEF NoEdges, NoZombie
<1>1. CASE UNCHANGED <<meta, fork_edges>>
  BY <1>1
<1>2. ASSUME NEW s \in Streams, NEW e, Granted(s, e) \/ Refused(s, e)
      PROVE  NoEdges' /\ NoZombie'
  BY <1>2 DEF Granted, Refused, TypeOK
<1>3. ASSUME NEW s \in Streams, Purged(s) PROVE NoEdges' /\ NoZombie'
  BY <1>3 DEF Purged, purge_stream_tx, TypeOK
<1>4. ASSUME NEW s \in Streams, NEW e, NEW g, Takes(s, e, g) PROVE NoEdges' /\ NoZombie'
  BY <1>4 DEF Takes, Ours, TypeOK
<1>11. ASSUME NEW p \in Procs, answer_acquire(p) \/ answer_release(p)
       PROVE  NoEdges' /\ NoZombie'
  BY <1>2, <1>3, <1>4, <1>11, AnswerAcquireEffect, AnswerReleaseEffect
<1>12. ASSUME NEW c \in late, late_call(c) PROVE NoEdges' /\ NoZombie'
  BY <1>2, <1>3, <1>4, <1>12, LateCallEffect
<1>5. ASSUME NEW s \in Streams, retire(s) PROVE NoEdges' /\ NoZombie'
  <2>1. CASE Purged(s)
    BY <1>3, <2>1
  <2>2. CASE ~Purged(s)
    <3> DEFINE row == [meta[s] EXCEPT !.soft_deleted = TRUE]
    <3>1. fork_edges[s] # {} /\ UNCHANGED fork_edges /\ meta[s] \in Meta
      BY <1>5, <2>2, RetireEffect DEF TypeOK
    <3>2. row # None
      BY <3>1, NoneIsNoRow DEF Meta
    <3>3. meta' = [meta EXCEPT ![s] = row]
      BY <1>5, <2>2, RetireEffect
    <3> HIDE DEF row
    <3> QED
      BY <3>1, <3>2, <3>3 DEF TypeOK
  <2> QED
    BY <2>1, <2>2
<1>6. ASSUME NEW s \in Streams, handle_put(s) PROVE NoEdges' /\ NoZombie'
  <2>1. Root(s) # None /\ Root(s).soft_deleted = FALSE
    <3>1. Root(s) \in Meta
      BY <1>6, BoundsAreNaturals DEF handle_put, Root, Fork, Meta, TypeOK, Generations
    <3> QED
      BY <3>1, NoneIsNoRow DEF Root, Fork
  <2> QED
    BY <1>6, <2>1 DEF handle_put, TypeOK
<1>7. ASSUME NEW s \in Streams, create_fork_commits(s) PROVE NoEdges' /\ NoZombie'
  <2> DEFINE row == Fork(s, call[handler(s)].to, call[handler(s)].edge, call[handler(s)].generation)
  <2>1. row # None /\ row.soft_deleted = FALSE
    <3>1. row \in Meta
      BY <1>7, HandlerGranted, BoundsAreNaturals DEF create_fork_commits, Fork, Meta, TypeOK,
         Generations
    <3> QED
      BY <3>1, NoneIsNoRow DEF Fork
  <2>2. meta' = [meta EXCEPT ![s] = row] /\ UNCHANGED fork_edges
    BY <1>7 DEF create_fork_commits
  <2> HIDE DEF row
  <2> QED
    BY <2>1, <2>2 DEF TypeOK
<1>8. ASSUME NEW p \in Procs, flush_send(p) \/ flush_reply(p) \/ flush_end(p) \/ call_fails(p)
      PROVE  UNCHANGED <<meta, fork_edges>>
  BY <1>8 DEF flush_send, flush_reply, flush_end, call_fails, tables
<1>9. ASSUME NEW s \in Streams,
             \/ create_fork_fails(s) \/ create_fork_refused(s) \/ release_acquired(s) \/ crash(s)
             \/ \E source \in Streams, offset \in Offsets : create_fork(s, source, offset)
      PROVE  UNCHANGED <<meta, fork_edges>>
  BY <1>9 DEF create_fork_fails, create_fork_refused, release_acquired, create_fork, crash,
              tables
<1>13. ASSUME NEW p \in Runs, Upkeep(p) \/ stray_maintenance(p)
       PROVE  UNCHANGED <<meta, fork_edges>>
  BY <1>13 DEF Upkeep, Maintenance, stray_maintenance, run_maintenance,
               reconcile_fork_intents, reconcile_send, reconcile_reply, reconcile_end, tables
<1>14. ASSUME NEW c \in late, lose(c) PROVE UNCHANGED <<meta, fork_edges>>
  BY <1>14 DEF lose, tables
<1>10. CASE UNCHANGED vars
  BY <1>1, <1>10 DEF vars, tables
<1> QED
  BY <1>1, <1>5, <1>6, <1>7, <1>8, <1>9, <1>10, <1>11, <1>12, <1>13, <1>14
  DEF Next, Progress, Creation, Clients, Network

-----------------------------------------------------------------------------
(* The edges.  Every edge that was handed out is of one child and of one    *)
(* source, whatever row, task or call names it.                             *)

Rightful(child, source, e, c, s) == e <= edges /\ child[e] = c /\ source[e] = s

EdgesAssigned(source) ==
    \A s \in Streams : \A e \in fork_edges[s] : e <= edges /\ source[e] = s
RowsAssigned(child, source, c) ==
    \A x \in fork_intents[c] \union gc_releases[c] :
        Rightful(child, source, x.edge, c, x.parent)
ForkAssigned(child, source, c) ==
    IsFork(c) => Rightful(child, source, meta[c].edge, c, meta[c].parent)
TaskAssigned(child, source, p) ==
    \A x \in proc[p].todo : Rightful(child, source, x.edge, p[1], x.parent)

Assigned(child, source) ==
    /\ EdgesAssigned(source)
    /\ \A c \in Streams : RowsAssigned(child, source, c) /\ ForkAssigned(child, source, c)
    /\ \A p \in Procs : TaskAssigned(child, source, p)

(* The same of the calls: a late one is only known by its source. *)
Called(child, source) ==
    /\ \A p \in Procs :
          call[p] # None => Rightful(child, source, call[p].edge, p[1], call[p].to)
    /\ \A x \in late : x.edge <= edges /\ source[x.edge] = x.to

LEMMA TablesKeepAssigned ==
    ASSUME NEW child, NEW source, Assigned(child, source),
           UNCHANGED <<meta, fork_edges, fork_intents, gc_releases, edges>>
    PROVE  /\ EdgesAssigned(source)'
           /\ \A c \in Streams :
                 RowsAssigned(child, source, c)' /\ ForkAssigned(child, source, c)'
BY DEF Assigned, EdgesAssigned, RowsAssigned, ForkAssigned, IsFork, Rightful

LEMMA TaskKeepsAssigned ==
    ASSUME NEW child, NEW source, Assigned(child, source), NEW p \in Procs,
           proc'[p].todo \subseteq proc[p].todo, UNCHANGED edges
    PROVE  TaskAssigned(child, source, p)'
BY DEF Assigned, TaskAssigned, Rightful

(* A flush of what a stream has queued. *)
LEMMA FlushAssigned ==
    ASSUME NEW child, NEW source, NEW p \in Procs,
           proc'[p].todo = gc_releases'[p[1]], RowsAssigned(child, source, p[1])'
    PROVE  TaskAssigned(child, source, p)'
BY DEF TaskAssigned, RowsAssigned

LEMMA PurgeKeepsAssigned ==
    ASSUME TypeOK, NEW child, NEW source, Assigned(child, source), NEW s \in Streams,
           Purged(s), UNCHANGED edges
    PROVE  Assigned(child, source)'
<1>1. /\ meta' = [meta EXCEPT ![s] = None] /\ fork_edges' = [fork_edges EXCEPT ![s] = {}]
      /\ UNCHANGED fork_intents
  BY DEF Purged, purge_stream_tx
<1>2. EdgesAssigned(source)'
  BY <1>1 DEF Assigned, EdgesAssigned, TypeOK
<1>3. ASSUME NEW c \in Streams
      PROVE  RowsAssigned(child, source, c)' /\ ForkAssigned(child, source, c)'
  <2>1. ForkAssigned(child, source, c)'
    BY <1>1, <1>3 DEF Assigned, ForkAssigned, IsFork, Rightful, TypeOK
  <2>2. \A x \in owed(s) : Rightful(child, source, x.edge, s, x.parent)
    BY DEF owed, Assigned, ForkAssigned, IsFork, Purged
  <2>3. gc_releases'[c] \subseteq gc_releases[c] \union (IF c = s THEN owed(s) ELSE {})
    BY PurgeQueues DEF Purged
  <2>4. RowsAssigned(child, source, c)'
    BY <1>1, <2>2, <2>3 DEF Assigned, RowsAssigned, Rightful
  <2> QED
    BY <2>1, <2>4
<1>4. ASSUME NEW p \in Procs PROVE TaskAssigned(child, source, p)'
  <2>1. CASE p = handler(s)
    BY <1>3, <2>1, FlushAssigned, TaskNames DEF Purged
  <2>2. CASE p # handler(s)
    BY <2>2, TaskKeepsAssigned DEF Purged, TaskOf
  <2> QED
    BY <2>1, <2>2
<1> QED
  BY <1>2, <1>3, <1>4 DEF Assigned

LEMMA AssignedStep ==
    ASSUME TypeOK, Tasks, NEW child, NEW source, Assigned(child, source),
           Called(child, source), Next,
           \A s, src \in Streams, o \in Offsets : create_fork(s, src, o) /\ edges' # edges =>
               child[edges'] = s /\ source[edges'] = src
    PROVE  Assigned(child, source)'
<1> DEFINE A == Assigned(child, source)'
<1>1. ASSUME UNCHANGED <<meta, fork_edges, fork_intents, gc_releases, edges, proc>> PROVE A
  BY <1>1, TablesKeepAssigned, TaskKeepsAssigned DEF Assigned, TaskAssigned, Rightful
<1>2. ASSUME NEW p \in Procs, call_fails(p) \/ flush_send(p) PROVE A
  BY <1>1, <1>2 DEF call_fails, flush_send, tables, bounds
<1>3. ASSUME NEW p \in Procs, flush_reply(p) PROVE A
  <2>1. ASSUME NEW q \in Procs PROVE TaskAssigned(child, source, q)'
    <3>1. proc'[q].todo \subseteq proc[q].todo
      BY <1>3, FlushReplyEffect DEF TaskOf
    <3> QED
      BY <1>3, <3>1, TaskKeepsAssigned DEF flush_reply, bounds
  <2>2. /\ UNCHANGED <<meta, fork_edges, fork_intents, edges>>
        /\ \A c \in Streams : gc_releases'[c] \subseteq gc_releases[c]
    BY <1>3 DEF flush_reply, bounds, TypeOK
  <2>3. EdgesAssigned(source)'
    BY <2>2 DEF Assigned, EdgesAssigned
  <2>4. ASSUME NEW c \in Streams
        PROVE  RowsAssigned(child, source, c)' /\ ForkAssigned(child, source, c)'
    BY <2>2 DEF Assigned, RowsAssigned, ForkAssigned, Rightful, IsFork
  <2> QED
    BY <2>1, <2>3, <2>4 DEF Assigned
<1>4. ASSUME NEW p \in Procs, TaskOf(p, Free), UNCHANGED <<tables, edges>> PROVE A
  <2>1. ASSUME NEW q \in Procs PROVE TaskAssigned(child, source, q)'
    BY <1>4, TaskKeepsAssigned DEF TaskOf, Free
  <2> QED
    BY <1>4, <2>1, TablesKeepAssigned DEF Assigned, tables
<1>5. ASSUME NEW p \in Procs, flush_end(p) PROVE A
  BY <1>4, <1>5, FlushEndEffect DEF flush_end, bounds
<1>6. ASSUME NEW s \in Streams, NEW e, e <= edges, source[e] = s,
             Granted(s, e) \/ Refused(s, e), UNCHANGED edges
      PROVE  A
  <2>1. \/ fork_edges' = fork_edges
        \/ fork_edges' = [fork_edges EXCEPT ![s] = @ \union {e}]
    BY <1>6 DEF Granted, Refused
  <2>2. UNCHANGED <<meta, fork_intents, gc_releases, proc, edges>>
    BY <1>6 DEF Granted, Refused
  <2>3. EdgesAssigned(source)'
    BY <1>6, <2>1, <2>2 DEF Assigned, EdgesAssigned, TypeOK
  <2> QED
    BY <2>2, <2>3 DEF Assigned, RowsAssigned, ForkAssigned, TaskAssigned, Rightful, IsFork
<1>7. ASSUME NEW s \in Streams, NEW e, NEW g, Takes(s, e, g) \/ Purged(s), UNCHANGED edges
      PROVE  A
  <2>1. CASE Purged(s)
    BY <1>7, <2>1, PurgeKeepsAssigned
  <2>2. CASE Takes(s, e, g)
    <3>1. UNCHANGED <<meta, fork_intents, gc_releases, proc>>
      BY <2>2 DEF Takes
    <3>2. \A t \in Streams : fork_edges'[t] \subseteq fork_edges[t]
      BY <2>2 DEF Takes, TypeOK
    <3>3. EdgesAssigned(source)'
      BY <1>7, <3>2 DEF Assigned, EdgesAssigned
    <3> QED
      BY <1>7, <3>1, <3>3 DEF Assigned, RowsAssigned, ForkAssigned, TaskAssigned, Rightful,
         IsFork
  <2> QED
    BY <1>7, <2>1, <2>2
<1>19. ASSUME NEW p \in Procs, answer_acquire(p) PROVE A
  <2>1. /\ UNCHANGED edges /\ call[p].to \in Streams
        /\ call[p].edge <= edges /\ source[call[p].edge] = call[p].to
        /\ Granted(call[p].to, call[p].edge) \/ Refused(call[p].to, call[p].edge)
    BY <1>19, AnswerAcquireEffect DEF answer_acquire, bounds, Called, Rightful
  <2> QED
    BY <1>6, <2>1
<1>20. ASSUME NEW p \in Procs, answer_release(p) PROVE A
  <2>1. /\ UNCHANGED edges /\ call[p].to \in Streams
        /\ Purged(call[p].to) \/ Takes(call[p].to, call[p].edge, call[p].generation)
    BY <1>20, AnswerReleaseEffect DEF answer_release, bounds
  <2> QED
    BY <1>7, <2>1
<1>21. ASSUME NEW c \in late, late_call(c) PROVE A
  <2>1. UNCHANGED edges /\ c.to \in Streams /\ c.edge <= edges /\ source[c.edge] = c.to
    BY <1>21, LateCallEffect DEF late_call, Called
  <2>2. \/ Granted(c.to, c.edge) \/ Refused(c.to, c.edge)
        \/ Purged(c.to) \/ Takes(c.to, c.edge, c.generation)
    BY <1>21, LateCallEffect
  <2> QED
    BY <1>6, <1>7, <2>1, <2>2
<1>22. ASSUME NEW c \in late, lose(c) PROVE A
  BY <1>1, <1>22 DEF lose, tables, bounds
<1>8. ASSUME NEW s \in Streams, retire(s) PROVE A
  <2>1. UNCHANGED edges
    BY <1>8 DEF retire, bounds
  <2>2. CASE Purged(s)
    BY <2>1, <2>2, PurgeKeepsAssigned
  <2>3. CASE ~Purged(s)
    <3>1. UNCHANGED <<fork_edges, fork_intents, gc_releases, proc>> /\ meta[s] \in Meta
          /\ meta' = [meta EXCEPT ![s] = [meta[s] EXCEPT !.soft_deleted = TRUE]]
      BY <1>8, <2>3, RetireEffect DEF TypeOK
    <3>2. ASSUME NEW c \in Streams PROVE ForkAssigned(child, source, c)'
      <4>1. IsFork(c)' =>
              IsFork(c) /\ meta'[c].edge = meta[c].edge /\ meta'[c].parent = meta[c].parent
        BY <3>1, NoneIsNoRow DEF IsFork, TypeOK, Meta
      <4> QED
        BY <2>1, <4>1 DEF Assigned, ForkAssigned, Rightful
    <3> QED
      BY <2>1, <3>1, <3>2 DEF Assigned, EdgesAssigned, RowsAssigned, TaskAssigned, Rightful
  <2> QED
    BY <2>2, <2>3
<1>9. ASSUME NEW s \in Streams, handle_put(s) PROVE A
  <2>1. /\ UNCHANGED <<fork_edges, fork_intents, gc_releases, proc, edges>>
        /\ \A c \in Streams : c # s => meta'[c] = meta[c]
        /\ meta'[s].parent = None
    BY <1>9 DEF handle_put, Root, Fork, TypeOK
  <2> QED
    BY <2>1 DEF Assigned, EdgesAssigned, RowsAssigned, ForkAssigned, TaskAssigned, Rightful,
       IsFork
<1>10. ASSUME NEW s \in Streams, NEW src \in Streams, NEW o \in Offsets,
              create_fork(s, src, o)
       PROVE A
  <2>1. UNCHANGED <<meta, fork_edges, gc_releases>>
    BY <1>10 DEF create_fork
  <2>2. TaskOf(handler(s), proc'[handler(s)]) /\ proc'[handler(s)].todo = {}
    BY <1>10, CreateEffect DEF Asked
  <2>3. edges' >= edges /\ edges \in Nat /\ edges' \in Nat
    BY <1>10, CreateEffect, BoundsAreNaturals DEF TypeOK
  <2>5. ASSUME NEW c \in Streams, NEW x \in fork_intents'[c], x \notin fork_intents[c]
        PROVE  c = s /\ x.edge = edges' /\ x.parent = src /\ edges' # edges
    <3>1. /\ fork_intents' = [fork_intents EXCEPT
                ![s] = @ \union {[edge |-> edges', parent |-> src, offset |-> o]}]
          /\ edges' = edges + 1
      BY <1>10, <2>5, CreateEffect
    <3> QED
      BY <2>3, <2>5, <3>1 DEF TypeOK
  <2>6. ASSUME NEW c \in Streams
        PROVE  RowsAssigned(child, source, c)' /\ ForkAssigned(child, source, c)'
    <3>1. RowsAssigned(child, source, c)'
      <4> SUFFICES ASSUME NEW x \in fork_intents'[c] \union gc_releases'[c]
                   PROVE  Rightful(child, source, x.edge, c, x.parent)'
        BY DEF RowsAssigned
      <4>1. CASE x \in fork_intents[c] \union gc_releases[c]
        <5>1. Rightful(child, source, x.edge, c, x.parent) /\ x.edge \in EdgeIds
          BY <4>1 DEF Assigned, RowsAssigned, TypeOK, Intent, GcRelease
        <5> QED
          BY <2>3, <5>1 DEF Rightful, EdgeIds
      <4>2. CASE x \notin fork_intents[c] \union gc_releases[c]
        <5>1. c = s /\ x.edge = edges' /\ x.parent = src /\ edges' # edges
          BY <2>1, <2>5, <4>2
        <5>2. child[edges'] = s /\ source[edges'] = src
          BY <1>10, <5>1
        <5> QED
          BY <2>3, <5>1, <5>2 DEF Rightful
      <4> QED
        BY <4>1, <4>2
    <3>2. ForkAssigned(child, source, c)'
      <4>1. IsFork(c) => meta[c].edge \in EdgeIds
        BY DEF IsFork, TypeOK, Meta
      <4> QED
        BY <2>1, <2>3, <4>1 DEF Assigned, ForkAssigned, IsFork, Rightful, EdgeIds
    <3> QED
      BY <3>1, <3>2
  <2>7. ASSUME NEW q \in Procs PROVE TaskAssigned(child, source, q)'
    <3>1. CASE q = handler(s)
      BY <2>2, <3>1 DEF TaskAssigned
    <3>2. CASE q # handler(s)
      <4>1. proc'[q] = proc[q]
        BY <2>2, <3>2 DEF TaskOf
      <4>2. \A x \in proc[q].todo : x.edge \in EdgeIds
        BY DEF TypeOK, Task, Intent, GcRelease
      <4> QED
        BY <2>3, <4>1, <4>2 DEF Assigned, TaskAssigned, Rightful, EdgeIds
    <3> QED
      BY <3>1, <3>2
  <2>8. EdgesAssigned(source)'
    BY <2>1, <2>3 DEF Assigned, EdgesAssigned, TypeOK, EdgeIds
  <2> QED
    BY <2>6, <2>7, <2>8 DEF Assigned
<1>11. ASSUME NEW s \in Streams, create_fork_fails(s) PROVE A
  BY <1>4, <1>11, CreationEndsEffect, TaskNames DEF create_fork_fails
<1>12. ASSUME NEW s \in Streams, create_fork_refused(s) \/ create_fork_commits(s) PROVE A
  <2> DEFINE h == handler(s)
  <2>1. /\ UNCHANGED <<fork_edges, gc_releases, edges>>
        /\ \A c \in Streams : fork_intents'[c] \subseteq fork_intents[c]
        /\ proc[h].pc = "acquire"
    BY <1>12, DeleteTypes DEF create_fork_refused, create_fork_commits, bounds
  <2>2. ASSUME NEW q \in Procs PROVE TaskAssigned(child, source, q)'
    BY <1>12, <2>1, CreationEndsEffect, TaskKeepsAssigned DEF TaskOf, Free
  <2>3. ASSUME NEW c \in Streams PROVE ForkAssigned(child, source, c)'
    <3>1. CASE meta'[c] = meta[c]
      BY <2>1, <3>1 DEF Assigned, ForkAssigned, IsFork, Rightful
    <3>2. CASE meta'[c] # meta[c]
      <4>1. c = s /\ meta'[c] = Fork(s, call[h].to, call[h].edge, call[h].generation)
        BY <1>12, <3>2 DEF create_fork_refused, create_fork_commits, TypeOK
      <4>2. meta'[c].parent = call[h].to /\ meta'[c].edge = call[h].edge
        BY <4>1 DEF Fork
      <4>3. Rightful(child, source, call[h].edge, s, call[h].to)
        BY <2>1, TaskNames DEF Called, Tasks, Waits
      <4> QED
        BY <2>1, <4>1, <4>2, <4>3 DEF ForkAssigned, Rightful
    <3> QED
      BY <3>1, <3>2
  <2>4. EdgesAssigned(source)' /\ \A c \in Streams : RowsAssigned(child, source, c)'
    BY <2>1 DEF Assigned, EdgesAssigned, RowsAssigned, Rightful
  <2> QED
    BY <2>2, <2>3, <2>4 DEF Assigned
<1>13. ASSUME NEW s \in Streams, NEW e, NEW src,
              \A c \in Streams :
                 /\ fork_intents'[c] \subseteq fork_intents[c]
                 /\ \A x \in gc_releases'[c] :
                       x \in gc_releases[c] \/ (c = s /\ x.edge = e /\ x.parent = src),
              Rightful(child, source, e, s, src),
              UNCHANGED <<meta, fork_edges, edges>>
       PROVE  /\ EdgesAssigned(source)'
              /\ \A c \in Streams :
                    RowsAssigned(child, source, c)' /\ ForkAssigned(child, source, c)'
  BY <1>13 DEF Assigned, EdgesAssigned, RowsAssigned, ForkAssigned, IsFork, Rightful
<1>14. ASSUME NEW s \in Streams, release_acquired(s) PROVE A
  <2> DEFINE h == handler(s)
             e == call[h].edge
             src == call[h].to
  <2>1. /\ Rightful(child, source, e, s, src) /\ UNCHANGED <<meta, fork_edges, edges>>
        /\ e \in EdgeIds /\ src \in Streams /\ call[h].generation \in Generations
    BY <1>14, TaskNames, HandlerGranted DEF release_acquired, bounds, Called, Tasks, Waits
  <2>2. ASSUME NEW c \in Streams
        PROVE  /\ fork_intents'[c] \subseteq fork_intents[c]
               /\ \A x \in gc_releases'[c] :
                     x \in gc_releases[c] \/ (c = s /\ x.edge = e /\ x.parent = src)
    BY <1>14, ReturnQueues DEF Settled, Queued
  <2>3. /\ EdgesAssigned(source)'
        /\ \A c \in Streams : RowsAssigned(child, source, c)' /\ ForkAssigned(child, source, c)'
    <3> HIDE DEF e, src, h
    <3> QED
      BY <1>13, <2>1, <2>2
  <2>4. ASSUME NEW q \in Procs PROVE TaskAssigned(child, source, q)'
    <3>1. CASE q = h
      BY <1>14, <2>3, <3>1, ReturnEffect, FlushAssigned, TaskNames
    <3>2. CASE q # h
      BY <1>14, <2>1, <3>2, ReturnEffect, TaskKeepsAssigned DEF TaskOf
    <3> QED
      BY <3>1, <3>2
  <2> QED
    BY <2>3, <2>4 DEF Assigned
<1>15. ASSUME NEW p \in Runs,
              run_maintenance(p) \/ reconcile_fork_intents(p) \/ reconcile_end(p),
              UNCHANGED edges
       PROVE A
  <2>1. UNCHANGED <<meta, fork_edges, fork_intents, gc_releases>> /\ p \in Procs /\ p[1] \in Streams
    BY <1>15, TaskNames DEF run_maintenance, reconcile_fork_intents, reconcile_end, tables
  <2>2. /\ TaskOf(p, proc'[p])
        /\ \/ proc'[p].todo = {} \/ proc'[p].todo = gc_releases[p[1]]
           \/ proc'[p].todo = fork_intents[p[1]]
    BY <1>15, MaintenanceEffect, LookEffect, ReconcileEndEffect
  <2>3. ASSUME NEW q \in Procs PROVE TaskAssigned(child, source, q)'
    <3>1. CASE q = p
      BY <1>15, <2>1, <2>2, <3>1 DEF Assigned, RowsAssigned, TaskAssigned, Rightful
    <3>2. CASE q # p
      BY <1>15, <2>2, <3>2, TaskKeepsAssigned DEF TaskOf
    <3> QED
      BY <3>1, <3>2
  <2> QED
    BY <1>15, <2>1, <2>3, TablesKeepAssigned DEF Assigned
<1>16. ASSUME NEW p \in Runs, reconcile_send(p) PROVE A
  BY <1>1, <1>16 DEF reconcile_send, bounds
<1>17. ASSUME NEW p \in Runs, reconcile_reply(p) PROVE A
  <2> DEFINE e == call[p].edge
             src == call[p].to
             s == p[1]
  <2>1. /\ UNCHANGED <<meta, fork_edges, edges>> /\ call[p] # None
        /\ Rightful(child, source, e, s, src) /\ p \in Procs /\ s \in Streams
    BY <1>17, TaskNames DEF reconcile_reply, bounds, Called
  <2>2. ASSUME NEW c \in Streams
        PROVE  /\ fork_intents'[c] \subseteq fork_intents[c]
               /\ \A x \in gc_releases'[c] :
                     x \in gc_releases[c] \/ (c = s /\ x.edge = e /\ x.parent = src)
    BY <1>17, ReconcileQueues DEF Settled, Queued
  <2>3. /\ EdgesAssigned(source)'
        /\ \A c \in Streams : RowsAssigned(child, source, c)' /\ ForkAssigned(child, source, c)'
    <3> HIDE DEF e, src, s
    <3> QED
      BY <1>13, <2>1, <2>2
  <2>4. ASSUME NEW q \in Procs PROVE TaskAssigned(child, source, q)'
    BY <1>17, <2>1, ReconcileReplyEffect, TaskKeepsAssigned DEF TaskOf
  <2> QED
    BY <2>3, <2>4 DEF Assigned
<1>18. ASSUME NEW s \in Streams, crash(s) PROVE A
  <2>1. ASSUME NEW q \in Procs PROVE TaskAssigned(child, source, q)'
    BY <1>18, CrashEffect, TaskKeepsAssigned DEF Free, crash
  <2> QED
    BY <1>18, <2>1, TablesKeepAssigned DEF Assigned, crash, tables
<1>23. ASSUME NEW p \in Runs, Upkeep(p) \/ stray_maintenance(p) PROVE A
  BY <1>15, <1>16, <1>17, <1>23
  DEF Upkeep, Maintenance, stray_maintenance, run_maintenance, reconcile_fork_intents,
      reconcile_end, bounds
<1> QED
  BY <1>2, <1>3, <1>5, <1>8, <1>9, <1>10, <1>11, <1>12, <1>14, <1>18, <1>19, <1>20, <1>21,
     <1>22, <1>23 DEF Next, Progress, Creation, Clients, Network

(* A call keeps what it asks for, and a late one was waited for before. *)
LEMMA CalledStep ==
    ASSUME TypeOK, Tasks, NEW child, NEW source, Assigned(child, source),
           Called(child, source), Next,
           \A s, src \in Streams, o \in Offsets : create_fork(s, src, o) /\ edges' # edges =>
               child[edges'] = s /\ source[edges'] = src
    PROVE  Called(child, source)'
<1> DEFINE A == Called(child, source)'
           Kept(p) == call'[p] # None =>
                        /\ call[p] # None /\ call'[p].edge = call[p].edge
                        /\ call'[p].to = call[p].to
<1>1. ASSUME UNCHANGED edges, \A p \in Procs : Kept(p),
             \A x \in late' : x \in late \/ \E p \in Procs : call[p] # None /\ x = call[p]
      PROVE  A
  BY <1>1 DEF Called, Rightful
<1>2. ASSUME NEW p \in Procs, call_fails(p) PROVE A
  <2>1. UNCHANGED edges /\ call[p] # None
    BY <1>2 DEF call_fails
  <2>2. \A q \in Procs : Kept(q)
    BY <1>2, <2>1, CallFailsEffect DEF CallOf, SameCall
  <2>3. \A x \in late' : x \in late \/ x = call[p]
    BY <1>2, CallFailsEffect
  <2> QED
    BY <1>1, <2>1, <2>2, <2>3
<1>3. ASSUME NEW p \in Procs, UNCHANGED <<late, edges>>, CallOf(p, call'[p]),
             Rightful(child, source, call'[p].edge, p[1], call'[p].to)
      PROVE  A
  BY <1>3 DEF Called, CallOf, Rightful
<1>4. ASSUME NEW p \in Procs, UNCHANGED edges, late' \subseteq late, CallOf(p, call'[p]), Kept(p)
      PROVE  A
  BY <1>1, <1>4 DEF CallOf
<1>5. ASSUME NEW p \in Procs, flush_send(p) PROVE A
  <2> PICK g \in proc[p].todo : g \in GcRelease /\ call'[p] = Release(g) /\ CallOf(p, call'[p])
    BY <1>5, FlushSendEffect DEF CallOf
  <2>1. Rightful(child, source, call'[p].edge, p[1], call'[p].to)
    BY DEF Release, Assigned, TaskAssigned
  <2> QED
    BY <1>3, <1>5, <2>1 DEF flush_send, bounds
<1>6. ASSUME NEW p \in Procs, flush_reply(p) \/ answer_acquire(p) \/ answer_release(p) PROVE A
  <2>1. UNCHANGED edges /\ late' = late
    BY <1>6 DEF flush_reply, answer_acquire, answer_release, bounds
  <2>2. CASE flush_reply(p)
    BY <1>4, <2>1, <2>2, FlushReplyEffect DEF CallOf
  <2>3. CASE answer_acquire(p)
    BY <1>4, <2>1, <2>3, AnswerAcquireEffect
  <2>4. CASE answer_release(p)
    BY <1>4, <2>1, <2>4, AnswerReleaseEffect DEF SameCall
  <2> QED
    BY <1>6, <2>2, <2>3, <2>4
<1>7. ASSUME NEW p \in Procs, flush_end(p) PROVE A
  <2>1. \A q \in Procs : Kept(q)
    BY <1>7, FlushEndEffect DEF SameCall
  <2> QED
    BY <1>1, <1>7, <2>1 DEF flush_end, bounds
<1>8. ASSUME NEW c \in late, late_call(c) \/ lose(c) PROVE A
  BY <1>1, <1>8 DEF late_call, lose, bounds
<1>9. ASSUME NEW s \in Streams,
             create_fork_fails(s) \/ create_fork_refused(s) \/ create_fork_commits(s)
      PROVE  A
  <2>1. UNCHANGED <<late, edges>>
    BY <1>9 DEF create_fork_fails, create_fork_refused, create_fork_commits, bounds
  <2>2. CallOf(handler(s), None)
    BY <1>9, CreationEndsEffect
  <2> QED
    BY <1>4, <2>1, <2>2, TaskNames DEF CallOf
<1>10. ASSUME NEW s \in Streams, release_acquired(s) PROVE A
  BY <1>4, <1>10, ReturnEffect, ReturnQueues, TaskNames DEF CallOf
<1>11. ASSUME NEW s \in Streams, NEW src \in Streams, NEW o \in Offsets, create_fork(s, src, o)
       PROVE  A
  <2> DEFINE h == handler(s)
             e == call'[h].edge
  <2>1. CallOf(h, call'[h]) /\ call'[h].to = src /\ h \in Procs /\ h[1] = s /\ late' = late
    BY <1>11, CreateEffect, TaskNames DEF Asked, create_fork
  <2>2. edges' >= edges /\ edges \in Nat /\ edges' \in Nat
    BY <1>11, CreateEffect, BoundsAreNaturals DEF TypeOK
  <2>3. e <= edges' /\ child[e] = s /\ source[e] = src
    <3>1. CASE edges' = edges /\ \E i \in fork_intents[s] : i.edge = e /\ i.parent = src
      BY <3>1 DEF Assigned, RowsAssigned, Rightful
    <3>2. CASE edges' = edges + 1 /\ e = edges'
      <4>1. child[edges'] = s /\ source[edges'] = src
        BY <1>11, <2>2, <3>2
      <4> QED
        BY <2>2, <3>2, <4>1
    <3> QED
      BY <1>11, <3>1, <3>2, CreateEffect DEF Asked
  <2> HIDE DEF e
  <2>4. ASSUME NEW q \in Procs, call'[q] # None
        PROVE  Rightful(child, source, call[q].edge, q[1], call[q].to)'
    <3>1. CASE q = h
      BY <2>1, <2>3, <3>1 DEF Rightful, e
    <3>2. CASE q # h
      <4>1. call'[q] = call[q] /\ call[q].edge \in EdgeIds
        BY <2>1, <2>4, <3>2 DEF CallOf, TypeOK, Call
      <4> QED
        BY <2>2, <2>4, <4>1 DEF Called, Rightful, EdgeIds
    <3> QED
      BY <3>1, <3>2
  <2>5. ASSUME NEW x \in late PROVE x.edge <= edges' /\ source[x.edge] = x.to
    <3>1. x.edge \in EdgeIds
      BY DEF TypeOK, Call
    <3> QED
      BY <2>2, <3>1 DEF Called, EdgeIds
  <2> QED
    BY <2>1, <2>4, <2>5 DEF Called
<1>12. ASSUME NEW p \in Runs, reconcile_send(p) PROVE A
  <2>1. /\ p \in Procs /\ CallOf(p, call'[p]) /\ UNCHANGED <<late, edges>>
        /\ \E i \in proc[p].todo : i.edge = call'[p].edge /\ i.parent = call'[p].to
    BY <1>12, ReconcileSendEffect, TaskNames DEF reconcile_send, bounds
  <2>2. Rightful(child, source, call'[p].edge, p[1], call'[p].to)
    BY <2>1 DEF Assigned, TaskAssigned
  <2> QED
    BY <1>3, <2>1, <2>2
<1>13. ASSUME NEW p \in Runs, reconcile_reply(p) PROVE A
  BY <1>4, <1>13, ReconcileReplyEffect, ReconcileQueues, TaskNames DEF CallOf
<1>14. ASSUME NEW s \in Streams, crash(s) PROVE A
  <2>1. \A q \in Procs : Kept(q)
    BY <1>14, CrashEffect DEF SameCall
  <2>2. \A x \in late' : x \in late \/ \E p \in Procs : call[p] # None /\ x = call[p]
    BY <1>14, CrashEffect
  <2> QED
    BY <1>1, <1>14, <2>1, <2>2 DEF crash
<1>15. ASSUME UNCHANGED <<call, late, edges>> PROVE A
  BY <1>1, <1>15
<1>16. ASSUME NEW p \in Runs, Upkeep(p) \/ stray_maintenance(p) PROVE A
  BY <1>12, <1>13, <1>15, <1>16
  DEF Upkeep, Maintenance, stray_maintenance, run_maintenance, reconcile_fork_intents,
      reconcile_end, bounds
<1>17. ASSUME NEW s \in Streams, handle_put(s) \/ retire(s) PROVE A
  BY <1>15, <1>17 DEF handle_put, retire, bounds
<1> QED
  BY <1>2, <1>5, <1>6, <1>7, <1>8, <1>9, <1>10, <1>11, <1>14, <1>16, <1>17
  DEF Next, Progress, Creation, Clients, Network

-----------------------------------------------------------------------------
(* Who answers for an edge e of child c and source s: an intent, a pending  *)
(* release or the meta row of the child, and only one of them.              *)

HasIntent(c, e) == \E i \in fork_intents[c] : i.edge = e
OwesRelease(c, e) == \E g \in gc_releases[c] : g.edge = e
HoldsEdge(c, e) == meta[c] # None /\ meta[c].edge = e

OfGeneration(e, s, g) == e \in fork_edges[s] => meta[s].generation = g

RowInv(e, c, s) ==
    /\ e \in fork_edges[s] => HasIntent(c, e) \/ OwesRelease(c, e) \/ HoldsEdge(c, e)
    /\ HasIntent(c, e) => ~OwesRelease(c, e) /\ ~HoldsEdge(c, e)
    /\ HoldsEdge(c, e) =>
        /\ ~OwesRelease(c, e)
        /\ e \in fork_edges[s] /\ meta[s].generation = meta[c].source_generation
    /\ \A g \in gc_releases[c] : g.edge = e => OfGeneration(e, s, g.generation)

(* A task that acquires e does so under its intent; one that gives it back  *)
(* does so when nothing else needs it, to the generation that recorded it.  *)
(* The answer a task waits for still holds when it reads it.  The same is   *)
(* true of a call that nobody waits for any more.                           *)
Acquiring(p, e) == call[p] # None /\ call[p].op = "acquire" /\ call[p].edge = e
Returning(p, e) == proc[p].pc = "flush" /\ \E g \in proc[p].todo : g.edge = e

TaskInv(p, e, c, s) ==
    /\ Acquiring(p, e) => HasIntent(c, e)
    /\ Returning(p, e) => ~HasIntent(c, e) /\ ~HoldsEdge(c, e)
    /\ proc[p].pc = "flush" =>
        \A g \in proc[p].todo : g.edge = e => OfGeneration(e, s, g.generation)
    /\ call[p] # None /\ call[p].edge = e =>
        /\ call[p].op = "acquire" /\ call[p].status = "done" /\ call[p].ok =>
             e \in fork_edges[s] /\ meta[s].generation = call[p].generation
        /\ call[p].op = "acquire" /\ call[p].status = "done" /\ ~call[p].ok =>
             e \notin fork_edges[s]
        /\ call[p].op = "release" /\ call[p].status \in {"running", "done"} =>
             e \notin fork_edges[s]

LateInv(e, c, s) ==
    \A x \in late : x.edge = e =>
        /\ x.op = "acquire" => HasIntent(c, e)
        /\ x.op = "release" =>
             ~HasIntent(c, e) /\ ~HoldsEdge(c, e) /\ OfGeneration(e, s, x.generation)

(* No task acquires e beside another one, or while a call that it has not   *)
(* given up itself is on its way.                                           *)
Alone(e) ==
    /\ \A p, q \in Procs : Acquiring(p, e) /\ Acquiring(q, e) => p = q
    /\ \A x \in late : x.op = "acquire" /\ x.edge = e =>
          \A p \in Procs : Acquiring(p, e) => call[p].status = "failed"

EdgeInv(e, c, s) ==
    /\ RowInv(e, c, s) /\ \A p \in Procs : TaskInv(p, e, c, s)
    /\ LateInv(e, c, s) /\ Alone(e)

(* What names an edge is of its child, and calls its source. *)
Named(e, c, s) ==
    /\ \A t \in Streams : e \in fork_edges[t] => t = s
    /\ \A d \in Streams :
        /\ HasIntent(d, e) \/ OwesRelease(d, e) \/ HoldsEdge(d, e) => d = c
        /\ \A x \in fork_intents[d] \union gc_releases[d] : x.edge = e => x.parent = s
        /\ HoldsEdge(d, e) => meta[d].parent = s
    /\ \A p \in Procs :
        /\ Acquiring(p, e) \/ Returning(p, e) => p[1] = c
        /\ call[p] # None /\ call[p].edge = e =>
            /\ call[p].to = s
            /\ call[p].op = "release" =>
                 /\ Returning(p, e)
                 /\ \E g \in proc[p].todo : g.edge = e /\ g.generation = call[p].generation
    /\ \A x \in late : x.edge = e => x.to = s

LEMMA EdgeIsNamed ==
    ASSUME TypeOK, Tasks, NEW child, NEW source, Assigned(child, source),
           Called(child, source), NEW e \in EdgeIds
    PROVE  Named(e, child[e], source[e])
<1> USE DEF Rightful
<1>1. \A t \in Streams : e \in fork_edges[t] => t = source[e]
  BY DEF Assigned, EdgesAssigned
<1>2. ASSUME NEW d \in Streams
      PROVE  /\ HasIntent(d, e) \/ OwesRelease(d, e) \/ HoldsEdge(d, e) => d = child[e]
             /\ \A x \in fork_intents[d] \union gc_releases[d] : x.edge = e => x.parent = source[e]
             /\ HoldsEdge(d, e) => meta[d].parent = source[e]
  <2>1. HoldsEdge(d, e) => IsFork(d)
    BY NoneIsNoRow DEF HoldsEdge, IsFork, TypeOK, Meta, EdgeIds
  <2>2. HoldsEdge(d, e) => d = child[e] /\ meta[d].parent = source[e]
    BY <2>1 DEF Assigned, ForkAssigned, HoldsEdge
  <2> QED
    BY <2>2 DEF Assigned, RowsAssigned, HasIntent, OwesRelease
<1>3. ASSUME NEW p \in Procs PROVE Acquiring(p, e) \/ Returning(p, e) => p[1] = child[e]
  BY DEF Assigned, TaskAssigned, Called, Acquiring, Returning
<1>4. ASSUME NEW p \in Procs, call[p] # None, call[p].edge = e
      PROVE  /\ call[p].to = source[e]
             /\ call[p].op = "release" =>
                  /\ Returning(p, e)
                  /\ \E g \in proc[p].todo : g.edge = e /\ g.generation = call[p].generation
  <2>1. Waits(p) /\ proc[p].pc \in {"free", "acquire", "look", "reconcile", "flush"}
    BY DEF Tasks, TypeOK, Task
  <2> QED
    BY <1>4, <2>1 DEF Called, Waits, Returning
<1>5. \A x \in late : x.edge = e => x.to = source[e]
  BY DEF Called
<1> QED
  BY <1>1, <1>2, <1>3, <1>4, <1>5 DEF Named

-----------------------------------------------------------------------------
(* What keeps the invariant of an edge: rows that stay as they are, tasks   *)
(* that take up nothing new, calls that go on.                              *)

SameRows(e, c, s) ==
    /\ HasIntent(c, e)' <=> HasIntent(c, e)
    /\ HoldsEdge(c, e)' => HoldsEdge(c, e)
    /\ e \in fork_edges'[s] <=> e \in fork_edges[s]
    /\ e \in fork_edges[s] => meta'[s].generation = meta[s].generation

SameRole(p, e) ==
    /\ Acquiring(p, e)' => Acquiring(p, e)
    /\ Returning(p, e)' => Returning(p, e)
    /\ proc'[p].pc = "flush" => \A g \in proc'[p].todo :
          g.edge = e => g \in proc[p].todo /\ proc[p].pc = "flush"

KeptCall(p, e) ==
    \/ call'[p] = call[p] \/ call'[p] = None \/ call'[p].edge # e
    \/ call'[p].status = "failed"
    \/ call'[p].status = "sent" /\ call'[p].op = "release"
    \/ /\ call[p] # None /\ call[p].status = "running" /\ call[p].op = "release"
       /\ SameCall(call'[p], call[p])

LateFrom(e) ==
    \A x \in late' : x.edge = e =>
        \/ x \in late
        \/ \E p \in Procs : /\ call[p] # None /\ x = call[p]
                            /\ call'[p] = None \/ call'[p].status = "failed"

LEMMA TablesKeepRows ==
    ASSUME NEW e, NEW c \in Streams, NEW s \in Streams,
           UNCHANGED <<meta, fork_edges, fork_intents, gc_releases>>
    PROVE  /\ SameRows(e, c, s)
           /\ RowInv(e, c, s) => RowInv(e, c, s)'
<1>1. SameRows(e, c, s) /\ (OwesRelease(c, e)' <=> OwesRelease(c, e))
      /\ (HoldsEdge(c, e)' <=> HoldsEdge(c, e))
  BY DEF SameRows, HasIntent, OwesRelease, HoldsEdge
<1> QED
  BY <1>1 DEF RowInv, OfGeneration, SameRows

LEMMA SameTaskSameRole ==
    ASSUME NEW p, NEW e, proc'[p] = proc[p],
           \/ call'[p] = call[p] \/ call'[p] = None \/ call'[p].edge # e
           \/ call'[p].op = "release"
           \/ call[p] # None /\ SameCall(call'[p], call[p])
    PROVE  SameRole(p, e)
BY DEF SameRole, Acquiring, Returning, SameCall

LEMMA TaskInvKept ==
    ASSUME NEW p \in Procs, NEW e, NEW c, NEW s, TaskInv(p, e, c, s), SameRows(e, c, s),
           SameRole(p, e), KeptCall(p, e)
    PROVE  TaskInv(p, e, c, s)'
<1>1. /\ Acquiring(p, e)' => HasIntent(c, e)'
      /\ Returning(p, e)' => ~HasIntent(c, e)' /\ ~HoldsEdge(c, e)'
      /\ proc'[p].pc = "flush" =>
           \A g \in proc'[p].todo : g.edge = e => OfGeneration(e, s, g.generation)'
  BY DEF TaskInv, SameRows, SameRole, OfGeneration
<1>2. CASE call'[p] = call[p]
  BY <1>1, <1>2 DEF TaskInv, SameRows
<1>3. CASE call'[p] = None \/ call'[p].edge # e \/ call'[p].status \in {"failed", "sent"}
  BY <1>1, <1>3 DEF TaskInv
<1>4. CASE /\ call[p] # None /\ call[p].status = "running" /\ call[p].op = "release"
           /\ SameCall(call'[p], call[p])
  BY <1>1, <1>4 DEF TaskInv, SameRows, SameCall
<1> QED
  BY <1>2, <1>3, <1>4 DEF KeptCall

LEMMA LateInvKept ==
    ASSUME NEW e, NEW c, NEW s, Named(e, c, s), EdgeInv(e, c, s), SameRows(e, c, s), LateFrom(e)
    PROVE  LateInv(e, c, s)'
<1> SUFFICES ASSUME NEW x \in late', x.edge = e
             PROVE  /\ x.op = "acquire" => HasIntent(c, e)'
                    /\ x.op = "release" => /\ ~HasIntent(c, e)' /\ ~HoldsEdge(c, e)'
                                           /\ OfGeneration(e, s, x.generation)'
  BY DEF LateInv
<1>1. CASE x \in late
  BY <1>1 DEF EdgeInv, LateInv, SameRows, OfGeneration
<1>2. CASE \E p \in Procs : call[p] # None /\ x = call[p]
  <2> PICK p \in Procs : call[p] # None /\ x = call[p]
    BY <1>2
  <2>1. TaskInv(p, e, c, s)
    BY DEF EdgeInv
  <2>2. x.op = "acquire" => HasIntent(c, e)
    BY <2>1 DEF TaskInv, Acquiring
  <2>3. x.op = "release" =>
          Returning(p, e) /\ \E g \in proc[p].todo : g.edge = e /\ g.generation = x.generation
    BY DEF Named
  <2>4. x.op = "release" =>
          ~HasIntent(c, e) /\ ~HoldsEdge(c, e) /\ OfGeneration(e, s, x.generation)
    BY <2>1, <2>3 DEF TaskInv, Returning
  <2> QED
    BY <2>2, <2>4 DEF SameRows, OfGeneration
<1> QED
  BY <1>1, <1>2 DEF LateFrom

LEMMA AloneKept ==
    ASSUME NEW e, Alone(e), LateFrom(e),
           \A p \in Procs : SameRole(p, e) /\ KeptCall(p, e)
    PROVE  Alone(e)'
<1>1. \A p, q \in Procs : Acquiring(p, e)' /\ Acquiring(q, e)' => p = q
  BY DEF Alone, SameRole
<1>2. ASSUME NEW x \in late', x.op = "acquire", x.edge = e, NEW p \in Procs, Acquiring(p, e)'
      PROVE  call'[p].status = "failed"
  <2>1. Acquiring(p, e)
    BY <1>2 DEF SameRole
  <2>2. call'[p] = call[p] \/ call'[p].status = "failed"
    BY <1>2 DEF KeptCall, Acquiring, SameCall
  <2>3. CASE x \in late
    BY <1>2, <2>1, <2>2, <2>3 DEF Alone
  <2>4. CASE \E q \in Procs : /\ call[q] # None /\ x = call[q]
                              /\ call'[q] = None \/ call'[q].status = "failed"
    <3> PICK q \in Procs : /\ call[q] # None /\ x = call[q]
                           /\ call'[q] = None \/ call'[q].status = "failed"
      BY <2>4
    <3>1. Acquiring(q, e)
      BY <1>2 DEF Acquiring
    <3>2. q = p
      BY <2>1, <3>1 DEF Alone
    <3> QED
      BY <1>2, <3>2 DEF Acquiring
  <2> QED
    BY <1>2, <2>3, <2>4 DEF LateFrom
<1> QED
  BY <1>1, <1>2 DEF Alone

LEMMA EdgeInvKept ==
    ASSUME NEW e, NEW c \in Streams, NEW s \in Streams, Named(e, c, s), EdgeInv(e, c, s),
           RowInv(e, c, s)', SameRows(e, c, s), LateFrom(e),
           \A p \in Procs : SameRole(p, e) /\ KeptCall(p, e)
    PROVE  EdgeInv(e, c, s)'
<1>1. ASSUME NEW p \in Procs PROVE TaskInv(p, e, c, s)'
  BY TaskInvKept DEF EdgeInv
<1>2. Alone(e)'
  BY AloneKept DEF EdgeInv
<1> QED
  BY <1>1, <1>2, LateInvKept DEF EdgeInv

LEMMA NoRole ==
    ASSUME NEW p, NEW e, proc'[p].pc # "flush", call'[p] = None
    PROVE  SameRole(p, e)
BY DEF SameRole, Acquiring, Returning

(* An edge that no task and no call names. *)
Quiet(e) ==
    /\ \A p \in Procs : ~Returning(p, e) /\ ~(call[p] # None /\ call[p].edge = e)
    /\ \A x \in late : x.edge # e

LEMMA QuietInv ==
    ASSUME NEW e, NEW c, NEW s, RowInv(e, c, s)', Quiet(e)'
    PROVE  EdgeInv(e, c, s)'
<1>1. ASSUME NEW p \in Procs PROVE TaskInv(p, e, c, s)' /\ ~Acquiring(p, e)'
  BY DEF Quiet, TaskInv, Returning, Acquiring
<1>2. LateInv(e, c, s)' /\ Alone(e)'
  BY <1>1 DEF Quiet, LateInv, Alone
<1> QED
  BY <1>1, <1>2 DEF EdgeInv

(* While e has an intent and its one acquire is answered, or not yet made,  *)
(* nothing else names it.                                                   *)
LEMMA NothingElse ==
    ASSUME TypeOK, Tasks, NEW e \in EdgeIds, NEW c \in Streams, NEW s \in Streams,
           Named(e, c, s), EdgeInv(e, c, s), HasIntent(c, e), NEW p \in Procs,
           \A q \in Procs : q # p => ~Acquiring(q, e),
           \A x \in late : ~(x.op = "acquire" /\ x.edge = e)
    PROVE  /\ \A q \in Procs : /\ ~Returning(q, e)
                               /\ q # p => ~(call[q] # None /\ call[q].edge = e)
           /\ \A x \in late : x.edge # e
<1>1. ASSUME NEW q \in Procs PROVE ~Returning(q, e)
  BY DEF EdgeInv, TaskInv
<1>2. ASSUME NEW q \in Procs, q # p, call[q] # None, call[q].edge = e PROVE FALSE
  <2>1. call[q].op \in {"acquire", "release"}
    BY <1>2 DEF TypeOK, Call
  <2> QED
    BY <1>1, <1>2, <2>1 DEF Named, Acquiring
<1>3. ASSUME NEW x \in late, x.edge = e PROVE FALSE
  <2>1. x.op \in {"acquire", "release"}
    BY DEF TypeOK, Call
  <2> QED
    BY <1>3, <2>1 DEF EdgeInv, LateInv
<1> QED
  BY <1>1, <1>2, <1>3

(* When an acquire is answered, its intent is there, the answer is right,   *)
(* and nothing else names the edge.                                         *)
LEMMA AnsweredEdge ==
    ASSUME TypeOK, Tasks, NEW e \in EdgeIds, NEW c \in Streams, NEW s \in Streams,
           Named(e, c, s), EdgeInv(e, c, s), NEW p \in Procs, Acquiring(p, e),
           call[p].status # "failed"
    PROVE  /\ p[1] = c /\ call[p].to = s
           /\ HasIntent(c, e) /\ ~OwesRelease(c, e) /\ ~HoldsEdge(c, e)
           /\ call[p].status = "done" /\ call[p].ok =>
                e \in fork_edges[s] /\ meta[s].generation = call[p].generation
           /\ call[p].status = "done" /\ ~call[p].ok => e \notin fork_edges[s]
           /\ \A q \in Procs : /\ ~Returning(q, e)
                               /\ q # p => ~(call[q] # None /\ call[q].edge = e)
           /\ \A x \in late : x.edge # e
<1>1. TaskInv(p, e, c, s) /\ RowInv(e, c, s) /\ Alone(e)
  BY DEF EdgeInv
<1>2. p[1] = c /\ call[p].to = s /\ HasIntent(c, e)
  BY <1>1 DEF Named, TaskInv, Acquiring
<1>3. /\ call[p].status = "done" /\ call[p].ok =>
           e \in fork_edges[s] /\ meta[s].generation = call[p].generation
      /\ call[p].status = "done" /\ ~call[p].ok => e \notin fork_edges[s]
  BY <1>1 DEF TaskInv, Acquiring
<1>4. /\ \A q \in Procs : q # p => ~Acquiring(q, e)
      /\ \A x \in late : ~(x.op = "acquire" /\ x.edge = e)
  BY <1>1 DEF Alone
<1>5. /\ \A q \in Procs : /\ ~Returning(q, e)
                          /\ q # p => ~(call[q] # None /\ call[q].edge = e)
      /\ \A x \in late : x.edge # e
  BY <1>2, <1>4, NothingElse
<1> QED
  BY <1>1, <1>2, <1>3, <1>5 DEF RowInv

-----------------------------------------------------------------------------
(* The steps, one action after the other: those that leave the rows alone.  *)

LEMMA LateShrinks ==
    ASSUME NEW e, late' \subseteq late
    PROVE  LateFrom(e)
BY DEF LateFrom

LEMMA EdgeCallFails ==
    ASSUME TypeOK, NEW e \in EdgeIds, NEW c \in Streams, NEW s \in Streams, Named(e, c, s),
           EdgeInv(e, c, s), NEW p \in Procs, call_fails(p)
    PROVE  EdgeInv(e, c, s)'
<1>1. UNCHANGED <<meta, fork_edges, fork_intents, gc_releases, proc>>
  BY DEF call_fails, tables
<1>2. RowInv(e, c, s)' /\ SameRows(e, c, s)
  BY <1>1, TablesKeepRows DEF EdgeInv
<1>3. /\ SameCall(call'[p], call[p]) /\ call'[p].status = "failed"
      /\ call[p] # None
      /\ \A q \in Procs : q # p => call'[q] = call[q]
      /\ late' = late \/ late' = late \union {call[p]}
  BY CallFailsEffect DEF CallOf, call_fails
<1>4. \A q \in Procs : SameRole(q, e)
  BY <1>1, <1>3, SameTaskSameRole
<1>5. \A q \in Procs : KeptCall(q, e)
  BY <1>3 DEF KeptCall
<1>6. LateFrom(e)
  BY <1>3 DEF LateFrom
<1> QED
  BY <1>2, <1>4, <1>5, <1>6, EdgeInvKept

LEMMA EdgeLose ==
    ASSUME NEW e \in EdgeIds, NEW c \in Streams, NEW s \in Streams, Named(e, c, s),
           EdgeInv(e, c, s), UNCHANGED <<meta, fork_edges, fork_intents, gc_releases>>,
           UNCHANGED <<proc, call>>, late' \subseteq late
    PROVE  EdgeInv(e, c, s)'
<1>1. RowInv(e, c, s)' /\ SameRows(e, c, s)
  BY TablesKeepRows DEF EdgeInv
<1>2. ASSUME NEW q \in Procs PROVE SameRole(q, e) /\ KeptCall(q, e)
  BY SameTaskSameRole DEF KeptCall
<1> QED
  BY <1>1, <1>2, LateShrinks, EdgeInvKept

LEMMA EdgeFlushSend ==
    ASSUME TypeOK, Tasks, NEW e \in EdgeIds, NEW c \in Streams, NEW s \in Streams,
           Named(e, c, s), EdgeInv(e, c, s), NEW p \in Procs, flush_send(p)
    PROVE  EdgeInv(e, c, s)'
<1>1. UNCHANGED <<meta, fork_edges, fork_intents, gc_releases, proc>> /\ late' = late
  BY DEF flush_send, tables
<1>2. RowInv(e, c, s)' /\ SameRows(e, c, s)
  BY <1>1, TablesKeepRows DEF EdgeInv
<1>3. PICK g \in proc[p].todo : CallOf(p, Release(g))
  BY FlushSendEffect
<1>4. Release(g).status = "sent" /\ Release(g).op = "release"
  BY DEF Release
<1>5. ASSUME NEW q \in Procs
      PROVE  call'[q] = call[q] \/ (call'[q].status = "sent" /\ call'[q].op = "release")
  BY <1>3, <1>4 DEF CallOf
<1>6. \A q \in Procs : SameRole(q, e)
  BY <1>1, <1>5, SameTaskSameRole
<1>7. \A q \in Procs : KeptCall(q, e)
  BY <1>5 DEF KeptCall
<1> QED
  BY <1>1, <1>2, <1>6, <1>7, LateShrinks, EdgeInvKept

LEMMA EdgeCreationFails ==
    ASSUME TypeOK, NEW e \in EdgeIds, NEW c \in Streams, NEW s \in Streams, Named(e, c, s),
           EdgeInv(e, c, s), NEW t \in Streams, create_fork_fails(t)
    PROVE  EdgeInv(e, c, s)'
<1>1. UNCHANGED <<meta, fork_edges, fork_intents, gc_releases>> /\ late' = late
  BY DEF create_fork_fails, tables
<1>2. RowInv(e, c, s)' /\ SameRows(e, c, s)
  BY <1>1, TablesKeepRows DEF EdgeInv
<1>3. TaskOf(handler(t), Free) /\ CallOf(handler(t), None)
  BY CreationEndsEffect
<1>4. ASSUME NEW q \in Procs PROVE SameRole(q, e) /\ KeptCall(q, e)
  <2>1. call'[q] = call[q] \/ call'[q] = None
    BY <1>3 DEF CallOf
  <2>2. CASE q = handler(t)
    BY <1>3, <2>2, NoRole DEF TaskOf, CallOf, Free, KeptCall
  <2>3. CASE q # handler(t)
    BY <1>3, <2>1, <2>3, SameTaskSameRole DEF TaskOf, KeptCall
  <2> QED
    BY <2>2, <2>3
<1> QED
  BY <1>1, <1>2, <1>4, LateShrinks, EdgeInvKept

(* A run that starts, and one that looks, flush nothing yet. *)
LEMMA EdgeMaintenance ==
    ASSUME TypeOK, Tasks, NEW e \in EdgeIds, NEW c \in Streams, NEW s \in Streams,
           Named(e, c, s), EdgeInv(e, c, s), NEW p \in Runs,
           run_maintenance(p) \/ reconcile_fork_intents(p)
    PROVE  EdgeInv(e, c, s)'
<1>1. UNCHANGED <<meta, fork_edges, fork_intents, gc_releases, call>> /\ late' = late
  BY DEF run_maintenance, reconcile_fork_intents, tables
<1>2. RowInv(e, c, s)' /\ SameRows(e, c, s)
  BY <1>1, TablesKeepRows DEF EdgeInv
<1>3. TaskOf(p, proc'[p]) /\ proc'[p].pc # "flush" /\ p \in Procs
  BY MaintenanceEffect, LookEffect, TaskNames
<1>4. ASSUME NEW q \in Procs PROVE SameRole(q, e) /\ KeptCall(q, e)
  <2>1. call'[q] = call[q]
    BY <1>1
  <2>2. CASE q = p
    BY <1>3, <2>1, <2>2 DEF SameRole, Acquiring, Returning, KeptCall
  <2>3. CASE q # p
    BY <1>3, <2>1, <2>3, SameTaskSameRole DEF TaskOf, KeptCall
  <2> QED
    BY <2>2, <2>3
<1> QED
  BY <1>1, <1>2, <1>4, LateShrinks, EdgeInvKept

LEMMA EdgeCrash ==
    ASSUME TypeOK, NEW e \in EdgeIds, NEW c \in Streams, NEW s \in Streams, Named(e, c, s),
           EdgeInv(e, c, s), NEW t \in Streams, crash(t)
    PROVE  EdgeInv(e, c, s)'
<1>1. UNCHANGED <<meta, fork_edges, fork_intents, gc_releases>>
  BY DEF crash, tables
<1>2. RowInv(e, c, s)' /\ SameRows(e, c, s)
  BY <1>1, TablesKeepRows DEF EdgeInv
<1>3. ASSUME NEW q \in Procs PROVE SameRole(q, e) /\ KeptCall(q, e)
  <2>1. CASE q[1] = t
    BY <2>1, CrashEffect, NoRole DEF Free, KeptCall
  <2>2. CASE q[1] # t
    <3>1. proc'[q] = proc[q]
      BY <2>2, CrashEffect
    <3>2. \/ call'[q] = call[q]
          \/ call[q] # None /\ SameCall(call'[q], call[q]) /\ call'[q].status = "failed"
      BY <2>2, CrashEffect
    <3> QED
      BY <3>1, <3>2, SameTaskSameRole DEF KeptCall
  <2> QED
    BY <2>1, <2>2
<1>4. LateFrom(e)
  BY CrashEffect DEF LateFrom
<1> QED
  BY <1>2, <1>3, <1>4, EdgeInvKept

LEMMA EdgeFlushEnd ==
    ASSUME TypeOK, Tasks, NEW e \in EdgeIds, NEW c \in Streams, NEW s \in Streams,
           Named(e, c, s), EdgeInv(e, c, s), NEW p \in Procs, flush_end(p)
    PROVE  EdgeInv(e, c, s)'
<1>1. UNCHANGED <<meta, fork_edges, fork_intents, gc_releases>> /\ late' = late
      /\ call[p] = None
  BY DEF flush_end, tables
<1>2. RowInv(e, c, s)' /\ SameRows(e, c, s)
  BY <1>1, TablesKeepRows DEF EdgeInv
<1>3. ASSUME NEW q \in Procs PROVE SameRole(q, e) /\ KeptCall(q, e)
  <2>1. \/ call'[q] = call[q]
        \/ /\ q # p /\ call[q] # None /\ call[q].status = "running"
           /\ SameCall(call'[q], call[q])
    BY FlushEndEffect
  <2>2. call[q] # None /\ call[q].status = "running" => call[q].op = "release"
    BY DEF Tasks, Answers, TypeOK, Call
  <2>3. KeptCall(q, e)
    BY <2>1, <2>2 DEF KeptCall
  <2>4. CASE q = p
    BY <1>1, <2>1, <2>3, <2>4, FlushEndEffect, NoRole DEF TaskOf, Free
  <2>5. CASE q # p
    <3>1. proc'[q] = proc[q]
      BY <2>5, FlushEndEffect DEF TaskOf
    <3> QED
      BY <2>1, <2>3, <3>1, SameTaskSameRole
  <2> QED
    BY <2>4, <2>5
<1> QED
  BY <1>1, <1>2, <1>3, LateShrinks, EdgeInvKept

(* A released edge is gone from its source, so that nothing of it is left   *)
(* to flush; a release that failed stays queued.                            *)
LEMMA EdgeFlushReply ==
    ASSUME TypeOK, Tasks, NEW e \in EdgeIds, NEW c \in Streams, NEW s \in Streams,
           Named(e, c, s), EdgeInv(e, c, s), NEW p \in Procs, flush_reply(p)
    PROVE  EdgeInv(e, c, s)'
<1>1. UNCHANGED <<meta, fork_edges, fork_intents>> /\ proc[p].pc = "flush" /\ late' = late
      /\ call[p] # None /\ call[p].status \in {"done", "failed"}
  BY DEF flush_reply
<1>2. SameRows(e, c, s)
  BY <1>1 DEF SameRows, HasIntent, HoldsEdge
<1>3. ASSUME NEW q \in Procs
      PROVE  SameRole(q, e) /\ KeptCall(q, e)
  <2>1. CASE q = p
    BY <1>1, <2>1, FlushReplyEffect DEF SameRole, Acquiring, Returning, CallOf, KeptCall
  <2>2. CASE q # p
    BY <2>2, FlushReplyEffect, SameTaskSameRole DEF TaskOf, CallOf, KeptCall
  <2> QED
    BY <2>1, <2>2
<1>4. gc_releases'[c] \subseteq gc_releases[c]
  BY DEF flush_reply, TypeOK
<1>5. \/ \A g \in gc_releases[c] : g.edge = e => g \in gc_releases'[c]
      \/ e \notin fork_edges[s]
  <2>1. CASE call[p].edge = e /\ call[p].status = "done"
    <3>1. call[p].op = "release"
      BY <1>1 DEF Tasks, Waits
    <3> QED
      BY <1>1, <2>1, <3>1 DEF EdgeInv, TaskInv
  <2>2. CASE call[p].edge # e \/ call[p].status = "failed"
    <3>1. gc_releases' = gc_releases \/
            gc_releases' = [gc_releases EXCEPT ![p[1]] = {g \in @ : ~(g.edge = call[p].edge)}]
      BY DEF flush_reply
    <3>2. call[p].status = "failed" => gc_releases' = gc_releases
      BY DEF flush_reply
    <3> QED
      BY <2>2, <3>1, <3>2 DEF TypeOK
  <2> QED
    BY <1>1, <2>1, <2>2
<1>6. RowInv(e, c, s)'
  <2>1. OwesRelease(c, e)' => OwesRelease(c, e)
    BY <1>4 DEF OwesRelease
  <2>2. e \in fork_edges[s] /\ OwesRelease(c, e) => OwesRelease(c, e)'
    BY <1>5 DEF OwesRelease
  <2>3. HoldsEdge(c, e)' <=> HoldsEdge(c, e)
    BY <1>1 DEF HoldsEdge
  <2>4. RowInv(e, c, s)
    BY DEF EdgeInv
  <2> QED
    BY <1>1, <1>2, <1>4, <2>1, <2>2, <2>3, <2>4 DEF RowInv, SameRows, OfGeneration
<1> QED
  BY <1>1, <1>2, <1>3, <1>6, LateShrinks, EdgeInvKept

LEMMA EdgePut ==
    ASSUME TypeOK, NoEdges, NEW e \in EdgeIds, NEW c \in Streams, NEW s \in Streams,
           Named(e, c, s), EdgeInv(e, c, s), NEW t \in Streams, handle_put(t)
    PROVE  EdgeInv(e, c, s)'
<1>1. /\ UNCHANGED <<fork_edges, fork_intents, gc_releases, proc, call, late>> /\ meta[t] = None
      /\ meta' = [meta EXCEPT ![t] = Root(t)] /\ Root(t).edge = 0
  BY DEF handle_put, Root, Fork
<1>2. ASSUME NEW d \in Streams
      PROVE  /\ HoldsEdge(d, e)' <=> HoldsEdge(d, e)
             /\ HoldsEdge(d, e) => meta'[d] = meta[d]
  BY <1>1 DEF HoldsEdge, TypeOK, EdgeIds
<1>3. e \in fork_edges[s] => meta'[s] = meta[s]
  BY <1>1 DEF NoEdges, TypeOK
<1>4. SameRows(e, c, s) /\ (OwesRelease(c, e)' <=> OwesRelease(c, e))
  BY <1>1, <1>2, <1>3 DEF SameRows, HasIntent, OwesRelease
<1>5. RowInv(e, c, s)'
  BY <1>1, <1>2, <1>3, <1>4 DEF EdgeInv, RowInv, SameRows, OfGeneration
<1>6. ASSUME NEW q \in Procs PROVE SameRole(q, e) /\ KeptCall(q, e)
  BY <1>1, SameTaskSameRole DEF KeptCall
<1> QED
  BY <1>1, <1>4, <1>5, <1>6, LateShrinks, EdgeInvKept

(* A granted edge is recorded under the intent of its child. *)
LEMMA AcquireRows ==
    ASSUME TypeOK, NEW e \in EdgeIds, NEW c \in Streams, NEW s \in Streams, RowInv(e, c, s),
           NEW t \in Streams, NEW x \in EdgeIds, Granted(t, x) \/ Refused(t, x),
           x = e => t = s /\ HasIntent(c, e)
    PROVE  /\ UNCHANGED <<meta, fork_intents, gc_releases, contested, proc>>
           /\ RowInv(e, c, s)'
           /\ x # e => SameRows(e, c, s)
           /\ HasIntent(c, e)' <=> HasIntent(c, e)
           /\ HoldsEdge(c, e)' <=> HoldsEdge(c, e)
<1>1. UNCHANGED <<meta, fork_intents, gc_releases, contested, proc>>
  BY DEF Granted, Refused
<1>2. (HasIntent(c, e)' <=> HasIntent(c, e)) /\ (OwesRelease(c, e)' <=> OwesRelease(c, e))
      /\ (HoldsEdge(c, e)' <=> HoldsEdge(c, e))
  BY <1>1 DEF HasIntent, OwesRelease, HoldsEdge
<1>3. x # e => (e \in fork_edges'[s] <=> e \in fork_edges[s])
  BY DEF Granted, Refused, TypeOK
<1>4. CASE x # e
  <2>1. SameRows(e, c, s)
    BY <1>1, <1>2, <1>3, <1>4 DEF SameRows
  <2>2. RowInv(e, c, s)'
    BY <1>1, <1>2, <1>3, <1>4 DEF RowInv, OfGeneration
  <2> QED
    BY <1>1, <1>2, <2>1, <2>2
<1>5. CASE x = e
  <2>1. HasIntent(c, e) /\ ~OwesRelease(c, e) /\ ~HoldsEdge(c, e)
    BY <1>5 DEF RowInv
  <2>2. RowInv(e, c, s)'
    BY <1>2, <2>1 DEF RowInv, OwesRelease
  <2> QED
    BY <1>1, <1>2, <1>5, <2>2
<1> QED
  BY <1>4, <1>5

(* The answer says whether the edge is there, and nobody changes that       *)
(* before its caller has read it.                                           *)
LEMMA EdgeAnswerAcquire ==
    ASSUME TypeOK, Tasks, NoEdges, NEW e \in EdgeIds, NEW c \in Streams, NEW s \in Streams,
           Named(e, c, s), EdgeInv(e, c, s), NEW p \in Procs, answer_acquire(p)
    PROVE  EdgeInv(e, c, s)'
<1> DEFINE t == call[p].to
           x == call[p].edge
<1>0. RowInv(e, c, s)
  BY DEF EdgeInv
<1>1. /\ call[p] # None /\ call[p].op = "acquire" /\ call[p].status = "sent"
      /\ t \in Streams /\ x \in EdgeIds /\ late' = late
      /\ call'[p] # None /\ call'[p].op = "acquire" /\ call'[p].edge = x
      /\ call'[p].status = "done"
      /\ \A q \in Procs : q # p => call'[q] = call[q]
  BY AnswerAcquireEffect DEF CallOf
<1>2. \/ /\ Granted(t, x) /\ call'[p].ok = TRUE
         /\ call'[p].generation = meta[t].generation
      \/ Refused(t, x) /\ call'[p].ok = FALSE
  BY AnswerAcquireEffect
<1>3. x = e =>
        /\ Acquiring(p, e) /\ t = s /\ HasIntent(c, e)
        /\ \A q \in Procs : /\ ~Returning(q, e)
                            /\ q # p => ~(call[q] # None /\ call[q].edge = e)
        /\ \A y \in late : y.edge # e
  <2> SUFFICES ASSUME x = e
               PROVE  /\ Acquiring(p, e) /\ t = s /\ HasIntent(c, e)
                      /\ \A q \in Procs : /\ ~Returning(q, e)
                                          /\ q # p => ~(call[q] # None /\ call[q].edge = e)
                      /\ \A y \in late : y.edge # e
    OBVIOUS
  <2>1. Acquiring(p, e) /\ call[p].status # "failed"
    BY <1>1 DEF Acquiring
  <2> QED
    BY <2>1, AnsweredEdge
<1> HIDE DEF t, x
<1>4. /\ UNCHANGED <<meta, fork_intents, gc_releases, contested, proc>>
      /\ RowInv(e, c, s)' /\ (x # e => SameRows(e, c, s))
      /\ HasIntent(c, e)' <=> HasIntent(c, e)
  BY <1>0, <1>1, <1>2, <1>3, AcquireRows
<1>5. CASE x # e
  <2>1. ASSUME NEW q \in Procs PROVE SameRole(q, e) /\ KeptCall(q, e)
    <3>1. call'[q] = call[q] \/ call'[q].edge # e
      BY <1>1, <1>5
    <3> QED
      BY <1>4, <3>1, SameTaskSameRole DEF KeptCall
  <2> QED
    BY <1>1, <1>4, <1>5, <2>1, LateShrinks, EdgeInvKept
<1>6. CASE x = e
  <2>1. /\ call'[p].ok => e \in fork_edges'[s] /\ meta'[s].generation = call'[p].generation
        /\ ~call'[p].ok => e \notin fork_edges'[s]
    <3>1. CASE Granted(s, e) /\ call'[p].ok = TRUE /\ call'[p].generation = meta[s].generation
      BY <1>4, <3>1 DEF Granted, TypeOK
    <3>2. CASE Refused(s, e) /\ call'[p].ok = FALSE
      BY <3>2 DEF Refused, NoEdges
    <3> QED
      BY <1>2, <1>3, <1>6, <3>1, <3>2
  <2>2. ASSUME NEW q \in Procs PROVE ~Returning(q, e)'
    BY <1>3, <1>4, <1>6 DEF Returning
  <2>3. ASSUME NEW q \in Procs, q # p PROVE ~(call'[q] # None /\ call'[q].edge = e)
    BY <1>1, <1>3, <1>6, <2>3
  <2>4. TaskInv(p, e, c, s)'
    <3>1. HasIntent(c, e)'
      BY <1>3, <1>4, <1>6
    <3>2. proc'[p].pc = "flush" => ~\E g \in proc'[p].todo : g.edge = e
      BY <2>2 DEF Returning
    <3>3. call'[p].op # "release"
      BY <1>1
    <3> QED
      BY <2>1, <2>2, <3>1, <3>2, <3>3 DEF TaskInv
  <2>5. ASSUME NEW q \in Procs, q # p PROVE TaskInv(q, e, c, s)' /\ ~Acquiring(q, e)'
    BY <2>2, <2>3, <2>5 DEF TaskInv, Returning, Acquiring
  <2>6. LateInv(e, c, s)' /\ Alone(e)'
    BY <1>1, <1>3, <1>6, <2>5 DEF LateInv, Alone
  <2> QED
    BY <1>4, <2>4, <2>5, <2>6 DEF EdgeInv
<1> QED
  BY <1>5, <1>6

(* A late acquire finds the intent still there, and nobody has an answer    *)
(* that it could belie.                                                     *)
LEMMA EdgeLateAcquire ==
    ASSUME TypeOK, NEW e \in EdgeIds, NEW c \in Streams, NEW s \in Streams,
           Named(e, c, s), EdgeInv(e, c, s), NEW x \in late, late_call(x), x.op = "acquire"
    PROVE  EdgeInv(e, c, s)'
<1>0. RowInv(e, c, s) /\ LateInv(e, c, s) /\ Alone(e)
  BY DEF EdgeInv
<1>1. /\ x.to \in Streams /\ x.edge \in EdgeIds /\ late' \subseteq late /\ call' = call
      /\ Granted(x.to, x.edge) \/ Refused(x.to, x.edge)
  BY LateCallEffect
<1>2. x.edge = e => x.to = s /\ HasIntent(c, e)
  BY <1>0 DEF Named, LateInv
<1>3. /\ UNCHANGED <<meta, fork_intents, gc_releases, contested, proc>>
      /\ RowInv(e, c, s)' /\ (x.edge # e => SameRows(e, c, s))
      /\ (HasIntent(c, e)' <=> HasIntent(c, e)) /\ (HoldsEdge(c, e)' <=> HoldsEdge(c, e))
  BY <1>0, <1>1, <1>2, AcquireRows
<1>4. ASSUME NEW q \in Procs PROVE SameRole(q, e) /\ KeptCall(q, e)
  BY <1>1, <1>3, SameTaskSameRole DEF KeptCall
<1>5. CASE x.edge # e
  BY <1>1, <1>3, <1>4, <1>5, LateShrinks, EdgeInvKept
<1>6. CASE x.edge = e
  <2>1. ASSUME NEW q \in Procs PROVE TaskInv(q, e, c, s)'
    <3>1. TaskInv(q, e, c, s)
      BY DEF EdgeInv
    <3>2. ~Returning(q, e) /\ ~Returning(q, e)'
      BY <1>2, <1>3, <1>6, <3>1 DEF TaskInv, Returning
    <3>3. call[q] # None /\ call[q].edge = e => call[q].op # "release"
      BY <3>2 DEF Named
    <3>4. Acquiring(q, e) => call[q].status = "failed"
      BY <1>0, <1>6 DEF Alone
    <3>5. Acquiring(q, e)' => HasIntent(c, e)'
      BY <1>2, <1>3, <1>6
    <3>6. proc'[q].pc = "flush" => ~\E g \in proc'[q].todo : g.edge = e
      BY <3>2 DEF Returning
    <3> QED
      BY <1>1, <3>2, <3>3, <3>4, <3>5, <3>6 DEF TaskInv, Acquiring
  <2>2. LateInv(e, c, s)'
    BY <1>0, <1>1, <1>2, <1>3, <1>6 DEF LateInv
  <2>3. Alone(e)'
    BY <1>0, <1>1, <1>4, LateShrinks, AloneKept
  <2> QED
    BY <1>3, <2>1, <2>2, <2>3 DEF EdgeInv
<1> QED
  BY <1>5, <1>6

-----------------------------------------------------------------------------
(* The steps that take edges from a source.                                 *)

(* A purge queues the release of the stream's own edge, and takes the one   *)
(* edge that was left with it.                                              *)
LEMMA PurgeRows ==
    ASSUME TypeOK, NEW e \in EdgeIds, NEW c \in Streams, NEW s \in Streams,
           Named(e, c, s), RowInv(e, c, s), NEW t \in Streams, Purged(t),
           e \in fork_edges[t] => ~HasIntent(c, e) /\ ~HoldsEdge(c, e)
    PROVE  /\ RowInv(e, c, s)'
           /\ HasIntent(c, e)' <=> HasIntent(c, e)
           /\ HoldsEdge(c, e)' => HoldsEdge(c, e)
           /\ s = t => e \notin fork_edges'[s]
           /\ s # t => fork_edges'[s] = fork_edges[s] /\ meta'[s] = meta[s]
<1>1. /\ meta' = [meta EXCEPT ![t] = None] /\ fork_edges' = [fork_edges EXCEPT ![t] = {}]
      /\ UNCHANGED fork_intents /\ meta[t] # None
      /\ gc_releases'[t] = gc_releases[t] \union owed(t)
      /\ \A d \in Streams : d # t => gc_releases'[d] = gc_releases[d]
  BY PurgeQueues DEF Purged, purge_stream_tx
<1>2. HasIntent(c, e)' <=> HasIntent(c, e)
  BY <1>1 DEF HasIntent
<1>3. HoldsEdge(c, e)' <=> (c # t /\ HoldsEdge(c, e))
  BY <1>1 DEF HoldsEdge, TypeOK
<1>4. s = t => e \notin fork_edges'[s]
  BY <1>1 DEF TypeOK
<1>5. s # t => fork_edges'[s] = fork_edges[s] /\ meta'[s] = meta[s]
  BY <1>1 DEF TypeOK
<1>6. ASSUME NEW g \in owed(t), g.edge = e
      PROVE  HoldsEdge(t, e) /\ c = t /\ g.generation = meta[t].source_generation
  <2>1. HoldsEdge(t, e) /\ g.generation = meta[t].source_generation
    BY <1>1, <1>6 DEF owed, HoldsEdge
  <2> QED
    BY <2>1 DEF Named
<1>7. OwesRelease(c, e)' => OwesRelease(c, e) \/ (c = t /\ HoldsEdge(c, e))
  BY <1>1, <1>6 DEF OwesRelease
<1>8. OwesRelease(c, e) \/ (c = t /\ HoldsEdge(c, e)) => OwesRelease(c, e)'
  <2>1. HoldsEdge(t, e) => \E g \in owed(t) : g.edge = e
    <3>1. HoldsEdge(t, e) => meta[t].parent # None
      BY NoneIsNoRow DEF HoldsEdge, TypeOK, Meta, EdgeIds
    <3> QED
      BY <3>1 DEF owed, HoldsEdge
  <2> QED
    BY <1>1, <2>1 DEF OwesRelease
<1>9. \A g \in gc_releases'[c] : g.edge = e =>
         \/ g \in gc_releases[c]
         \/ c = t /\ HoldsEdge(c, e) /\ g.generation = meta[c].source_generation
  BY <1>1, <1>6
<1>10. s = t => (e \in fork_edges[s] => ~HoldsEdge(c, e))
  OBVIOUS
<1>11. \A g \in gc_releases'[c] : g.edge = e => OfGeneration(e, s, g.generation)'
  BY <1>4, <1>5, <1>9 DEF RowInv, OfGeneration
<1>12. e \in fork_edges'[s] => HasIntent(c, e)' \/ OwesRelease(c, e)' \/ HoldsEdge(c, e)'
  BY <1>2, <1>3, <1>4, <1>5, <1>8 DEF RowInv
<1>13. HasIntent(c, e)' => ~OwesRelease(c, e)' /\ ~HoldsEdge(c, e)'
  BY <1>2, <1>3, <1>7 DEF RowInv
<1>14. HoldsEdge(c, e)' =>
          /\ ~OwesRelease(c, e)'
          /\ e \in fork_edges'[s] /\ meta'[s].generation = meta'[c].source_generation
  <2>1. c # t => meta'[c] = meta[c]
    BY <1>1 DEF TypeOK
  <2> QED
    BY <1>3, <1>5, <1>7, <1>10, <2>1 DEF RowInv
<1>15. RowInv(e, c, s)'
  BY <1>11, <1>12, <1>13, <1>14 DEF RowInv
<1> QED
  BY <1>2, <1>3, <1>4, <1>5, <1>15

LEMMA EdgePurge ==
    ASSUME TypeOK, Tasks, NEW e \in EdgeIds, NEW c \in Streams, NEW s \in Streams,
           Named(e, c, s), EdgeInv(e, c, s), NEW t \in Streams, Purged(t),
           e \in fork_edges[t] => ~HasIntent(c, e) /\ ~HoldsEdge(c, e), late' \subseteq late,
           \A q \in Procs :
              \/ call'[q] = call[q]
              \/ /\ call[q] # None /\ SameCall(call'[q], call[q]) /\ call[q].op = "release"
                 /\ call[q].to = t /\ q # handler(t)
    PROVE  EdgeInv(e, c, s)'
<1>0. RowInv(e, c, s) /\ LateInv(e, c, s) /\ Alone(e) /\ \A q \in Procs : TaskInv(q, e, c, s)
  BY DEF EdgeInv
<1>1. /\ RowInv(e, c, s)' /\ (HasIntent(c, e)' <=> HasIntent(c, e))
      /\ HoldsEdge(c, e)' => HoldsEdge(c, e)
  BY <1>0, PurgeRows
<1>2. /\ s = t => e \notin fork_edges'[s]
      /\ s # t => fork_edges'[s] = fork_edges[s] /\ meta'[s] = meta[s]
  BY <1>0, PurgeRows
<1>3. \A g : OfGeneration(e, s, g) => OfGeneration(e, s, g)'
  BY <1>2 DEF OfGeneration
<1>4. TaskOf(handler(t), proc'[handler(t)]) /\ proc'[handler(t)].todo = gc_releases'[t]
       /\ proc'[handler(t)].pc \in {"free", "flush"} /\ proc[handler(t)].pc = "free"
       /\ handler(t) \in Procs
  BY TaskNames DEF Purged, Unlocked
<1>5. ASSUME NEW q \in Procs PROVE TaskInv(q, e, c, s)'
  <2>1. CASE q = handler(t)
    <3>1. call'[q] = None
      BY <1>4, <2>1 DEF Tasks, Waits
    <3>2. ASSUME NEW g \in proc'[q].todo, g.edge = e PROVE c = t /\ g \in gc_releases'[c]
      <4>1. g \in gc_releases'[t] /\ gc_releases'[t] = gc_releases[t] \union owed(t)
        BY <1>4, <2>1, <3>2, PurgeQueues DEF Purged
      <4>2. CASE g \in gc_releases[t]
        BY <3>2, <4>1, <4>2 DEF Named, OwesRelease
      <4>3. CASE g \in owed(t)
        <5>1. HoldsEdge(t, e)
          BY <3>2, <4>3 DEF owed, HoldsEdge, Purged
        <5> QED
          BY <4>1, <5>1 DEF Named
      <4> QED
        BY <4>1, <4>2, <4>3
    <3>3. \A g \in proc'[q].todo : g.edge = e => OfGeneration(e, s, g.generation)'
      BY <1>1, <3>2 DEF RowInv
    <3>4. Returning(q, e)' => ~HasIntent(c, e)' /\ ~HoldsEdge(c, e)'
      BY <1>1, <3>2 DEF Returning, RowInv, OwesRelease
    <3> QED
      BY <3>1, <3>3, <3>4 DEF TaskInv, Acquiring
  <2>2. CASE q # handler(t)
    <3>1. proc'[q] = proc[q] /\ SameRole(q, e)
      BY <1>4, <2>2, SameTaskSameRole DEF TaskOf, SameCall
    <3>2. TaskInv(q, e, c, s)
      BY <1>0
    <3>3. /\ Acquiring(q, e)' => HasIntent(c, e)'
          /\ Returning(q, e)' => ~HasIntent(c, e)' /\ ~HoldsEdge(c, e)'
      BY <1>1, <3>1, <3>2 DEF TaskInv, SameRole
    <3>4. proc'[q].pc = "flush" =>
            \A g \in proc'[q].todo : g.edge = e => OfGeneration(e, s, g.generation)'
      BY <1>3, <3>1, <3>2 DEF TaskInv
    <3>5. CASE call'[q] = call[q] /\ call[q] # None /\ call[q].edge = e
      <4>1. call[q].op = "acquire" => HasIntent(c, e)
        BY <3>2, <3>5 DEF TaskInv, Acquiring
      <4>2. call[q].op = "acquire" /\ call[q].status = "done" /\ call[q].ok =>
              e \in fork_edges'[s] /\ meta'[s].generation = call[q].generation
        BY <1>2, <3>2, <3>5, <4>1 DEF TaskInv
      <4>3. e \in fork_edges'[s] => e \in fork_edges[s]
        BY <1>2
      <4> QED
        BY <3>2, <3>3, <3>4, <3>5, <4>2, <4>3 DEF TaskInv
    <3>6. CASE call'[q] = call[q] /\ ~(call[q] # None /\ call[q].edge = e)
      BY <3>3, <3>4, <3>6 DEF TaskInv
    <3>7. CASE /\ call[q] # None /\ SameCall(call'[q], call[q]) /\ call[q].op = "release"
               /\ call[q].to = t
      <4>1. call[q].edge = e => s = t
        BY <3>7 DEF Named
      <4> QED
        BY <1>2, <3>3, <3>4, <3>7, <4>1 DEF TaskInv, SameCall
    <3> QED
      BY <3>5, <3>6, <3>7
  <2> QED
    BY <2>1, <2>2
<1>6. LateInv(e, c, s)'
  BY <1>0, <1>1, <1>3 DEF LateInv
<1>7. ASSUME NEW q \in Procs, Acquiring(q, e)' PROVE Acquiring(q, e) /\ call'[q] = call[q]
  BY <1>7 DEF Acquiring, SameCall
<1>8. Alone(e)'
  BY <1>0, <1>7 DEF Alone
<1> QED
  BY <1>1, <1>5, <1>6, <1>8 DEF EdgeInv

(* A release takes an edge that nothing needs, in its own generation.       *)
LEMMA EdgeTakes ==
    ASSUME TypeOK, NoEdges, NEW e \in EdgeIds, NEW c \in Streams, NEW s \in Streams,
           Named(e, c, s), EdgeInv(e, c, s), NEW t \in Streams, NEW x, NEW g, Takes(t, x, g),
           x = e => /\ t = s /\ ~HasIntent(c, e) /\ ~HoldsEdge(c, e) /\ OfGeneration(e, s, g),
           late' \subseteq late,
           \A q \in Procs :
              \/ call'[q] = call[q]
              \/ /\ call[q] # None /\ SameCall(call'[q], call[q]) /\ call[q].op = "release"
                 /\ call[q].edge = x
    PROVE  EdgeInv(e, c, s)'
<1>0. RowInv(e, c, s) /\ LateInv(e, c, s) /\ Alone(e) /\ \A q \in Procs : TaskInv(q, e, c, s)
  BY DEF EdgeInv
<1>1. UNCHANGED <<meta, fork_intents, gc_releases, contested, proc>>
  BY DEF Takes
<1>2. (HasIntent(c, e)' <=> HasIntent(c, e)) /\ (OwesRelease(c, e)' <=> OwesRelease(c, e))
      /\ (HoldsEdge(c, e)' <=> HoldsEdge(c, e))
  BY <1>1 DEF HasIntent, OwesRelease, HoldsEdge
<1>3. ASSUME NEW q \in Procs PROVE SameRole(q, e)
  BY <1>1, SameTaskSameRole DEF SameCall
<1>4. CASE x # e
  <2>1. e \in fork_edges'[s] <=> e \in fork_edges[s]
    <3>1. fork_edges' = fork_edges \/ fork_edges' = [fork_edges EXCEPT ![t] = @ \ {x}]
      BY DEF Takes
    <3> QED
      BY <1>4, <3>1 DEF TypeOK
  <2>2. SameRows(e, c, s)
    BY <1>1, <1>2, <2>1 DEF SameRows
  <2>3. RowInv(e, c, s)'
    BY <1>0, <1>1, <1>2, <2>1 DEF RowInv, OfGeneration
  <2>4. \A q \in Procs : KeptCall(q, e)
    BY <1>4 DEF KeptCall, SameCall
  <2> QED
    BY <1>3, <2>2, <2>3, <2>4, LateShrinks, EdgeInvKept
<1>5. CASE x = e
  <2>1. e \notin fork_edges'[s]
    <3>1. CASE Ours(s, g)
      BY <1>5, <3>1 DEF Takes, TypeOK
    <3>2. CASE ~Ours(s, g)
      BY <1>5, <3>2 DEF Takes, Ours, NoEdges, OfGeneration
    <3> QED
      BY <3>1, <3>2
  <2>2. ~HasIntent(c, e)' /\ ~HoldsEdge(c, e)'
    BY <1>2, <1>5
  <2>3. RowInv(e, c, s)'
    BY <2>1, <2>2 DEF RowInv, OfGeneration
  <2>4. ASSUME NEW q \in Procs PROVE ~Acquiring(q, e)'
    BY <1>0, <1>3, <1>5 DEF TaskInv, SameRole
  <2>5. ASSUME NEW q \in Procs PROVE TaskInv(q, e, c, s)'
    BY <2>1, <2>2, <2>4 DEF TaskInv, OfGeneration, Acquiring
  <2>6. LateInv(e, c, s)' /\ Alone(e)'
    BY <1>0, <1>5, <2>1, <2>2, <2>4 DEF LateInv, Alone, OfGeneration
  <2> QED
    BY <2>3, <2>5, <2>6 DEF EdgeInv
<1> QED
  BY <1>4, <1>5

LEMMA EdgeAnswerRelease ==
    ASSUME TypeOK, Tasks, NoEdges, NEW e \in EdgeIds, NEW c \in Streams, NEW s \in Streams,
           Named(e, c, s), EdgeInv(e, c, s), NEW p \in Procs, answer_release(p)
    PROVE  EdgeInv(e, c, s)'
<1> DEFINE t == call[p].to
           x == call[p].edge
           g == call[p].generation
<1>1. /\ call[p] # None /\ call[p].op = "release" /\ t \in Streams /\ x \in EdgeIds
      /\ p # handler(t) /\ late' = late
      /\ SameCall(call'[p], call[p])
      /\ \A q \in Procs : q # p => call'[q] = call[q]
  BY AnswerReleaseEffect DEF CallOf
<1>2. (Ours(t, g) /\ Purged(t) /\ fork_edges[t] = {x}) \/ Takes(t, x, g)
  BY AnswerReleaseEffect
<1>3. x = e => t = s /\ ~HasIntent(c, e) /\ ~HoldsEdge(c, e) /\ OfGeneration(e, s, g)
  <2>1. ASSUME x = e
        PROVE  t = s /\ Returning(p, e) /\ \E y \in proc[p].todo : y.edge = e /\ y.generation = g
    BY <1>1, <2>1 DEF Named
  <2>2. TaskInv(p, e, c, s)
    BY DEF EdgeInv
  <2> QED
    BY <2>1, <2>2 DEF TaskInv, Returning
<1>4. CASE Purged(t) /\ fork_edges[t] = {x}
  <2>1. e \in fork_edges[t] => ~HasIntent(c, e) /\ ~HoldsEdge(c, e)
    BY <1>3, <1>4
  <2>2. \A q \in Procs :
           \/ call'[q] = call[q]
           \/ /\ call[q] # None /\ SameCall(call'[q], call[q]) /\ call[q].op = "release"
              /\ call[q].to = t /\ q # handler(t)
    BY <1>1
  <2> HIDE DEF t, x, g
  <2> QED
    BY <1>1, <1>4, <2>1, <2>2, EdgePurge
<1>5. CASE Takes(t, x, g)
  <2>1. \A q \in Procs :
           \/ call'[q] = call[q]
           \/ /\ call[q] # None /\ SameCall(call'[q], call[q]) /\ call[q].op = "release"
              /\ call[q].edge = x
    BY <1>1
  <2> HIDE DEF t, x, g
  <2> QED
    BY <1>1, <1>3, <1>5, <2>1, EdgeTakes
<1> QED
  BY <1>2, <1>4, <1>5

LEMMA EdgeLateRelease ==
    ASSUME TypeOK, Tasks, NoEdges, NEW e \in EdgeIds, NEW c \in Streams, NEW s \in Streams,
           Named(e, c, s), EdgeInv(e, c, s), NEW y \in late, late_call(y), y.op # "acquire"
    PROVE  EdgeInv(e, c, s)'
<1> DEFINE t == y.to
           x == y.edge
           g == y.generation
<1>1. /\ t \in Streams /\ x \in EdgeIds /\ late' \subseteq late /\ call' = call
      /\ y.op = "release"
      /\ (Ours(t, g) /\ Purged(t) /\ fork_edges[t] = {x}) \/ Takes(t, x, g)
  BY LateCallEffect
<1>2. x = e => t = s /\ ~HasIntent(c, e) /\ ~HoldsEdge(c, e) /\ OfGeneration(e, s, g)
  BY <1>1 DEF EdgeInv, LateInv, Named
<1>3. \A q \in Procs : call'[q] = call[q]
  BY <1>1
<1> HIDE DEF t, x, g
<1>4. CASE Purged(t) /\ fork_edges[t] = {x}
  <2>1. e \in fork_edges[t] => ~HasIntent(c, e) /\ ~HoldsEdge(c, e)
    BY <1>2, <1>4
  <2> QED
    BY <1>1, <1>3, <1>4, <2>1, EdgePurge
<1>5. CASE Takes(t, x, g)
  BY <1>1, <1>2, <1>3, <1>5, EdgeTakes
<1> QED
  BY <1>1, <1>4, <1>5

LEMMA EdgeRetire ==
    ASSUME TypeOK, Tasks, NEW e \in EdgeIds, NEW c \in Streams, NEW s \in Streams,
           Named(e, c, s), EdgeInv(e, c, s), NEW t \in Streams, retire(t)
    PROVE  EdgeInv(e, c, s)'
<1>1. call' = call /\ late' = late
  BY DEF retire
<1>2. CASE Purged(t) /\ fork_edges[t] = {}
  BY <1>1, <1>2, EdgePurge
<1>3. CASE /\ meta[t] # None /\ meta' = [meta EXCEPT ![t].soft_deleted = TRUE]
           /\ UNCHANGED <<fork_edges, fork_intents, gc_releases, contested, proc>>
  <2> DEFINE row == [meta[t] EXCEPT !.soft_deleted = TRUE]
  <2>1. meta[t] \in Meta
    BY <1>3 DEF TypeOK
  <2>2. row \in Meta /\ row.edge = meta[t].edge /\ row.generation = meta[t].generation
        /\ row.source_generation = meta[t].source_generation
    BY <2>1 DEF Meta
  <2>3. meta' = [meta EXCEPT ![t] = row]
    BY <1>3
  <2> HIDE DEF row
  <2>4. ASSUME NEW d \in Streams
        PROVE  /\ HoldsEdge(d, e)' <=> HoldsEdge(d, e)
               /\ meta'[d].generation = meta[d].generation
               /\ meta'[d].source_generation = meta[d].source_generation
    BY <1>3, <2>2, <2>3, NoneIsNoRow DEF HoldsEdge, TypeOK
  <2>5. SameRows(e, c, s) /\ (OwesRelease(c, e)' <=> OwesRelease(c, e))
    BY <1>3, <2>4 DEF SameRows, HasIntent, OwesRelease
  <2>6. RowInv(e, c, s)'
    BY <1>3, <2>4, <2>5 DEF EdgeInv, RowInv, SameRows, OfGeneration
  <2>7. ASSUME NEW q \in Procs PROVE SameRole(q, e) /\ KeptCall(q, e)
    BY <1>1, <1>3, SameTaskSameRole DEF KeptCall
  <2> QED
    BY <1>1, <2>5, <2>6, <2>7, LateShrinks, EdgeInvKept
<1> QED
  BY <1>2, <1>3, RetireEffect

-----------------------------------------------------------------------------
(* The steps that ask for an edge, and those that act on the answer.        *)

(* An edge that nothing names. *)
Fresh(e) ==
    /\ \A t \in Streams :
        e \notin fork_edges[t] /\ ~HasIntent(t, e) /\ ~OwesRelease(t, e) /\ ~HoldsEdge(t, e)
    /\ Quiet(e)

(* An edge is asked for that no acquire is out for: a new one, or one of an *)
(* intent that is still there.                                              *)
LEMMA EdgeAsked ==
    ASSUME TypeOK, Tasks, NEW e \in EdgeIds, NEW c \in Streams, NEW s \in Streams,
           Named(e, c, s), EdgeInv(e, c, s), NEW p \in Procs,
           UNCHANGED <<meta, fork_edges, gc_releases, late>>,
           \A q \in Procs : q # p => call'[q] = call[q],
           \A q \in Procs : Returning(q, e)' => Returning(q, e),
           call'[p] # None, call'[p].op = "acquire", call'[p].status = "sent",
           ~Outstanding(e), HasIntent(c, e)', HasIntent(c, e) \/ Fresh(e)
    PROVE  EdgeInv(e, c, s)'
<1>1. (OwesRelease(c, e)' <=> OwesRelease(c, e)) /\ (HoldsEdge(c, e)' <=> HoldsEdge(c, e))
  BY DEF OwesRelease, HoldsEdge
<1>2. /\ ~OwesRelease(c, e) /\ ~HoldsEdge(c, e)
      /\ \A q \in Procs : ~Returning(q, e) /\ (q # p => ~(call[q] # None /\ call[q].edge = e))
      /\ \A x \in late : x.edge # e
  <2>1. CASE HasIntent(c, e)
    <3>1. \A q \in Procs : q # p => ~Acquiring(q, e)
      BY DEF Outstanding, Acquiring
    <3>2. \A x \in late : ~(x.op = "acquire" /\ x.edge = e)
      BY DEF Outstanding
    <3>3. /\ \A q \in Procs : /\ ~Returning(q, e)
                              /\ q # p => ~(call[q] # None /\ call[q].edge = e)
          /\ \A x \in late : x.edge # e
      BY <2>1, <3>1, <3>2, NothingElse
    <3> QED
      BY <2>1, <3>3 DEF EdgeInv, RowInv
  <2>2. CASE Fresh(e)
    BY <2>2 DEF Fresh, Quiet
  <2> QED
    BY <2>1, <2>2
<1>3. RowInv(e, c, s)'
  BY <1>1, <1>2 DEF RowInv, OwesRelease
<1>4. TaskInv(p, e, c, s)'
  BY <1>2 DEF TaskInv, Returning
<1>5. ASSUME NEW q \in Procs, q # p PROVE TaskInv(q, e, c, s)' /\ ~Acquiring(q, e)'
  BY <1>2, <1>5 DEF TaskInv, Returning, Acquiring
<1>6. LateInv(e, c, s)' /\ Alone(e)'
  BY <1>2, <1>5 DEF LateInv, Alone
<1> QED
  BY <1>3, <1>4, <1>5, <1>6 DEF EdgeInv

LEMMA EdgeCreate ==
    ASSUME TypeOK, Tasks, NEW e \in EdgeIds, NEW c \in Streams, NEW s \in Streams,
           Named(e, c, s), Named(e, c, s)', EdgeInv(e, c, s),
           NEW t \in Streams, NEW src \in Streams, NEW o \in Offsets, create_fork(t, src, o),
           edges' # edges /\ e = edges' => Fresh(e), e \notin contested'
    PROVE  EdgeInv(e, c, s)'
<1> DEFINE h == handler(t)
<1>0. RowInv(e, c, s) /\ \A q \in Procs : TaskInv(q, e, c, s)
  BY DEF EdgeInv
<1>1. UNCHANGED <<meta, fork_edges, gc_releases, late>> /\ h \in Procs /\ h[1] = t
  BY TaskNames DEF create_fork
<1>2. PICK x \in EdgeIds :
        /\ Asked(t, src, x)
        /\ x = e => HasIntent(t, e)' /\ (HasIntent(t, e) \/ Fresh(e))
        /\ x # e => (HasIntent(c, e)' <=> HasIntent(c, e))
  <2>1. CASE /\ UNCHANGED fork_intents
             /\ \E i \in fork_intents[t] :
                   i.parent = src /\ i.edge \in EdgeIds /\ Asked(t, src, i.edge)
    <3>1. PICK i \in fork_intents[t] : i.edge \in EdgeIds /\ Asked(t, src, i.edge)
      BY <2>1
    <3>2. /\ i.edge = e => HasIntent(t, e)' /\ HasIntent(t, e)
          /\ HasIntent(c, e)' <=> HasIntent(c, e)
      BY <2>1, <3>1 DEF HasIntent
    <3> QED
      BY <3>1, <3>2
  <2>2. CASE /\ edges' = edges + 1 /\ edges' \in EdgeIds /\ Asked(t, src, edges')
             /\ fork_intents' = [fork_intents EXCEPT
                   ![t] = @ \union {[edge |-> edges', parent |-> src, offset |-> o]}]
    <3>1. PICK n, r : /\ n \in EdgeIds /\ n = edges'
                      /\ r = [edge |-> edges', parent |-> src, offset |-> o]
      BY <2>2
    <3>2. r.edge = n /\ fork_intents' = [fork_intents EXCEPT ![t] = @ \union {r}]
      BY <2>2, <3>1
    <3>3. n # edges
      BY <2>2, <3>1, BoundsAreNaturals DEF TypeOK
    <3>4. n = e => HasIntent(t, e)'
      BY <3>2 DEF HasIntent, TypeOK
    <3>5. n # e => (HasIntent(c, e)' <=> HasIntent(c, e))
      BY <3>2 DEF HasIntent, TypeOK
    <3>6. n = e => Fresh(e)
      BY <3>1, <3>3
    <3> QED
      BY <2>2, <3>1, <3>4, <3>5, <3>6
  <2> QED
    BY <2>1, <2>2, CreateEffect
<1>3. /\ TaskOf(h, proc'[h]) /\ CallOf(h, call'[h]) /\ proc'[h].pc = "acquire"
      /\ call'[h] # None /\ call'[h].op = "acquire" /\ call'[h].edge = x
      /\ call'[h].status = "sent" /\ (x \notin contested' => ~Outstanding(x))
  BY <1>2 DEF Asked
<1>4. ASSUME NEW q \in Procs, q # h PROVE proc'[q] = proc[q] /\ call'[q] = call[q]
  BY <1>3, <1>4 DEF TaskOf, CallOf
<1>5. ASSUME NEW q \in Procs PROVE Returning(q, e)' => Returning(q, e)
  BY <1>3, <1>4 DEF Returning
<1>6. CASE x # e
  <2>1. SameRows(e, c, s)
    BY <1>1, <1>2, <1>6 DEF SameRows, HoldsEdge
  <2>2. RowInv(e, c, s)'
    BY <1>0, <1>1, <1>2, <1>6 DEF RowInv, OfGeneration, HoldsEdge, OwesRelease
  <2>3. ASSUME NEW q \in Procs PROVE SameRole(q, e) /\ KeptCall(q, e)
    <3>1. CASE q = h
      BY <1>3, <1>6, <3>1 DEF SameRole, KeptCall, Acquiring, Returning
    <3>2. CASE q # h
      BY <1>4, <3>2, SameTaskSameRole DEF KeptCall
    <3> QED
      BY <3>1, <3>2
  <2>4. LateFrom(e)
    BY <1>1, LateShrinks
  <2> QED
    BY <2>1, <2>2, <2>3, <2>4, EdgeInvKept
<1>7. CASE x = e
  <2>1. Acquiring(h, e)'
    BY <1>3, <1>7 DEF Acquiring
  <2>2. c = t
    BY <1>1, <2>1 DEF Named
  <2>3. HasIntent(c, e)' /\ (HasIntent(c, e) \/ Fresh(e)) /\ ~Outstanding(e)
    BY <1>2, <1>3, <1>7, <2>2
  <2> HIDE DEF h
  <2> QED
    BY <1>1, <1>3, <1>4, <1>5, <2>3, EdgeAsked
<1> QED
  BY <1>6, <1>7

LEMMA EdgeReconcileSend ==
    ASSUME TypeOK, Tasks, NEW e \in EdgeIds, NEW c \in Streams, NEW s \in Streams,
           Named(e, c, s), EdgeInv(e, c, s), NEW p \in Runs, reconcile_send(p),
           e \notin contested'
    PROVE  EdgeInv(e, c, s)'
<1>1. UNCHANGED <<meta, fork_edges, fork_intents, gc_releases, proc, late>>
      /\ p \in Procs /\ p[1] \in Streams
  BY TaskNames DEF reconcile_send
<1>2. PICK x : x = call'[p].edge
  OBVIOUS
<1>3. /\ CallOf(p, call'[p]) /\ call[p] = None
      /\ call'[p] # None /\ call'[p].op = "acquire" /\ call'[p].status = "sent"
      /\ (x \notin contested' => ~Outstanding(x) /\ HasIntent(p[1], x))
  BY <1>2, ReconcileSendEffect DEF HasIntent
<1>4. HasIntent(c, e)' <=> HasIntent(c, e)
  BY <1>1 DEF HasIntent
<1>5. ASSUME NEW q \in Procs PROVE Returning(q, e)' => Returning(q, e)
  BY <1>1 DEF Returning
<1>6. \A q \in Procs : q # p => call'[q] = call[q]
  BY <1>3 DEF CallOf
<1>7. CASE x # e
  <2>1. RowInv(e, c, s)' /\ SameRows(e, c, s)
    BY <1>1, TablesKeepRows DEF EdgeInv
  <2>2. ASSUME NEW q \in Procs PROVE SameRole(q, e) /\ KeptCall(q, e)
    <3>1. call'[q] = call[q] \/ call'[q].edge # e
      BY <1>2, <1>6, <1>7
    <3> QED
      BY <1>1, <3>1, SameTaskSameRole DEF KeptCall
  <2>3. LateFrom(e)
    BY <1>1, LateShrinks
  <2> QED
    BY <2>1, <2>2, <2>3, EdgeInvKept
<1>8. CASE x = e
  <2>1. HasIntent(p[1], e) /\ ~Outstanding(e)
    BY <1>3, <1>8
  <2>2. HasIntent(c, e)
    BY <1>1, <2>1 DEF Named
  <2> QED
    BY <1>1, <1>3, <1>4, <1>5, <1>6, <2>1, <2>2, EdgeAsked
<1> QED
  BY <1>7, <1>8

(* What a handler has been granted or refused, when it is about e.          *)
LEMMA HandlerAnswered ==
    ASSUME TypeOK, Tasks, NEW e \in EdgeIds, NEW c \in Streams, NEW s \in Streams,
           Named(e, c, s), EdgeInv(e, c, s), NEW t \in Streams,
           proc[handler(t)].pc = "acquire", call[handler(t)].status = "done",
           call[handler(t)].edge = e
    PROVE  LET h == handler(t)
           IN  /\ c = t /\ call[h].to = s
               /\ HasIntent(c, e) /\ ~OwesRelease(c, e) /\ ~HoldsEdge(c, e)
               /\ call[h].ok => e \in fork_edges[s] /\ meta[s].generation = call[h].generation
               /\ ~call[h].ok => e \notin fork_edges[s]
               /\ \A q \in Procs : /\ ~Returning(q, e)
                                   /\ q # h => ~(call[q] # None /\ call[q].edge = e)
               /\ \A x \in late : x.edge # e
<1>1. handler(t) \in Procs /\ handler(t)[1] = t
  BY TaskNames
<1>2. Acquiring(handler(t), e)
  BY <1>1 DEF Tasks, Waits, Acquiring
<1> QED
  BY <1>1, <1>2, AnsweredEdge

(* A refused creation drops an intent that covers nothing. *)
LEMMA EdgeRefused ==
    ASSUME TypeOK, Tasks, NEW e \in EdgeIds, NEW c \in Streams, NEW s \in Streams,
           Named(e, c, s), EdgeInv(e, c, s), NEW t \in Streams, create_fork_refused(t)
    PROVE  EdgeInv(e, c, s)'
<1> DEFINE h == handler(t)
           x == call[h].edge
<1>0. RowInv(e, c, s)
  BY DEF EdgeInv
<1>1. /\ UNCHANGED <<meta, fork_edges, gc_releases, late>> /\ proc[h].pc = "acquire"
      /\ call[h].status = "done" /\ ~call[h].ok /\ Settled(t, x)
  BY DeleteTypes DEF create_fork_refused, Settled
<1>2. TaskOf(h, Free) /\ CallOf(h, None)
  BY CreationEndsEffect
<1>3. (OwesRelease(c, e)' <=> OwesRelease(c, e)) /\ (HoldsEdge(c, e)' <=> HoldsEdge(c, e))
  BY <1>1 DEF OwesRelease, HoldsEdge
<1>4. CASE x # e
  <2>1. HasIntent(c, e)' <=> HasIntent(c, e)
    BY <1>1, <1>4 DEF Settled, HasIntent
  <2>2. SameRows(e, c, s)
    BY <1>1, <1>3, <2>1 DEF SameRows
  <2>3. RowInv(e, c, s)'
    BY <1>0, <1>1, <1>3, <2>1 DEF RowInv, OfGeneration
  <2>4. ASSUME NEW q \in Procs PROVE SameRole(q, e) /\ KeptCall(q, e)
    <3>1. CASE q = h
      BY <1>2, <3>1, NoRole DEF TaskOf, CallOf, Free, KeptCall
    <3>2. CASE q # h
      BY <1>2, <3>2, SameTaskSameRole DEF TaskOf, CallOf, KeptCall
    <3> QED
      BY <3>1, <3>2
  <2>5. LateFrom(e)
    BY <1>1, LateShrinks
  <2> QED
    BY <2>2, <2>3, <2>4, <2>5, EdgeInvKept
<1>5. CASE x = e
  <2>1. /\ c = t /\ ~OwesRelease(c, e) /\ ~HoldsEdge(c, e) /\ e \notin fork_edges[s]
        /\ \A q \in Procs : ~Returning(q, e) /\ (q # h => ~(call[q] # None /\ call[q].edge = e))
        /\ \A y \in late : y.edge # e
    BY <1>1, <1>5, HandlerAnswered
  <2>2. ~HasIntent(c, e)'
    BY <1>1, <1>5, <2>1 DEF Settled, HasIntent
  <2>3. RowInv(e, c, s)'
    BY <1>1, <1>3, <2>1, <2>2 DEF RowInv, OwesRelease
  <2>4. Quiet(e)'
    BY <1>1, <1>2, <2>1 DEF Quiet, Returning, TaskOf, CallOf, Free
  <2> QED
    BY <2>3, <2>4, QuietInv
<1> QED
  BY <1>4, <1>5

(* When a creation ends well, its edge is recorded at the source, in the    *)
(* generation the call named, and nothing else names it.                    *)
LEMMA EdgeCommits ==
    ASSUME TypeOK, Tasks, NoEdges, NEW e \in EdgeIds, NEW c \in Streams, NEW s \in Streams,
           Named(e, c, s), EdgeInv(e, c, s), NEW t \in Streams, create_fork_commits(t)
    PROVE  EdgeInv(e, c, s)'
<1> DEFINE h == handler(t)
           x == call[h].edge
           row == Fork(t, call[h].to, x, call[h].generation)
<1>0. RowInv(e, c, s)
  BY DEF EdgeInv
<1>1. /\ UNCHANGED <<fork_edges, gc_releases, late>> /\ proc[h].pc = "acquire"
      /\ call[h].status = "done" /\ call[h].ok /\ Settled(t, x)
      /\ h \in Procs /\ h[1] = t /\ meta[t] = None
  BY DeleteTypes, TaskNames DEF create_fork_commits, Settled, Tasks, Waits
<1>2. meta' = [meta EXCEPT ![t] = row]
  BY DEF create_fork_commits
<1>3. row # None /\ row.edge = x /\ row.source_generation = call[h].generation
  <2>1. row \in Meta
    BY <1>1, HandlerGranted, BoundsAreNaturals
    DEF create_fork_commits, Fork, Meta, TypeOK, Generations
  <2> QED
    BY <2>1, NoneIsNoRow DEF Fork
<1>4. TaskOf(h, Free) /\ CallOf(h, None)
  BY CreationEndsEffect
<1> HIDE DEF row
<1>5. OwesRelease(c, e)' <=> OwesRelease(c, e)
  BY <1>1 DEF OwesRelease
<1>6. e \in fork_edges[s] => meta'[s] = meta[s]
  BY <1>1, <1>2 DEF NoEdges, TypeOK
<1>7. CASE x # e
  <2>1. HasIntent(c, e)' <=> HasIntent(c, e)
    BY <1>1, <1>7 DEF Settled, HasIntent
  <2>2. /\ HoldsEdge(c, e)' <=> HoldsEdge(c, e)
        /\ HoldsEdge(c, e) => meta'[c] = meta[c]
    BY <1>1, <1>2, <1>3, <1>7 DEF HoldsEdge, TypeOK
  <2>3. SameRows(e, c, s)
    BY <1>1, <1>6, <2>1, <2>2 DEF SameRows
  <2>4. RowInv(e, c, s)'
    BY <1>0, <1>1, <1>5, <1>6, <2>1, <2>2 DEF RowInv, OfGeneration
  <2>5. ASSUME NEW q \in Procs PROVE SameRole(q, e) /\ KeptCall(q, e)
    <3>1. CASE q = h
      BY <1>4, <3>1, NoRole DEF TaskOf, CallOf, Free, KeptCall
    <3>2. CASE q # h
      BY <1>4, <3>2, SameTaskSameRole DEF TaskOf, CallOf, KeptCall
    <3> QED
      BY <3>1, <3>2
  <2>6. LateFrom(e)
    BY <1>1, LateShrinks
  <2> QED
    BY <2>3, <2>4, <2>5, <2>6, EdgeInvKept
<1>8. CASE x = e
  <2>1. /\ c = t /\ ~OwesRelease(c, e) /\ e \in fork_edges[s]
        /\ meta[s].generation = call[h].generation
        /\ \A q \in Procs : ~Returning(q, e) /\ (q # h => ~(call[q] # None /\ call[q].edge = e))
        /\ \A y \in late : y.edge # e
    BY <1>1, <1>8, HandlerAnswered
  <2>2. ~HasIntent(c, e)' /\ meta'[c] = row /\ HoldsEdge(c, e)'
    BY <1>1, <1>2, <1>3, <1>8, <2>1 DEF Settled, HasIntent, HoldsEdge, TypeOK
  <2>3. RowInv(e, c, s)'
    BY <1>1, <1>3, <1>5, <1>6, <2>1, <2>2 DEF RowInv, OwesRelease
  <2>4. Quiet(e)'
    BY <1>1, <1>4, <2>1 DEF Quiet, Returning, TaskOf, CallOf, Free
  <2> QED
    BY <2>3, <2>4, QuietInv
<1> QED
  BY <1>7, <1>8

(* Settling an acquired edge: its intent goes, its release is queued.       *)
LEMMA QueueTakesOver ==
    ASSUME TypeOK, NEW e \in EdgeIds, NEW c \in Streams, NEW s \in Streams,
           Named(e, c, s), RowInv(e, c, s), NEW t \in Streams, NEW x, NEW src, NEW g,
           UNCHANGED <<meta, fork_edges>>, Settled(t, x), Queued(t, x, src, g),
           x = e => /\ c = t /\ HasIntent(c, e) /\ e \in fork_edges[s]
                    /\ meta[s].generation = g
    PROVE  /\ RowInv(e, c, s)'
           /\ HasIntent(c, e)' => HasIntent(c, e)
           /\ x # e => SameRows(e, c, s)
           /\ x = e => ~HasIntent(c, e)' /\ ~HoldsEdge(c, e)'
<1>1. HoldsEdge(c, e)' <=> HoldsEdge(c, e)
  BY DEF HoldsEdge
<1>2. CASE x # e
  <2>1. HasIntent(c, e)' <=> HasIntent(c, e)
    BY <1>2 DEF Settled, HasIntent
  <2>2. OwesRelease(c, e)' <=> OwesRelease(c, e)
    BY <1>2 DEF Queued, OwesRelease
  <2>3. \A y \in gc_releases'[c] : y.edge = e => y \in gc_releases[c]
    BY <1>2 DEF Queued
  <2>4. RowInv(e, c, s)'
    BY <1>1, <2>1, <2>2, <2>3 DEF RowInv, OfGeneration
  <2> QED
    BY <1>1, <1>2, <2>1, <2>4 DEF SameRows
<1>3. CASE x = e
  <2>1. c = t /\ ~OwesRelease(c, e) /\ ~HoldsEdge(c, e) /\ HasIntent(c, e)
    BY <1>3 DEF RowInv
  <2>2. ~HasIntent(c, e)'
    BY <1>3, <2>1 DEF Settled, HasIntent
  <2>3. OwesRelease(c, e)'
    BY <1>3, <2>1 DEF Queued, OwesRelease
  <2>4. \A y \in gc_releases'[c] : y.edge = e => y.generation = g
    BY <1>3, <2>1 DEF Queued, OwesRelease
  <2>5. RowInv(e, c, s)'
    BY <1>1, <1>3, <2>1, <2>2, <2>3, <2>4 DEF RowInv, OfGeneration
  <2> QED
    BY <1>1, <1>3, <2>1, <2>2, <2>5
<1> QED
  BY <1>2, <1>3

(* A flush of all the releases a stream owes: none of them is needed, as   *)
(* neither an intent nor the meta row goes with a pending release.          *)
LEMMA FlushInv ==
    ASSUME NEW e \in EdgeIds, NEW c \in Streams, NEW s \in Streams, Named(e, c, s)',
           RowInv(e, c, s)', NEW p \in Procs, p[1] \in Streams,
           proc'[p].todo = gc_releases'[p[1]], proc'[p].pc \in {"free", "flush"}, call'[p] = None
    PROVE  TaskInv(p, e, c, s)' /\ ~Acquiring(p, e)'
<1>1. ~Acquiring(p, e)'
  BY DEF Acquiring
<1>2. ASSUME NEW g \in proc'[p].todo, g.edge = e
      PROVE  p[1] = c /\ g \in gc_releases'[c] /\ OwesRelease(c, e)'
  BY <1>2 DEF Named, OwesRelease
<1>3. Returning(p, e)' => ~HasIntent(c, e)' /\ ~HoldsEdge(c, e)'
  BY <1>2 DEF Returning, RowInv
<1>4. \A g \in proc'[p].todo : g.edge = e => OfGeneration(e, s, g.generation)'
  BY <1>2 DEF RowInv
<1> QED
  BY <1>1, <1>3, <1>4 DEF TaskInv

LEMMA EdgeReturn ==
    ASSUME TypeOK, Tasks, NEW e \in EdgeIds, NEW c \in Streams, NEW s \in Streams,
           Named(e, c, s), Named(e, c, s)', EdgeInv(e, c, s),
           NEW t \in Streams, release_acquired(t)
    PROVE  EdgeInv(e, c, s)'
<1> DEFINE h == handler(t)
           x == call[h].edge
           src == call[h].to
           g == call[h].generation
<1>0. RowInv(e, c, s) /\ LateInv(e, c, s) /\ Alone(e) /\ \A q \in Procs : TaskInv(q, e, c, s)
  BY DEF EdgeInv
<1>1. /\ UNCHANGED <<meta, fork_edges, late>> /\ proc[h].pc = "acquire"
      /\ call[h].status = "done" /\ call[h].ok /\ Settled(t, x) /\ Queued(t, x, src, g)
      /\ h \in Procs /\ h[1] = t
  BY ReturnQueues, TaskNames
<1>2. /\ TaskOf(h, proc'[h]) /\ CallOf(h, None) /\ proc'[h].pc \in {"free", "flush"}
      /\ proc'[h].todo = gc_releases'[t]
  BY ReturnEffect
<1>3. x = e => /\ c = t /\ HasIntent(c, e) /\ e \in fork_edges[s] /\ meta[s].generation = g
               /\ \A q \in Procs : /\ ~Returning(q, e)
                                   /\ q # h => ~(call[q] # None /\ call[q].edge = e)
               /\ \A y \in late : y.edge # e
  BY <1>1, HandlerAnswered
<1>4. RowInv(e, c, s)' /\ (x # e => SameRows(e, c, s))
  <2> HIDE DEF x, src, g, h
  <2> QED
    BY <1>0, <1>1, <1>3, QueueTakesOver
<1>5. TaskInv(h, e, c, s)' /\ ~Acquiring(h, e)'
  BY <1>1, <1>2, <1>4, FlushInv DEF CallOf
<1> HIDE DEF x, src, g, h
<1>6. ASSUME NEW q \in Procs, q # h
      PROVE  /\ proc'[q] = proc[q] /\ call'[q] = call[q]
             /\ SameRole(q, e) /\ KeptCall(q, e)
  BY <1>2, <1>6, SameTaskSameRole DEF TaskOf, CallOf, KeptCall
<1>7. CASE x # e
  <2>1. ASSUME NEW q \in Procs, q # h PROVE TaskInv(q, e, c, s)'
    BY <1>0, <1>4, <1>6, <1>7, <2>1, TaskInvKept
  <2>2. LateInv(e, c, s)'
    BY <1>1, <1>4, <1>7, LateShrinks, LateInvKept
  <2>3. Alone(e)'
    <3>1. ASSUME NEW q \in Procs, Acquiring(q, e)' PROVE Acquiring(q, e) /\ call'[q] = call[q]
      BY <1>5, <1>6, <3>1 DEF Acquiring
    <3> QED
      BY <1>0, <1>1, <3>1 DEF Alone
  <2> QED
    BY <1>4, <1>5, <2>1, <2>2, <2>3 DEF EdgeInv
<1>8. CASE x = e
  <2>1. ASSUME NEW q \in Procs, q # h PROVE TaskInv(q, e, c, s)' /\ ~Acquiring(q, e)'
    BY <1>3, <1>6, <1>8, <2>1 DEF TaskInv, Returning, Acquiring
  <2>2. LateInv(e, c, s)' /\ Alone(e)'
    BY <1>1, <1>3, <1>5, <1>8, <2>1 DEF LateInv, Alone
  <2> QED
    BY <1>4, <1>5, <2>1, <2>2 DEF EdgeInv
<1> QED
  BY <1>7, <1>8

LEMMA EdgeReconcileReply ==
    ASSUME TypeOK, Tasks, NEW e \in EdgeIds, NEW c \in Streams, NEW s \in Streams,
           Named(e, c, s), EdgeInv(e, c, s), NEW p \in Runs, reconcile_reply(p)
    PROVE  EdgeInv(e, c, s)'
<1> DEFINE t == p[1]
           x == call[p].edge
           src == call[p].to
           g == call[p].generation
<1>0. RowInv(e, c, s)
  BY DEF EdgeInv
<1>1. /\ UNCHANGED <<meta, fork_edges, late>> /\ proc[p].pc = "reconcile"
      /\ call[p] # None /\ call[p].op = "acquire" /\ p \in Procs /\ t \in Streams
  BY ReconcileQueues, TaskNames
<1>2. /\ TaskOf(p, proc'[p]) /\ CallOf(p, None) /\ proc'[p].pc = "reconcile"
  BY ReconcileReplyEffect
<1>3. ASSUME NEW q \in Procs PROVE SameRole(q, e) /\ KeptCall(q, e)
  <2>1. CASE q = p
    BY <1>2, <2>1, NoRole DEF CallOf, KeptCall
  <2>2. CASE q # p
    BY <1>2, <2>2, SameTaskSameRole DEF TaskOf, CallOf, KeptCall
  <2> QED
    BY <2>1, <2>2
<1>4. LateFrom(e)
  BY <1>1, LateShrinks
<1>5. CASE call[p].status = "failed" /\ UNCHANGED <<fork_intents, gc_releases>>
  BY <1>0, <1>1, <1>3, <1>4, <1>5, TablesKeepRows, EdgeInvKept
<1>6. ASSUME x = e, call[p].status = "done"
      PROVE  /\ c = t /\ HasIntent(c, e) /\ ~OwesRelease(c, e) /\ ~HoldsEdge(c, e)
             /\ call[p].ok => e \in fork_edges[s] /\ meta[s].generation = g
             /\ ~call[p].ok => e \notin fork_edges[s]
             /\ Quiet(e)'
  <2>1. Acquiring(p, e) /\ call[p].status # "failed"
    BY <1>1, <1>6 DEF Acquiring
  <2>2. /\ \A q \in Procs : /\ ~Returning(q, e)
                            /\ q # p => ~(call[q] # None /\ call[q].edge = e)
        /\ \A y \in late : y.edge # e
    BY <1>1, <2>1, AnsweredEdge
  <2>3. Quiet(e)'
    BY <1>1, <1>2, <2>2 DEF Quiet, Returning, TaskOf, CallOf
  <2> QED
    BY <1>1, <1>6, <2>1, <2>3, AnsweredEdge
<1>7. ASSUME call[p].status = "done", RowInv(e, c, s)', x # e => SameRows(e, c, s)
      PROVE  EdgeInv(e, c, s)'
  <2>1. CASE x # e
    BY <1>3, <1>4, <1>7, <2>1, EdgeInvKept
  <2>2. CASE x = e
    BY <1>6, <1>7, <2>2, QuietInv
  <2> QED
    BY <2>1, <2>2
<1>8. CASE /\ call[p].status = "done" /\ ~call[p].ok /\ Settled(t, x)
           /\ UNCHANGED gc_releases
  <2>1. (OwesRelease(c, e)' <=> OwesRelease(c, e)) /\ (HoldsEdge(c, e)' <=> HoldsEdge(c, e))
    BY <1>1, <1>8 DEF OwesRelease, HoldsEdge
  <2>2. x # e => (HasIntent(c, e)' <=> HasIntent(c, e))
    BY <1>8 DEF Settled, HasIntent
  <2>3. x # e => SameRows(e, c, s)
    BY <1>1, <2>1, <2>2 DEF SameRows
  <2>4. x = e => e \notin fork_edges[s] /\ ~HasIntent(c, e)' /\ ~OwesRelease(c, e)
                 /\ ~HoldsEdge(c, e)
    BY <1>6, <1>8 DEF Settled, HasIntent
  <2>5. RowInv(e, c, s)'
    <3>1. CASE x # e
      BY <1>0, <1>1, <1>8, <2>1, <2>2, <3>1 DEF RowInv, OfGeneration
    <3>2. CASE x = e
      BY <1>1, <1>8, <2>1, <2>4, <3>2 DEF RowInv, OwesRelease
    <3> QED
      BY <3>1, <3>2
  <2> QED
    BY <1>7, <1>8, <2>3, <2>5
<1>9. CASE /\ call[p].status = "done" /\ call[p].ok /\ Settled(t, x) /\ Queued(t, x, src, g)
  <2>1. x = e => c = t /\ HasIntent(c, e) /\ e \in fork_edges[s] /\ meta[s].generation = g
    BY <1>6, <1>9
  <2>2. RowInv(e, c, s)' /\ (x # e => SameRows(e, c, s))
    <3> HIDE DEF x, src, g, t
    <3> QED
      BY <1>0, <1>1, <1>9, <2>1, QueueTakesOver
  <2> QED
    BY <1>7, <1>9, <2>2
<1> QED
  BY <1>5, <1>8, <1>9, ReconcileQueues

(* A run takes up all releases of its stream. *)
LEMMA EdgeReconcileEnd ==
    ASSUME TypeOK, NEW e \in EdgeIds, NEW c \in Streams, NEW s \in Streams,
           Named(e, c, s), Named(e, c, s)', EdgeInv(e, c, s), NEW p \in Runs, reconcile_end(p)
    PROVE  EdgeInv(e, c, s)'
<1>0. RowInv(e, c, s) /\ Alone(e) /\ \A q \in Procs : TaskInv(q, e, c, s)
  BY DEF EdgeInv
<1>1. /\ UNCHANGED <<meta, fork_edges, fork_intents, gc_releases, call, late>>
      /\ call[p] = None /\ p \in Procs /\ p[1] \in Streams
  BY TaskNames DEF reconcile_end, tables
<1>2. RowInv(e, c, s)' /\ SameRows(e, c, s)
  BY <1>0, <1>1, TablesKeepRows
<1>3. /\ TaskOf(p, proc'[p]) /\ proc'[p].pc \in {"free", "flush"}
      /\ proc'[p].todo = gc_releases'[p[1]] /\ call'[p] = None
  BY <1>1, ReconcileEndEffect
<1>4. TaskInv(p, e, c, s)' /\ ~Acquiring(p, e)'
  BY <1>1, <1>2, <1>3, FlushInv
<1>5. ASSUME NEW q \in Procs, q # p PROVE TaskInv(q, e, c, s)'
  <2>1. proc'[q] = proc[q] /\ call'[q] = call[q]
    BY <1>1, <1>3, <1>5 DEF TaskOf
  <2> QED
    BY <1>0, <1>2, <2>1, SameTaskSameRole, TaskInvKept DEF KeptCall
<1>6. LateInv(e, c, s)' /\ Alone(e)'
  <2>1. ASSUME NEW q \in Procs, Acquiring(q, e)' PROVE Acquiring(q, e) /\ call'[q] = call[q]
    BY <1>1, <2>1 DEF Acquiring
  <2>2. LateInv(e, c, s)'
    BY <1>1, <1>2, LateShrinks, LateInvKept
  <2>3. Alone(e)'
    BY <1>0, <1>1, <2>1 DEF Alone
  <2> QED
    BY <2>2, <2>3
<1> QED
  BY <1>2, <1>4, <1>5, <1>6 DEF EdgeInv

LEMMA EdgeStep ==
    ASSUME TypeOK, TypeOK', Tasks, Tasks', NoEdges, Next, NEW child, NEW source,
           Assigned(child, source), Assigned(child, source)',
           Called(child, source), Called(child, source)', NEW e \in EdgeIds,
           child[e] \in Streams, source[e] \in Streams, e \notin contested',
           edges' # edges /\ e = edges' => Fresh(e), EdgeInv(e, child[e], source[e])
    PROVE  EdgeInv(e, child[e], source[e])'
<1> DEFINE c == child[e]
           s == source[e]
<1>0. c \in Streams /\ s \in Streams /\ EdgeInv(e, c, s)
  OBVIOUS
<1>1. Named(e, c, s)
  BY EdgeIsNamed
<1>2. Named(e, c, s)'
  BY EdgeIsNamed, PTL
<1> HIDE DEF c, s
<1> USE <1>0, <1>1, <1>2
<1>3. ASSUME NEW p \in Procs, Progress(p) PROVE EdgeInv(e, c, s)'
  BY <1>3, EdgeFlushSend, EdgeFlushReply, EdgeFlushEnd, EdgeAnswerAcquire, EdgeAnswerRelease
  DEF Progress
<1>4. ASSUME Network PROVE EdgeInv(e, c, s)'
  <2>1. ASSUME NEW x \in late, lose(x) PROVE EdgeInv(e, c, s)'
    <3>1. UNCHANGED <<meta, fork_edges, fork_intents, gc_releases>> /\ UNCHANGED <<proc, call>>
          /\ late' \subseteq late
      BY <2>1 DEF lose, tables
    <3> QED
      BY <3>1, EdgeLose
  <2>2. ASSUME NEW x \in late, late_call(x) PROVE EdgeInv(e, c, s)'
    BY <2>2, EdgeLateAcquire, EdgeLateRelease
  <2>3. ASSUME NEW p \in Procs, call_fails(p) PROVE EdgeInv(e, c, s)'
    BY <2>3, EdgeCallFails
  <2> QED
    BY <1>4, <2>1, <2>2, <2>3 DEF Network
<1>5. ASSUME NEW t \in Streams, Creation(t) PROVE EdgeInv(e, c, s)'
  BY <1>5, EdgeCreationFails, EdgeRefused, EdgeCommits, EdgeReturn DEF Creation
<1>6. ASSUME NEW p \in Runs, Upkeep(p) \/ stray_maintenance(p) PROVE EdgeInv(e, c, s)'
  BY <1>6, EdgeMaintenance, EdgeReconcileSend, EdgeReconcileReply, EdgeReconcileEnd
  DEF Upkeep, Maintenance, stray_maintenance
<1>7. ASSUME NEW t \in Streams, Clients(t) PROVE EdgeInv(e, c, s)'
  BY <1>7, EdgePut, EdgeRetire, EdgeCreate DEF Clients
<1>8. ASSUME NEW t \in Streams, crash(t) PROVE EdgeInv(e, c, s)'
  BY <1>8, EdgeCrash
<1> QED
  BY <1>3, <1>4, <1>5, <1>6, <1>7, <1>8 DEF Next, c, s

(* Every edge handed out so far has a child and a source, and, unless it is *)
(* contested, somebody who answers for it.                                  *)
EdgesOf(child, source) ==
    /\ Assigned(child, source) /\ Called(child, source)
    /\ \A e \in 1 .. edges : e \notin contested => EdgeInv(e, child[e], source[e])

EdgesInv == \E child, source \in [1 .. edges -> Streams] : EdgesOf(child, source)

IInv == TypeOK /\ Tasks /\ NoEdges /\ NoZombie /\ EdgesInv

LEMMA InitInv == Init => IInv
<1> SUFFICES ASSUME Init PROVE IInv
  OBVIOUS
<1>1. TypeOK
  BY TypeInit
<1>2. /\ \A s \in Streams : meta[s] = None /\ fork_edges[s] = {} /\ fork_intents[s] = {}
                            /\ gc_releases[s] = {}
      /\ \A p \in Procs : proc[p].pc = "free" /\ proc[p].todo = {} /\ call[p] = None
      /\ late = {} /\ edges = 0
  BY DEF Init, Free
<1>3. Tasks /\ NoEdges /\ NoZombie
  BY <1>2 DEF Tasks, Waits, Answers, NoEdges, NoZombie
<1>4. EdgesInv
  <2> DEFINE none == [e \in 1 .. edges |-> CHOOSE s \in Streams : TRUE]
  <2>1. none \in [1 .. edges -> Streams]
    BY <1>2
  <2>2. Assigned(none, none) /\ Called(none, none)
    BY <1>2 DEF Assigned, EdgesAssigned, RowsAssigned, ForkAssigned, TaskAssigned, IsFork,
       Called
  <2>3. EdgesOf(none, none)
    BY <1>2, <2>2 DEF EdgesOf
  <2> QED
    BY <2>1, <2>3 DEF EdgesInv
<1> QED
  BY <1>1, <1>3, <1>4 DEF IInv

LEMMA EdgesGrow ==
    ASSUME TypeOK, Tasks, Next
    PROVE  /\ contested \subseteq contested'
           /\ \/ edges' = edges
              \/ /\ edges' = edges + 1
                 /\ \E s, src \in Streams, o \in Offsets : create_fork(s, src, o)
<1> DEFINE Same == contested' = contested /\ edges' = edges
<1>1. ASSUME NEW s \in Streams, NEW x, NEW g, Purged(s) \/ Takes(s, x, g) \/ Granted(s, x)
                                               \/ Refused(s, x)
      PROVE  contested' = contested
  BY <1>1 DEF Purged, purge_stream_tx, Takes, Granted, Refused
<1>2. ASSUME NEW p \in Procs, Progress(p) PROVE Same
  <2>1. ASSUME answer_release(p) PROVE Same
    BY <1>1, <2>1, AnswerReleaseEffect DEF answer_release, bounds
  <2>2. ASSUME answer_acquire(p) PROVE Same
    BY <1>1, <2>2, AnswerAcquireEffect DEF answer_acquire, bounds
  <2> QED
    BY <1>2, <2>1, <2>2 DEF Progress, flush_send, flush_reply, flush_end, tables, bounds
<1>3. ASSUME Network PROVE Same
  <2>1. ASSUME NEW x \in late, late_call(x) PROVE Same
    BY <1>1, <2>1, LateCallEffect DEF late_call
  <2> QED
    BY <1>3, <2>1 DEF Network, call_fails, lose, tables, bounds
<1>4. ASSUME NEW s \in Streams, Creation(s) PROVE Same
  BY <1>4 DEF Creation, create_fork_fails, create_fork_refused, create_fork_commits,
     release_acquired, tables, bounds
<1>5. ASSUME NEW s \in Streams, handle_put(s) \/ retire(s) \/ crash(s) PROVE Same
  BY <1>5 DEF handle_put, retire, purge_stream_tx, crash, tables, bounds
<1>6. ASSUME NEW p \in Runs, Upkeep(p) \/ stray_maintenance(p)
      PROVE  contested \subseteq contested' /\ edges' = edges
  BY <1>6 DEF Upkeep, Maintenance, stray_maintenance, run_maintenance, reconcile_fork_intents,
     reconcile_send, reconcile_reply, reconcile_end, tables, bounds
<1>7. ASSUME NEW s \in Streams, NEW src \in Streams, NEW o \in Offsets, create_fork(s, src, o)
      PROVE  contested \subseteq contested' /\ (edges' = edges \/ edges' = edges + 1)
  BY <1>7, CreateEffect DEF Asked
<1> QED
  BY <1>2, <1>3, <1>4, <1>5, <1>6, <1>7 DEF Next, Clients

(* No row, task or call names an edge that was not handed out. *)
LEMMA NextEdgeIsFresh ==
    ASSUME TypeOK, NEW child, NEW source, Assigned(child, source),
           Called(child, source), NEW e \in EdgeIds, e > edges
    PROVE  Fresh(e)
<1>0. edges \in Int /\ e \in Int /\ ~(e <= edges)
  BY BoundsAreNaturals DEF TypeOK, EdgeIds
<1>1. ASSUME NEW t \in Streams
      PROVE  /\ e \notin fork_edges[t] /\ ~HasIntent(t, e) /\ ~OwesRelease(t, e)
             /\ ~HoldsEdge(t, e)
  <2>1. HoldsEdge(t, e) => IsFork(t)
    BY NoneIsNoRow DEF HoldsEdge, IsFork, TypeOK, Meta, EdgeIds
  <2>2. e \notin fork_edges[t]
    BY <1>0 DEF Assigned, EdgesAssigned
  <2>3. ~HasIntent(t, e) /\ ~OwesRelease(t, e)
    BY <1>0 DEF Assigned, RowsAssigned, Rightful, HasIntent, OwesRelease
  <2>4. ~HoldsEdge(t, e)
    BY <1>0, <2>1 DEF Assigned, ForkAssigned, Rightful, HoldsEdge
  <2> QED
    BY <2>2, <2>3, <2>4
<1>2. ASSUME NEW p \in Procs
      PROVE  ~Returning(p, e) /\ ~(call[p] # None /\ call[p].edge = e)
  <2>1. ~Returning(p, e)
    BY <1>0 DEF Assigned, TaskAssigned, Rightful, Returning
  <2>2. ~(call[p] # None /\ call[p].edge = e)
    BY <1>0 DEF Called, Rightful
  <2> QED
    BY <2>1, <2>2
<1>3. \A x \in late : x.edge # e
  BY <1>0 DEF Called
<1> QED
  BY <1>1, <1>2, <1>3 DEF Fresh, Quiet

LEMMA FreshInv ==
    ASSUME NEW e, NEW c \in Streams, NEW s \in Streams, Fresh(e)
    PROVE  EdgeInv(e, c, s)
BY DEF Fresh, Quiet, EdgeInv, RowInv, TaskInv, LateInv, Alone, Acquiring, Returning,
       OwesRelease, OfGeneration

LEMMA EdgesStep ==
    ASSUME IInv, TypeOK', Tasks', Next
    PROVE  EdgesInv'
<1>0. /\ TypeOK /\ Tasks /\ NoEdges /\ edges \in Nat /\ edges' \in Nat
      /\ 1 .. edges' \subseteq EdgeIds
  BY BoundsAreNaturals DEF IInv, TypeOK, EdgeIds
<1>1. PICK child \in [1 .. edges -> Streams], source \in [1 .. edges -> Streams] :
        EdgesOf(child, source)
  BY DEF IInv, EdgesInv
<1>2. /\ contested \subseteq contested'
      /\ edges' = edges \/ (edges' = edges + 1
            /\ \E s, src \in Streams, o \in Offsets : create_fork(s, src, o))
  BY <1>0, EdgesGrow
<1>3. CASE edges' = edges
  <2>1. Assigned(child, source)' /\ Called(child, source)'
    BY <1>0, <1>1, <1>3, AssignedStep, CalledStep DEF EdgesOf
  <2>2. ASSUME NEW e \in 1 .. edges', e \notin contested'
        PROVE  EdgeInv(e, child[e], source[e])'
    <3>1. e \in EdgeIds /\ child[e] \in Streams /\ source[e] \in Streams
          /\ EdgeInv(e, child[e], source[e])
      BY <1>0, <1>1, <1>2, <1>3, <2>2 DEF EdgesOf
    <3> QED
      BY <1>0, <1>1, <1>3, <2>1, <2>2, <3>1, EdgeStep DEF EdgesOf
  <2>3. EdgesOf(child, source)'
    BY <2>1, <2>2 DEF EdgesOf
  <2> QED
    BY <1>3, <2>3 DEF EdgesInv
<1>4. ASSUME edges' = edges + 1, NEW s \in Streams, NEW src \in Streams,
             NEW o \in Offsets, create_fork(s, src, o)
      PROVE  EdgesInv'
  <2>0. PICK n \in Nat : n = edges'
    BY <1>0
  <2>1. PICK child2 \in [1 .. n -> Streams], source2 \in [1 .. n -> Streams] :
          /\ child2[n] = s /\ source2[n] = src
          /\ \A e \in EdgeIds : e <= edges => child2[e] = child[e] /\ source2[e] = source[e]
    <3> DEFINE c2 == [e \in 1 .. n |-> IF e = n THEN s ELSE child[e]]
               s2 == [e \in 1 .. n |-> IF e = n THEN src ELSE source[e]]
    <3>1. c2 \in [1 .. n -> Streams] /\ s2 \in [1 .. n -> Streams]
          /\ c2[n] = s /\ s2[n] = src
      BY <1>0, <1>1, <1>4, <2>0
    <3>2. \A e \in EdgeIds : e <= edges => c2[e] = child[e] /\ s2[e] = source[e]
      BY <1>0, <1>4, <2>0 DEF EdgeIds
    <3> HIDE DEF c2, s2
    <3> QED
      BY <3>1, <3>2
  <2>2. \A e \in EdgeIds : e <= edges => child2[e] = child[e] /\ source2[e] = source[e]
    BY <2>1
  <2>3. Assigned(child2, source2) /\ Called(child2, source2)
    <3>0. Assigned(child, source) /\ Called(child, source)
      BY <1>1 DEF EdgesOf
    <3>1. EdgesAssigned(source2)
      BY <1>0, <2>2, <3>0 DEF Assigned, EdgesAssigned, TypeOK
    <3>2. ASSUME NEW c \in Streams
          PROVE  RowsAssigned(child2, source2, c) /\ ForkAssigned(child2, source2, c)
      <4>1. RowsAssigned(child2, source2, c)
        <5>1. \A x \in fork_intents[c] \union gc_releases[c] : x.edge \in EdgeIds
          BY <1>0 DEF TypeOK, Intent, GcRelease
        <5> QED
          BY <2>2, <3>0, <5>1 DEF Assigned, RowsAssigned, Rightful
      <4>2. ForkAssigned(child2, source2, c)
        <5>1. IsFork(c) => meta[c].edge \in EdgeIds
          BY <1>0 DEF IsFork, TypeOK, Meta
        <5> QED
          BY <2>2, <3>0, <5>1 DEF Assigned, ForkAssigned, Rightful
      <4> QED
        BY <4>1, <4>2
    <3>3. ASSUME NEW p \in Procs PROVE TaskAssigned(child2, source2, p)
      <4>1. \A x \in proc[p].todo : x.edge \in EdgeIds
        BY <1>0 DEF TypeOK, Task, Intent, GcRelease
      <4> QED
        BY <2>2, <3>0, <4>1 DEF Assigned, TaskAssigned, Rightful
    <3>4. Called(child2, source2)
      <4>1. \A p \in Procs : call[p] # None => call[p].edge \in EdgeIds
        BY <1>0 DEF TypeOK, Call
      <4>2. \A x \in late : x.edge \in EdgeIds
        BY <1>0 DEF TypeOK, Call
      <4> QED
        BY <2>2, <3>0, <4>1, <4>2 DEF Called, Rightful
    <3> QED
      BY <3>1, <3>2, <3>3, <3>4 DEF Assigned
  <2>4. \A t, u \in Streams, v \in Offsets : create_fork(t, u, v) /\ edges' # edges =>
            child2[edges'] = t /\ source2[edges'] = u
    <3>1. ASSUME NEW t \in Streams, NEW u \in Streams, NEW v \in Offsets, create_fork(t, u, v)
          PROVE  t = s /\ u = src
      <4>1. proc'[handler(t)].pc = "acquire" /\ call'[handler(t)].to = u
            /\ proc[handler(t)].pc = "free"
        BY <1>0, <3>1, CreateEffect DEF Asked
      <4>2. proc'[handler(s)].pc = "acquire" /\ call'[handler(s)].to = src
            /\ TaskOf(handler(s), proc'[handler(s)])
        BY <1>0, <1>4, CreateEffect DEF Asked
      <4>3. handler(t) = handler(s)
        BY <4>1, <4>2, TaskNames DEF TaskOf
      <4> QED
        BY <4>1, <4>2, <4>3, TaskNames
    <3> QED
      BY <2>0, <2>1, <3>1
  <2>5. Assigned(child2, source2)' /\ Called(child2, source2)'
    BY <1>0, <2>3, <2>4, AssignedStep, CalledStep
  <2>6. ASSUME NEW e \in 1 .. n, e \notin contested'
        PROVE  EdgeInv(e, child2[e], source2[e])'
    <3>1. e \in EdgeIds /\ child2[e] \in Streams /\ source2[e] \in Streams
      BY <1>0, <2>0, <2>1
    <3>2. e = n => Fresh(e)
      BY <1>0, <1>4, <2>0, <2>3, <3>1, NextEdgeIsFresh
    <3>3. EdgeInv(e, child2[e], source2[e])
      <4>1. CASE e = n
        BY <3>1, <3>2, <4>1, FreshInv
      <4>2. CASE e # n
        <5>1. e \in 1 .. edges /\ e \notin contested
          BY <1>0, <1>2, <1>4, <2>0, <2>6, <4>2
        <5> QED
          BY <1>1, <2>2, <3>1, <5>1 DEF EdgesOf
      <4> QED
        BY <4>1, <4>2
    <3> QED
      BY <1>0, <2>0, <2>3, <2>5, <2>6, <3>1, <3>2, <3>3, EdgeStep
  <2>7. EdgesOf(child2, source2)'
    BY <2>0, <2>5, <2>6 DEF EdgesOf
  <2>8. child2 \in [1 .. edges' -> Streams] /\ source2 \in [1 .. edges' -> Streams]
    BY <2>0
  <2> QED
    BY <2>7, <2>8 DEF EdgesInv
<1> QED
  BY <1>2, <1>3, <1>4

LEMMA NextInv == IInv /\ [Next]_vars => IInv'
<1> SUFFICES ASSUME IInv, [Next]_vars PROVE IInv'
  OBVIOUS
<1>0. TypeOK /\ Tasks /\ NoEdges /\ NoZombie
  BY DEF IInv
<1>1. TypeOK'
  BY <1>0, TypeStep
<1>2. Tasks'
  BY <1>0, <1>1, TasksStep
<1>3. NoEdges' /\ NoZombie'
  BY <1>0, LifeStep
<1>4. CASE Next
  BY <1>1, <1>2, <1>3, <1>4, EdgesStep DEF IInv
<1>5. CASE UNCHANGED vars
  <2>1. PICK child \in [1 .. edges -> Streams], source \in [1 .. edges -> Streams] :
          EdgesOf(child, source)
    BY DEF IInv, EdgesInv
  <2>2. UNCHANGED <<tables, proc, call, late, edges>>
    BY <1>5 DEF vars, bounds
  <2>3. Assigned(child, source)'
    <3>1. UNCHANGED <<meta, fork_edges, fork_intents, gc_releases, edges>> /\ proc' = proc
      BY <2>2 DEF tables
    <3>2. Assigned(child, source)
      BY <2>1 DEF EdgesOf
    <3>3. \A p \in Procs : TaskAssigned(child, source, p)'
      BY <3>1, <3>2, TaskKeepsAssigned
    <3>4. /\ EdgesAssigned(source)'
          /\ \A c \in Streams :
                RowsAssigned(child, source, c)' /\ ForkAssigned(child, source, c)'
      BY <3>1, <3>2, TablesKeepAssigned
    <3> QED
      BY <3>3, <3>4 DEF Assigned
  <2>7. Called(child, source)'
    BY <2>1, <2>2 DEF EdgesOf, Called, Rightful
  <2>4. ASSUME NEW e \in 1 .. edges, e \notin contested
        PROVE  EdgeInv(e, child[e], source[e])'
    <3>1. EdgeInv(e, child[e], source[e]) /\ child[e] \in Streams /\ source[e] \in Streams
      BY <2>1, <2>4 DEF EdgesOf
    <3>2. Named(e, child[e], source[e])
      BY <1>0, <2>1, <2>4, EdgeIsNamed, BoundsAreNaturals DEF EdgesOf, TypeOK, EdgeIds
    <3>3. e \in EdgeIds /\ late' \subseteq late
      BY <1>0, <2>2, <2>4, BoundsAreNaturals DEF TypeOK, EdgeIds
    <3> QED
      BY <2>2, <3>1, <3>2, <3>3, EdgeLose DEF tables
  <2>5. EdgesOf(child, source)'
    BY <2>2, <2>3, <2>4, <2>7 DEF EdgesOf, tables
  <2>6. EdgesInv'
    BY <2>2, <2>5 DEF EdgesInv
  <2> QED
    BY <1>1, <1>2, <1>3, <2>6 DEF IInv
<1> QED
  BY <1>4, <1>5

LEMMA InvHolds == Spec => []IInv
BY InitInv, NextInv, PTL DEF Spec

-----------------------------------------------------------------------------
(* Theorems *)

(* Every table, task and call of every actor has the type it is declared    *)
(* with: a fork row has its edge and the generation it came from, a flush   *)
(* holds releases of known generations.                                     *)
THEOREM ForksTypeCorrect == Spec => []TypeOK
<1>1. IInv => TypeOK
  BY DEF IInv
<1> QED
  BY <1>1, InvHolds, PTL

(* A soft-deleted stream has an edge left: the release that takes the last  *)
(* one purges it in the same transaction (fork_release).                    *)
THEOREM ZombiesHaveEdges == Spec => []NoZombie
<1>1. IInv => NoZombie
  BY DEF IInv
<1> QED
  BY <1>1, InvHolds, PTL

(* No reference is recorded at a source without a stream that has persisted *)
(* its duty to give it back (create_fork: "an acquired reference without    *)
(* one is not"), whatever calls fail, arrive late or twice, whichever       *)
(* actors crash and however many maintenance runs overlap: of every edge    *)
(* whose acquires were sent one after the other, and none of them for an    *)
(* intent that another run or the handler had settled in the meantime.      *)
THEOREM EdgesAreOwned == Spec => []UncontestedOwned
<1>1. IInv => UncontestedOwned
  <2> SUFFICES ASSUME IInv, NEW s \in Streams, NEW e \in fork_edges[s], e \notin contested
               PROVE  \E c \in Streams : Owns(c, e, s)
    BY DEF UncontestedOwned
  <2>1. PICK child \in [1 .. edges -> Streams], source \in [1 .. edges -> Streams] :
          EdgesOf(child, source)
    BY DEF IInv, EdgesInv
  <2>2. e \in EdgeIds /\ e \in 1 .. edges
    BY <2>1, BoundsAreNaturals DEF IInv, TypeOK, EdgeIds, EdgesOf, Assigned, EdgesAssigned
  <2> DEFINE c == child[e]
  <2>3. Named(e, c, source[e]) /\ EdgeInv(e, c, source[e]) /\ c \in Streams
    BY <2>1, <2>2, EdgeIsNamed DEF IInv, EdgesOf
  <2> HIDE DEF c
  <2>4. source[e] = s
    BY <2>3 DEF Named
  <2>5. HasIntent(c, e) \/ OwesRelease(c, e) \/ HoldsEdge(c, e)
    BY <2>3, <2>4 DEF EdgeInv, RowInv
  <2> QED
    BY <2>3, <2>4, <2>5 DEF Named, Owns, HasIntent, OwesRelease, HoldsEdge
<1> QED
  BY <1>1, InvHolds, PTL

(* A fork has its reference recorded at its source, which is there in the   *)
(* generation it was forked from: of every edge whose acquires were sent    *)
(* one after the other.                                                     *)
THEOREM ForksArePinned == Spec => []UncontestedPinned
<1>1. IInv => UncontestedPinned
  <2> SUFFICES ASSUME IInv, NEW c \in Streams, IsFork(c), meta[c].edge \notin contested
               PROVE  Pinned(c)
    BY DEF UncontestedPinned
  <2>1. PICK child \in [1 .. edges -> Streams], source \in [1 .. edges -> Streams] :
          EdgesOf(child, source)
    BY DEF IInv, EdgesInv
  <2> DEFINE e == meta[c].edge
  <2>2. /\ e \in EdgeIds /\ e \in 1 .. edges /\ child[e] = c /\ source[e] = meta[c].parent
        /\ source[e] \in Streams
    <3>1. meta[c] \in Meta /\ meta[c].parent # None /\ edges \in Nat
      BY BoundsAreNaturals DEF IInv, TypeOK, IsFork
    <3>2. e \in EdgeIds
      BY <3>1 DEF Meta
    <3>3. e <= edges /\ child[e] = c /\ source[e] = meta[c].parent
      BY <2>1 DEF EdgesOf, Assigned, ForkAssigned, Rightful
    <3>4. e \in 1 .. edges
      BY <3>1, <3>2, <3>3, BoundsAreNaturals DEF EdgeIds
    <3> QED
      BY <2>1, <3>2, <3>3, <3>4
  <2>3. RowInv(e, c, source[e])
    BY <2>1, <2>2 DEF EdgesOf, EdgeInv
  <2>4. HoldsEdge(c, e)
    BY DEF HoldsEdge, IsFork
  <2>5. e \in fork_edges[source[e]] /\ meta[source[e]].generation = meta[c].source_generation
    BY <2>3, <2>4 DEF RowInv
  <2>6. meta[source[e]] # None
    BY <2>2, <2>5 DEF IInv, NoEdges
  <2> QED
    BY <2>2, <2>5, <2>6 DEF Pinned
<1> QED
  BY <1>1, InvHolds, PTL
=============================================================================
