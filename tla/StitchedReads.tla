--------------------------- MODULE StitchedReads ---------------------------
(***************************************************************************)
(* One read of a stream that is a fork of a fork: read_stitched asks the   *)
(* source for the part at or below the fork offset with the ReadRange      *)
(* action, the source does the same with its own source, and each level    *)
(* adds rows of its own table.  No level holds a lock: while the calls and *)
(* the queries of a read run, streams are appended to, deleted, purged and *)
(* created again.                                                          *)
(* The fork edges are granted and returned in one step here (ForkProtocol  *)
(* has their messages): a source is pinned while a row names it, or while  *)
(* create_fork holds an edge for a row to come.  Clocks, producers and     *)
(* closing play no part in the text of a batch and are left out.  The      *)
(* streams hold JSON, and a length is a number of tokens.                  *)
(***************************************************************************)
EXTENDS Payloads, FiniteSetsExt

CONSTANTS
    Streams,
    Source,             \* the stream a stream may be a fork of, or None
    Sizes,              \* numbers of values in the body of a POST
    SubOffsets,         \* values of Stream-Fork-Sub-Offset
    MAX_READ_ROWS, MAX_READ_BYTES,
    None,
    MaxGeneration, MaxMessages,     \* bounds: streams created, messages stored,
    MaxChanges                      \* steps of streams during one read

ASSUME LimitsArePositive ==
    /\ MAX_READ_ROWS \in Nat \ {0} /\ MAX_READ_BYTES \in Nat \ {0}
    /\ Sizes \subseteq Nat \ {0} /\ SubOffsets \subseteq Nat \ {0}
    /\ Source \in [Streams -> Streams \union {None}]
    /\ MaxGeneration \in Nat /\ MaxMessages \in Nat /\ MaxChanges \in Nat

VARIABLES
    meta,       \* the meta row of each stream
    messages,   \* the rows of the messages table of each stream
    gens,       \* generations handed out so far
    log,        \* what a living generation holds for its readers (history)
    request,    \* the request being served, or None
    stack,      \* the calls of read_stitched it is in, the innermost last
    changes,    \* steps of streams since the request began
    reply,      \* the batch a call has returned, or None
    answer      \* the batch the last step answered with, or None (history)

MetaRow ==
    [generation : 1 .. MaxGeneration, forked_from : Streams \union {None},
     fork_offset : Nat, fork_sub_offset : Nat,
     source_generation : (1 .. MaxGeneration) \union {None},
     current_offset : Nat, soft_deleted : BOOLEAN]
Message == [generation : 1 .. MaxGeneration, offset : Nat \ {0}, data : Seq(Token)]
Batch == [messages : Seq(Message), capped : BOOLEAN]
Request ==
    [kind : {"read", "fork"}, stream : Streams, child : Streams \union {None},
     after : Int, generation : 1 .. MaxGeneration, tail : Nat,
     limit : 1 .. MAX_READ_ROWS]
Frame ==
    [pc : {"inherit", "inherited", "lengths", "rows"}, stream : Streams,
     meta : [generation : 1 .. MaxGeneration, forked_from : Streams \union {None},
             fork_offset : Nat],
     after : Int, cap : Nat \union {None}, limit : 1 .. MAX_READ_ROWS,
     budget : 0 .. MAX_READ_BYTES, remaining : 0 .. MAX_READ_BYTES,
     messages : Seq(Message), last : Nat \union {None}, capped : BOOLEAN]

ASSUME NoneIsNoValue == None \notin Streams \union Nat \union MetaRow \union Request

store == <<meta, messages, gens, log>>
vars == <<store, request, stack, reply, changes, answer>>

(* A step of a stream, perhaps while a read is on its way. *)
undisturbed ==
    /\ UNCHANGED <<request, stack, reply>> /\ answer' = None
    /\ changes < MaxChanges
    /\ changes' = IF request = None THEN 0 ELSE changes + 1

ZERO_OFFSET == 0
Start == -1                     \* "-1" or no offset: before every offset

advance_offset(current, payload) == current + 5 + Len(payload)

bytes(batch) ==
    LET total[i \in 0 .. Len(batch)] ==
            IF i = 0 THEN 0 ELSE total[i - 1] + Len(batch[i].data)
    IN total[Len(batch)]

inherits(m) == m.forked_from # None

pinned(s) ==
    \/ \E f \in Streams : meta[f] # None /\ meta[f].forked_from = s
    \/ request # None /\ request.kind = "fork" /\ request.stream = s

creating(s) == request # None /\ request.kind = "fork" /\ request.child = s

Init ==
    /\ meta = [s \in Streams |-> None]
    /\ messages = [s \in Streams |-> {}]
    /\ gens = 0
    /\ log = [g \in 1 .. MaxGeneration |-> {}]
    /\ request = None /\ stack = <<>> /\ reply = None /\ changes = 0 /\ answer = None

-----------------------------------------------------------------------------
(* The streams.  A message is the generation that stored it, its offset and *)
(* its data.                                                                *)

stored == UNION {messages[s] : s \in Streams}

Row(g, from, offset, sub_offset, end) ==
    [generation |-> g, forked_from |-> from, fork_offset |-> offset,
     fork_sub_offset |-> sub_offset,
     source_generation |-> IF from = None THEN None ELSE meta[from].generation,
     current_offset |-> end, soft_deleted |-> FALSE]

(* A stream with what it inherits and, for a sub-offset, its first message. *)
create(s, from, offset, inherited, sub_offset, prefix) ==
    LET g == gens + 1
        end == IF prefix = <<>> THEN offset ELSE advance_offset(offset, prefix)
        own == IF prefix = <<>> THEN {}
               ELSE {[generation |-> g, offset |-> end, data |-> prefix]}
    IN /\ g <= MaxGeneration
       /\ gens' = g
       /\ meta' = [meta EXCEPT ![s] = Row(g, from, offset, sub_offset, end)]
       /\ messages' = [messages EXCEPT ![s] = own]
       /\ log' = [log EXCEPT ![g] = inherited \union own]

handle_put(s) ==
    /\ meta[s] = None /\ ~creating(s)
    /\ create(s, None, ZERO_OFFSET, {}, 0, <<>>)
    /\ undisturbed

(* The source's log up to an offset is what a fork there inherits. *)
upto(g, offset) == {m \in log[g] : m.offset <= offset}

(* fork_acquire takes any offset up to the tail; the ones worth telling     *)
(* apart are the ends of messages and the places inside them.               *)
offsets(s) ==
    {ZERO_OFFSET} \union
        {m.offset - d : m \in log[meta[s].generation], d \in {0, 1}}

create_fork(s) ==
    /\ meta[s] = None /\ Source[s] # None /\ ~creating(s)
    /\ meta[Source[s]] # None /\ ~meta[Source[s]].soft_deleted
    /\ \E offset \in offsets(Source[s]) :
          create(s, Source[s], offset, upto(meta[Source[s]].generation, offset), 0, <<>>)
    /\ undisturbed

append_message(s) ==
    /\ meta[s] # None /\ ~meta[s].soft_deleted /\ Cardinality(stored) < MaxMessages
    /\ \E n \in Sizes :
          LET g == meta[s].generation
              data == process_json_append(
                          [i \in 1 .. n |-> <<g, meta[s].current_offset, i>>])
              end == advance_offset(meta[s].current_offset, data)
              m == [generation |-> g, offset |-> end, data |-> data]
          IN /\ meta' = [meta EXCEPT ![s].current_offset = end]
             /\ messages' = [messages EXCEPT ![s] = @ \union {m}]
             /\ log' = [log EXCEPT ![g] = @ \union {m}]
    /\ UNCHANGED gens /\ undisturbed

purge(s) ==
    /\ meta' = [meta EXCEPT ![s] = None]
    /\ messages' = [messages EXCEPT ![s] = {}]
    /\ log' = [log EXCEPT ![meta[s].generation] = {}]

(* DELETE or expiry. *)
handle_delete(s) ==
    /\ meta[s] # None /\ ~meta[s].soft_deleted
    /\ IF pinned(s)
       THEN meta' = [meta EXCEPT ![s].soft_deleted = TRUE] /\ UNCHANGED <<messages, log>>
       ELSE purge(s)
    /\ UNCHANGED gens /\ undisturbed

(* The last edge of a soft-deleted stream comes back. *)
fork_release(s) ==
    /\ meta[s] # None /\ meta[s].soft_deleted /\ ~pinned(s)
    /\ purge(s)
    /\ UNCHANGED gens /\ undisturbed

-----------------------------------------------------------------------------
(* read_messages_range *)

in_range(m, after, cap) == after < m.offset /\ (cap = None \/ m.offset <= cap)

range(s, after, cap) == {m \in messages[s] : in_range(m, after, cap)}

(* ORDER BY msg_offset ASC                                                  *)
ascending(batch) ==
    \A i, j \in DOMAIN batch : i < j => batch[i].offset < batch[j].offset
ordered(S) == CHOOSE batch \in [1 .. Cardinality(S) -> S] : ascending(batch)

(* Mutant: as many rows as may be taken, and no more. *)
scan_limit_exact(limit) == Min({limit, MAX_READ_ROWS})

(* LIMIT of the first query: one row more shows that there are more.        *)
scan_limit(limit) == Min({limit, MAX_READ_ROWS}) + 1

(* Mutant: no message may exceed the budget. *)
selected_strict(found, limit, budget, allow_oversized_first) ==
    Max({k \in 0 .. Min({limit, Len(found)}) : bytes(SubSeq(found, 1, k)) <= budget})

(* The number of rows taken: the first one may exceed the budget when the   *)
(* batch is still empty.                                                    *)
selected(found, limit, budget, allow_oversized_first) ==
    Max({k \in 0 .. Min({limit, Len(found)}) :
            \A j \in 1 .. k : \/ j = 1 /\ allow_oversized_first
                              \/ bytes(SubSeq(found, 1, j)) <= budget})

-----------------------------------------------------------------------------
(* read_stitched *)

Call(s, m, after, cap, limit, budget) ==
    [pc |-> IF inherits(m) /\ after < m.fork_offset THEN "inherit" ELSE "lengths",
     stream |-> s,
     meta |-> [generation |-> m.generation, forked_from |-> m.forked_from,
               fork_offset |-> m.fork_offset],
     after |-> after, cap |-> cap,
     limit |-> Min({limit, MAX_READ_ROWS}),
     budget |-> Min({budget, MAX_READ_BYTES}),
     remaining |-> Min({budget, MAX_READ_BYTES}),
     messages |-> <<>>, last |-> None, capped |-> FALSE]

top == stack[Len(stack)]
at(pc) == stack # <<>> /\ top.pc = pc

become(call) == stack' = [stack EXCEPT ![Len(stack)] = call]

return(batch) ==
    /\ stack' = SubSeq(stack, 1, Len(stack) - 1)
    /\ reply' = batch

Empty == [messages |-> <<>>, capped |-> FALSE]

(* Mutant: the cap of the caller is forgotten. *)
inherited_cap_own(call) == call.meta.fork_offset

inherited_cap(call) ==
    IF call.cap = None THEN call.meta.fork_offset
    ELSE Min({call.cap, call.meta.fork_offset})

(* The action call arrives at the source, which looks up its row.           *)
ReadRange ==
    /\ at("inherit")
    /\ LET s == top.meta.forked_from
           waiting == [stack EXCEPT ![Len(stack)].pc = "inherited"]
       IN IF meta[s] = None
          THEN stack' = waiting /\ reply' = Empty
          ELSE /\ stack' = Append(waiting, Call(s, meta[s], top.after, inherited_cap(top),
                                                top.limit, top.remaining))
               /\ UNCHANGED reply
    /\ UNCHANGED <<store, request, changes>> /\ answer' = None

(* The end of the part that is inherited: the budget left, and whether the  *)
(* batch ends here.                                                         *)

(* Mutants: the source's messages are free, or cost more than there is. *)
left_whole(call, batch) == call.remaining
left_unsaturated(call, batch) == call.remaining - bytes(batch)

left(call, batch) == Max({0, call.remaining - bytes(batch)})
filled(call, batch) ==
    \/ batch.capped
    \/ Len(batch.messages) >= call.limit
    \/ left(call, batch.messages) = 0 /\ batch.messages # <<>>

(* The reply arrives; the level reads its own meta row again.               *)
inherited ==
    /\ at("inherited") /\ reply # None
    /\ LET current == meta[top.stream]
           again == Call(top.stream, current, top.after, top.cap, top.limit, top.budget)
       IN \/ /\ current = None
             /\ return(Empty)
          \/ /\ current # None /\ current.generation # top.meta.generation
             /\ become(again) /\ reply' = None
          \/ /\ current # None /\ current.generation = top.meta.generation
             /\ filled(top, reply)
             /\ return([messages |-> reply.messages, capped |-> TRUE])
          \/ /\ current # None /\ current.generation = top.meta.generation
             /\ ~filled(top, reply)
             /\ become([top EXCEPT !.pc = "lengths", !.messages = reply.messages,
                                   !.remaining = left(top, reply.messages)])
             /\ reply' = None
    /\ UNCHANGED <<store, request, changes>> /\ answer' = None

(* The first query: offsets and lengths, one row more than the limit.       *)
lengths ==
    /\ at("lengths")
    /\ LET limit == Max({0, top.limit - Len(top.messages)})
           found == ordered(range(top.stream, top.after, top.cap))
           scanned == SubSeq(found, 1, Min({Len(found), scan_limit(limit)}))
           taken == selected(scanned, limit, top.remaining, top.messages = <<>>)
           capped == Len(scanned) > taken
       IN IF taken = 0
          THEN return([messages |-> top.messages, capped |-> capped])
          ELSE /\ become([top EXCEPT !.pc = "rows", !.capped = capped,
                                     !.last = scanned[taken].offset])
               /\ UNCHANGED reply
    /\ UNCHANGED <<store, request, changes>> /\ answer' = None

(* The second query: the rows themselves, up to the last one selected.      *)
rows ==
    /\ at("rows")
    /\ return([messages |-> top.messages \o
                   ordered({m \in range(top.stream, top.after, top.cap) :
                               m.offset <= top.last}),
               capped |-> top.capped])
    /\ UNCHANGED <<store, request, changes>> /\ answer' = None

-----------------------------------------------------------------------------
(* The requests that read *)

serve(r, call) ==
    /\ request' = r /\ stack' = <<call>> /\ answer' = None
    /\ UNCHANGED <<store, reply, changes>>

(* A GET reads from the start, from the offset a fork was created at, or    *)
(* from the end of any message, where an earlier batch may have ended.      *)
read_snapshot(s) ==
    /\ request = None /\ meta[s] # None /\ ~meta[s].soft_deleted
    /\ \E after \in {Start, meta[s].fork_offset} \union
                       {m.offset : m \in log[meta[s].generation]} :
          serve([kind |-> "read", stream |-> s, child |-> None, after |-> after,
                 generation |-> meta[s].generation,
                 tail |-> meta[s].current_offset,
                 limit |-> MAX_READ_ROWS],
                Call(s, meta[s], after, None, MAX_READ_ROWS, MAX_READ_BYTES))

finished == request # None /\ stack = <<>> /\ reply # None

answered(batch) ==
    /\ answer' = IF batch = None THEN None ELSE [request |-> request, batch |-> batch]
    /\ request' = None /\ reply' = None /\ changes' = 0
    /\ UNCHANGED stack

(* A batch is given only if the generation is still the one it began with.  *)
read_snapshot_fresh ==
    /\ finished /\ request.kind = "read"
    /\ LET fresh == meta[request.stream]
       IN IF fresh # None /\ fresh.generation = request.generation
          THEN answered(reply)
          ELSE answered(None)
    /\ UNCHANGED store

(* Stream-Fork-Sub-Offset: with its edge acquired, create_fork reads the    *)
(* first message after the fork offset, from the source's chain.            *)
create_fork_read(s) ==
    /\ request = None /\ meta[s] = None /\ Source[s] # None
    /\ meta[Source[s]] # None /\ ~meta[Source[s]].soft_deleted
    /\ gens < MaxGeneration
    /\ \E offset \in offsets(Source[s]) :
          serve([kind |-> "fork", stream |-> Source[s], child |-> s, after |-> offset,
                 generation |-> meta[Source[s]].generation,
                 tail |-> meta[Source[s]].current_offset,
                 limit |-> 1],
                Call(Source[s], meta[Source[s]], offset, None, 1, MAX_READ_BYTES))

(* The first values of it become the fork's first message; without one, or  *)
(* with too few, the edge is given back.                                    *)
create_fork_prefix ==
    /\ finished /\ request.kind = "fork"
    /\ answered(reply)
    /\ \E sub_offset \in SubOffsets :
          LET prefix == sub_offset_prefix(Head(reply.messages).data, sub_offset)
          IN IF reply.messages = <<>> \/ prefix = Refused
             THEN UNCHANGED store
             ELSE /\ Cardinality(stored) < MaxMessages
                  /\ create(request.child, request.stream, request.after,
                            upto(request.generation, request.after), sub_offset, prefix)

Next ==
    \/ \E s \in Streams :
          \/ handle_put(s) \/ create_fork(s) \/ append_message(s)
          \/ handle_delete(s) \/ fork_release(s)
          \/ read_snapshot(s) \/ create_fork_read(s)
    \/ ReadRange \/ inherited \/ lengths \/ rows
    \/ read_snapshot_fresh \/ create_fork_prefix

Spec == Init /\ [][Next]_vars

-----------------------------------------------------------------------------
(* Properties *)

(* Every call of read_stitched carries a limit, a budget and offsets that   *)
(* ReadRange may be given, and the rows of a stream are its generation's    *)
(* own, between its fork offset and its tail.                               *)
TypeOK ==
    /\ gens \in 0 .. MaxGeneration /\ changes \in 0 .. MaxChanges
    /\ meta \in [Streams -> MetaRow \union {None}]
    /\ messages \in [Streams -> SUBSET Message]
    /\ log \in [1 .. MaxGeneration -> SUBSET Message]
    /\ request \in Request \union {None} /\ stack \in Seq(Frame)
    /\ reply \in Batch \union {None}
    /\ answer \in [request : Request, batch : Batch] \union {None}
    /\ \A s \in Streams :
          IF meta[s] = None THEN messages[s] = {}
          ELSE \A m \in messages[s] :
                  /\ m.generation = meta[s].generation
                  /\ m.offset \in meta[s].fork_offset + 1 .. meta[s].current_offset

(* What a generation holds after an offset, and the first of it.            *)
beyond(g, offset) == {m \in log[g] : m.offset > offset}
following(g, offset) == CHOOSE m \in beyond(g, offset) :
                            \A n \in beyond(g, offset) : m.offset <= n.offset

Wanted(a) == beyond(a.request.generation, a.request.after)

(* A batch stitched from a stream and its sources is a gapless run of the   *)
(* stream's own history, beginning right after the offset asked for: no     *)
(* message of a source beyond the fork offset, none of another generation,  *)
(* no hole where one level ended and the next began, in the order of the    *)
(* offsets (read_stitched, read_snapshot, create_fork).                     *)
StitchedWhole ==
    answer # None =>
        LET batch == answer.batch.messages
            sent == ToSet(batch)
        IN /\ ascending(batch)
           /\ sent \subseteq Wanted(answer)
           /\ \A m \in Wanted(answer), last \in sent : m.offset <= last.offset => m \in sent

(* A batch that does not say it was cut short reaches at least the tail the *)
(* stream had when the request began, so Stream-Up-To-Date is true of it.   *)
UncappedReachesTail ==
    answer # None /\ ~answer.batch.capped =>
        \A m \in Wanted(answer) :
            m.offset <= answer.request.tail => m \in ToSet(answer.batch.messages)

(* A batch that was cut short moves the reader forward: however the budget  *)
(* is split over the chain, a client that asks again always gets on.        *)
CappedAdvances ==
    answer # None /\ answer.batch.capped => answer.batch.messages # <<>>

(* The chain as a whole respects the limit in rows and the budget in bytes  *)
(* of one read, but for a single message larger than the budget.            *)
WithinBudget ==
    answer # None =>
        LET batch == answer.batch.messages
        IN /\ Len(batch) <= answer.request.limit
           /\ Len(batch) > 1 => bytes(batch) <= MAX_READ_BYTES

(* The values in the body of the POST that data was stored from.            *)
values_of(data) == [i \in 1 .. Len(data) \div 2 |-> data[2 * i - 1]]

(* The body of an answer is one JSON array of the values of its messages,   *)
(* in order, however POSTs, forks and batches cut them (build_read_response,*)
(* format_json_messages).                                                   *)
BodyIsOneArray ==
    answer # None =>
        LET batch == answer.batch.messages
        IN array_of(format_json_messages([i \in DOMAIN batch |-> batch[i].data])) =
               FlattenSeq([i \in DOMAIN batch |-> values_of(batch[i].data)])

(* A fork at a sub-offset begins with that many values of the message that  *)
(* follows the fork offset in its source, in the generation it was granted  *)
(* (create_fork reads it with a call of its own).                           *)
SubOffsetOfSource ==
    \A f \in Streams : meta[f] # None /\ meta[f].fork_sub_offset > 0 =>
        LET next == following(meta[f].source_generation, meta[f].fork_offset)
            first == following(meta[f].generation, meta[f].fork_offset)
        IN first.data = SubSeq(next.data, 1, 2 * meta[f].fork_sub_offset)
=============================================================================
