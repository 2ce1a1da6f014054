------------------------- MODULE DurableStreamProofs -------------------------
(* Theorems about DurableStream, for every value of its constants.          *)
EXTENDS DurableStream, FiniteSetTheorems, TLAPS

(* A database the actor may hold at time c, with g generations handed out.  *)
DbOK(d, c, g) ==
    /\ d \in Database
    /\ \A i \in DOMAIN d.messages : d.messages[i].ts <= c
    /\ d.meta # None => d.meta.last_accessed_at <= c /\ d.meta.generation <= g

Referenced(d) == \E e \in Edges : d.fork_edges[e] # None

(* fork_edge_count counts: it is positive exactly when an edge is recorded. *)
LEMMA CountIsPositive ==
    ASSUME NEW d
    PROVE  /\ fork_edge_count(d) > 0 <=> Referenced(d)
           /\ fork_edge_count(d) = 0 <=> ~Referenced(d)
<1> DEFINE S == {e \in Edges : d.fork_edges[e] # None}
<1>1. IsFiniteSet(S)
  BY FiniteRows, FS_Subset
<1>2. Cardinality(S) \in Nat /\ (Cardinality(S) = 0 <=> S = {})
  BY <1>1, FS_CardinalityType, FS_EmptySet
<1> QED
  BY <1>2 DEF fork_edge_count, Referenced

(* purge leaves a well-typed database. *)
LEMMA PurgeOK == ASSUME NEW c, NEW g PROVE DbOK(purge, c, g)
<1>1. /\ purge.meta = None /\ purge.messages = <<>>
      /\ purge \in [meta : Optional(Meta), messages : {<<>>},
                    producers : [Producers -> Optional(ProducerState)],
                    fork_edges : [Edges -> Optional(Nat)]]
  BY DEF purge, Optional
<1>2. <<>> \in Seq(Message) /\ DOMAIN <<>> = {}
  OBVIOUS
<1>3. purge \in Database
  BY <1>1, <1>2 DEF Database
<1> QED
  BY <1>1, <1>2, <1>3 DEF DbOK

(* Marking a row soft-deleted changes nothing else of the database. *)
LEMMA SoftDeleted ==
    ASSUME NEW d \in Database, d.meta # None
    PROVE  LET s == [d EXCEPT !.meta.soft_deleted = TRUE]
           IN  /\ s \in Database
               /\ s.meta = [d.meta EXCEPT !.soft_deleted = TRUE]
               /\ s.meta \in Meta /\ s.meta # None
               /\ s.messages = d.messages /\ s.producers = d.producers
               /\ s.fork_edges = d.fork_edges
<1> DEFINE m == [d.meta EXCEPT !.soft_deleted = TRUE]
<1>1. d.meta \in Meta
  BY DEF Database, Optional
<1>2. m \in Meta
  BY <1>1 DEF Meta
<1>3. m # None
  BY <1>2, NoneIsNoRow
<1> HIDE DEF m
<1>4. [d EXCEPT !.meta = m] \in Database
  BY <1>2 DEF Database, Optional
<1>5. [d EXCEPT !.meta.soft_deleted = TRUE] = [d EXCEPT !.meta = m]
  BY DEF m
<1>6. /\ [d EXCEPT !.meta = m].meta = m
      /\ [d EXCEPT !.meta = m].messages = d.messages
      /\ [d EXCEPT !.meta = m].producers = d.producers
      /\ [d EXCEPT !.meta = m].fork_edges = d.fork_edges
  BY DEF Database
<1> QED
  BY <1>2, <1>3, <1>4, <1>5, <1>6 DEF m

(* An expiry or a DELETE purges a stream that no fork references, and marks *)
(* one that is referenced.                                                  *)
LEMMA Retire ==
    ASSUME NEW d
    PROVE  retire(d) = IF Referenced(d) THEN [d EXCEPT !.meta.soft_deleted = TRUE]
                       ELSE purge
  BY CountIsPositive DEF retire

(* An expiry or a DELETE leaves a database the actor may hold. *)
LEMMA RetireOK ==
    ASSUME NEW c, NEW g, NEW d, DbOK(d, c, g), d.meta # None
    PROVE  DbOK(retire(d), c, g)
<1>1. CASE Referenced(d)
  <2> DEFINE s == [d EXCEPT !.meta.soft_deleted = TRUE]
  <2>1. d \in Database /\ d.meta \in Meta
    BY DEF DbOK, Database, Optional
  <2>2. /\ s \in Database /\ s.messages = d.messages
        /\ s.meta = [d.meta EXCEPT !.soft_deleted = TRUE]
    BY <2>1, SoftDeleted
  <2>3. /\ s.meta.last_accessed_at = d.meta.last_accessed_at
        /\ s.meta.generation = d.meta.generation
    BY <2>1, <2>2 DEF Meta
  <2>4. DbOK(s, c, g)
    BY <2>2, <2>3 DEF DbOK
  <2> QED
    BY <1>1, <2>4, Retire
<1>2. CASE ~Referenced(d)
  BY <1>2, Retire, PurgeOK
<1> QED
  BY <1>1, <1>2

(* So does the expiry check every handler begins with. *)
LEMMA VisibleOK ==
    ASSUME NEW c, NEW g, NEW d, DbOK(d, c, g), NEW now
    PROVE  DbOK(visible_meta_while_locked(d, now), c, g)
  BY RetireOK DEF visible_meta_while_locked

(* touch writes the time it was given. *)
LEMMA TouchOK ==
    ASSUME NEW c \in Nat, NEW g, NEW d, DbOK(d, c, g), NEW now \in 0 .. c
    PROVE  DbOK(touch(d, now), c, g)
<1>1. CASE d.meta = None
  BY <1>1 DEF touch
<1>2. CASE d.meta # None
  <2> DEFINE row == [d.meta EXCEPT !.last_accessed_at = now]
  <2>1. d.meta \in Meta /\ d \in Database
    BY <1>2 DEF DbOK, Database, Optional
  <2>2. row \in Meta /\ row.generation = d.meta.generation /\ row.last_accessed_at = now
    BY <2>1 DEF Meta
  <2>3. touch(d, now) = [d EXCEPT !.meta = row]
    BY <1>2 DEF touch
  <2> HIDE DEF row
  <2> QED
    BY <1>2, <2>1, <2>2, <2>3 DEF DbOK, Database, Optional
<1> QED
  BY <1>1, <1>2

(* Recording a Stream-Seq keeps the types. *)
LEMMA SetLastSeqOK ==
    ASSUME NEW c, NEW g, NEW d, DbOK(d, c, g), d.meta # None,
           NEW seq \in Optional(StreamSeqs)
    PROVE  DbOK(set_last_seq(d, seq), c, g) /\ set_last_seq(d, seq).meta # None
<1> DEFINE row == [d.meta EXCEPT !.last_seq = seq]
<1>1. d.meta \in Meta /\ d \in Database
  BY DEF DbOK, Database, Optional
<1>2. /\ row \in Meta /\ row.generation = d.meta.generation
      /\ row.last_accessed_at = d.meta.last_accessed_at
  BY <1>1 DEF Meta
<1>3. set_last_seq(d, seq) = IF seq = None THEN d ELSE [d EXCEPT !.meta = row]
  BY DEF set_last_seq
<1>4. row # None
  BY <1>2, NoneIsNoRow
<1> HIDE DEF row
<1> QED
  BY <1>1, <1>2, <1>3, <1>4 DEF DbOK, Database, Optional

(* Closing keeps the types. *)
LEMMA SetClosedOK ==
    ASSUME NEW c, NEW g, NEW d, DbOK(d, c, g), d.meta # None,
           NEW producer \in Optional(ProducerHeaders)
    PROVE  DbOK(set_closed(d, producer), c, g)
<1> DEFINE row == [d.meta EXCEPT !.closed = TRUE,
                                 !.closed_by = IF producer = None THEN @ ELSE producer]
<1>1. d.meta \in Meta /\ d \in Database
  BY DEF DbOK, Database, Optional
<1>2. /\ row \in Meta /\ row.generation = d.meta.generation
      /\ row.last_accessed_at = d.meta.last_accessed_at
  BY <1>1 DEF Meta
<1>3. set_closed(d, producer) = [d EXCEPT !.meta = row]
  BY <1>1 DEF set_closed, Database
<1> HIDE DEF row
<1> QED
  BY <1>1, <1>2, <1>3 DEF DbOK, Database, Optional

(* append_message adds one message, stamped with the time it was given, and *)
(* moves the tail.                                                          *)
LEMMA AppendMessage ==
    ASSUME NEW d \in Database, d.meta # None, NEW size \in Nat, NEW now \in Nat,
           NEW producer \in Optional(ProducerHeaders), NEW seq \in Optional(StreamSeqs)
    PROVE  LET a == append_message(d, size, now, producer, seq)
               m == [offset |-> advance_offset(d.meta.current_offset, size), ts |-> now,
                     by |-> producer, stream_seq |-> seq]
           IN  /\ a \in Database /\ m \in Message
               /\ a.meta = [d.meta EXCEPT !.current_offset = m.offset]
               /\ a.meta \in Meta /\ a.meta # None
               /\ a.messages = Append(d.messages, m)
               /\ a.producers = d.producers /\ a.fork_edges = d.fork_edges
               /\ m.offset > d.meta.current_offset
<1> DEFINE m == [offset |-> advance_offset(d.meta.current_offset, size), ts |-> now,
                 by |-> producer, stream_seq |-> seq]
           row == [d.meta EXCEPT !.current_offset = m.offset]
<1>1. d.meta \in Meta /\ d.messages \in Seq(Message)
  BY DEF Database, Optional
<1>2. advance_offset(d.meta.current_offset, size) \in Nat
      /\ advance_offset(d.meta.current_offset, size) > d.meta.current_offset
  BY <1>1 DEF advance_offset, FRAMING, Meta
<1>3. m \in Message /\ m.offset > d.meta.current_offset
  BY <1>2 DEF Message
<1>4. row \in Meta /\ row # None
  BY <1>1, <1>2, NoneIsNoRow DEF Meta
<1>5. append_message(d, size, now, producer, seq)
        = [d EXCEPT !.meta = row, !.messages = Append(d.messages, m)]
  BY DEF append_message
<1> HIDE DEF row, m
<1>6. Append(d.messages, m) \in Seq(Message)
  BY <1>1, <1>3
<1>7. [d EXCEPT !.meta = row, !.messages = Append(d.messages, m)] \in Database
  BY <1>4, <1>6 DEF Database, Optional
<1> QED
  BY <1>3, <1>4, <1>5, <1>6, <1>7 DEF row, m, Database

(* Appending a message stamped no later than c keeps the types. *)
LEMMA AppendOK ==
    ASSUME NEW c \in Nat, NEW g, NEW d, DbOK(d, c, g), d.meta # None,
           NEW size \in Nat, NEW now \in 0 .. c,
           NEW producer \in Optional(ProducerHeaders), NEW seq \in Optional(StreamSeqs)
    PROVE  /\ DbOK(append_message(d, size, now, producer, seq), c, g)
           /\ append_message(d, size, now, producer, seq).meta # None
<1> DEFINE a == append_message(d, size, now, producer, seq)
           m == [offset |-> advance_offset(d.meta.current_offset, size), ts |-> now,
                 by |-> producer, stream_seq |-> seq]
<1>1. d \in Database /\ d.meta \in Meta /\ d.messages \in Seq(Message) /\ now \in Nat
  BY DEF DbOK, Database, Optional
<1>2. /\ a \in Database /\ m \in Message
      /\ a.meta = [d.meta EXCEPT !.current_offset = m.offset] /\ a.meta # None
      /\ a.messages = Append(d.messages, m)
  BY <1>1, AppendMessage
<1>3. /\ a.meta.last_accessed_at = d.meta.last_accessed_at
      /\ a.meta.generation = d.meta.generation
  BY <1>1, <1>2 DEF Meta
<1>4. m.ts <= c
  OBVIOUS
<1> HIDE DEF a, m
<1>5. \A i \in DOMAIN a.messages : a.messages[i].ts <= c
  BY <1>1, <1>2, <1>4 DEF DbOK
<1> QED
  BY <1>2, <1>3, <1>5 DEF DbOK, a

(* Fencing and the sweep keep the rows of the producers table well typed.   *)
LEMMA FencedType ==
    ASSUME NEW d \in Database, NEW now \in Nat,
           NEW producer \in Optional(ProducerHeaders),
           NEW table \in fenced(d, producer, now)
    PROVE  table \in [Producers -> Optional(ProducerState)]
<1>1. d.producers \in [Producers -> Optional(ProducerState)]
  BY DEF Database
<1>2. CASE producer = None
  BY <1>1, <1>2 DEF fenced
<1>3. CASE producer # None
  <2>1. producer \in ProducerHeaders
    BY <1>3 DEF Optional
  <2>2. PICK swept \in get_producer_state(d, producer.id, now) :
            table = commit_producer_state(swept, producer, now)
    BY <1>3 DEF fenced
  <2>3. swept \in [Producers -> Optional(ProducerState)]
    BY <1>1, <2>2 DEF get_producer_state, Swept, producer_row, Optional
  <2>4. [epoch |-> producer.epoch, last_seq |-> producer.seq, last_updated |-> now]
            \in Optional(ProducerState)
    BY <2>1 DEF ProducerHeaders, ProducerState, Optional
  <2> QED
    BY <2>2, <2>3, <2>4 DEF commit_producer_state
<1> QED
  BY <1>2, <1>3

(* Replacing the producers table keeps the types. *)
LEMMA TableOK ==
    ASSUME NEW c, NEW g, NEW d, DbOK(d, c, g),
           NEW table \in [Producers -> Optional(ProducerState)]
    PROVE  LET t == [d EXCEPT !.producers = table]
           IN  DbOK(t, c, g) /\ t.meta = d.meta
  BY DEF DbOK, Database

(* An accepted POST commits a well-typed database, whichever of its writes  *)
(* it makes.                                                                *)
LEMMA PostedOK ==
    ASSUME NEW c \in Nat, NEW g, NEW d, DbOK(d, c, g), d.meta # None,
           NEW r \in PostRequests, NEW now \in 0 .. c, NEW new \in posted(d, r, now)
    PROVE  DbOK(new, c, g)
<1>1. /\ r.producer \in Optional(ProducerHeaders)
      /\ r.stream_seq \in Optional(StreamSeqs) /\ r.size \in Nat
  BY NumbersAreNaturals DEF PostRequests
<1>2. d \in Database /\ now \in Nat
  BY DEF DbOK
<1> DEFINE t(table) == [d EXCEPT !.producers = table]
           a(table) == append_message(t(table), r.size, now, r.producer, r.stream_seq)
           q(table) == set_last_seq(a(table), r.stream_seq)
           z(table) == IF r.close THEN set_closed(q(table), r.producer) ELSE q(table)
<1>3. PICK table \in fenced(d, r.producer, now) : new = touch(z(table), now)
  BY DEF posted
<1>4. table \in [Producers -> Optional(ProducerState)]
  BY <1>1, <1>2, FencedType
<1>5. DbOK(t(table), c, g) /\ t(table).meta # None
  BY <1>4, TableOK
<1>6. DbOK(a(table), c, g) /\ a(table).meta # None
  <2> HIDE DEF t
  <2> QED BY <1>1, <1>5, AppendOK
<1>7. DbOK(q(table), c, g) /\ q(table).meta # None
  <2> HIDE DEF a
  <2> QED BY <1>1, <1>6, SetLastSeqOK
<1>8. DbOK(z(table), c, g)
  <2> HIDE DEF q
  <2> QED BY <1>1, <1>7, SetClosedOK
<1> HIDE DEF z
<1> QED
  BY <1>3, <1>8, TouchOK

(* Every database an accepted close may commit is well typed. *)
LEMMA CloseOnlyOK ==
    ASSUME NEW c \in Nat, NEW g, NEW d, DbOK(d, c, g), d.meta # None,
           NEW producer \in Optional(ProducerHeaders),
           NEW now \in 0 .. c, NEW new \in close_only(d, producer, now)
    PROVE  DbOK(new, c, g)
<1> DEFINE t(table) == [d EXCEPT !.producers = table]
           z(table) == set_closed(t(table), producer)
<1>1. PICK table \in fenced(d, producer, now) : new = touch(z(table), now)
  BY DEF close_only
<1>2. table \in [Producers -> Optional(ProducerState)]
  BY FencedType DEF DbOK
<1>3. DbOK(t(table), c, g) /\ t(table).meta # None
  BY <1>2, TableOK
<1>4. DbOK(z(table), c, g)
  <2> HIDE DEF t
  <2> QED BY <1>3, SetClosedOK
<1> HIDE DEF z
<1> QED
  BY <1>1, <1>4, TouchOK

(* A PUT that finds no row creates one of a new generation. *)
LEMMA CreatedOK ==
    ASSUME NEW c \in Nat, NEW g \in Nat, NEW d, DbOK(d, c, g), NEW r \in PutRequests,
           NEW now \in 0 .. c
    PROVE  LET created == [d EXCEPT !.meta = create_meta(r, g + 1, now)]
               meta == create_meta(r, g + 1, now)
           IN  /\ DbOK(created, c, g + 1)
               /\ meta \in Meta /\ meta # None
               /\ created.meta = meta
               /\ created.fork_edges = d.fork_edges
<1> DEFINE meta == create_meta(r, g + 1, now)
<1>1. /\ meta \in Meta /\ meta.last_accessed_at = now /\ meta.generation = g + 1
  BY DEF create_meta, Meta, PutRequests, Optional, ZERO_OFFSET
<1>2. meta # None
  BY <1>1, NoneIsNoRow
<1> HIDE DEF meta
<1>3. d \in Database
  BY DEF DbOK
<1> DEFINE created == [d EXCEPT !.meta = meta]
<1>5. /\ created \in Database /\ created.meta = meta /\ created.messages = d.messages
      /\ created.fork_edges = d.fork_edges
  BY <1>1, <1>3 DEF Database, Optional
<1>6. DbOK(created, c, g + 1)
  BY <1>1, <1>5 DEF DbOK
<1> QED
  BY <1>1, <1>2, <1>5, <1>6 DEF meta

-----------------------------------------------------------------------------
(* Type correctness *)

(* TypeOK is DbOK of the database, with the types of the rest. *)
LEMMA TypeOKParts ==
    TypeOK <=> /\ DbOK(db, clock, gens)
               /\ clock \in Nat /\ boot \in 0 .. clock /\ gens \in Nat
               /\ touches \subseteq Sampled
               /\ held \in [Edges -> Optional(Grant)]
  BY DEF TypeOK, DbOK

(* The same of the next state. *)
LEMMA TypeOKPartsPrime ==
    TypeOK' <=> /\ DbOK(db', clock', gens')
                /\ clock' \in Nat /\ boot' \in 0 .. clock' /\ gens' \in Nat
                /\ touches' \subseteq boot' .. clock'
                /\ held' \in [Edges -> Optional(Grant)]
  BY DEF TypeOK, DbOK, Sampled

(* What a child is told of its reference is a well-typed grant. *)
LEMMA AcquireType ==
    ASSUME TypeOK, NEW e \in Edges, NEW o \in Optional(ForkOffsets),
           NEW t \in Optional(ContentTypes), fork_acquire(e, o, t)
    PROVE  TypeOK'
<1> DEFINE d == visible_meta_while_locked(db, clock)
           offset == IF o = None THEN d.meta.current_offset ELSE o
<1>1. /\ DbOK(db, clock, gens) /\ DbOK(d, clock, gens)
      /\ held \in [Edges -> Optional(Grant)] /\ clock \in Nat
  BY TypeOKParts, VisibleOK
<1>2. db \in Database /\ d \in Database
  BY <1>1 DEF DbOK
<1>3. UNCHANGED <<clock, boot, gens, touches>>
  BY DEF fork_acquire
<1>4. CASE db.fork_edges[e] # None /\ db.meta # None
  <2>1. db.fork_edges[e] \in Nat /\ db.meta.generation \in Nat
    BY <1>2, <1>4 DEF Database, Meta, Optional
  <2>2. /\ db' = db
        /\ held' = IF held[e] # None THEN held
                   ELSE [held EXCEPT ![e] =
                          [generation |-> db.meta.generation,
                           fork_offset |-> db.fork_edges[e], returned |-> FALSE]]
    BY <1>4 DEF fork_acquire
  <2>3. held' \in [Edges -> Optional(Grant)]
    BY <1>1, <2>1, <2>2 DEF Grant, Optional
  <2> QED
    BY <1>1, <1>3, <2>2, <2>3, TypeOKParts, TypeOKPartsPrime DEF Sampled
<1>5. CASE /\ ~(db.fork_edges[e] # None /\ db.meta # None)
           /\ Live(d) /\ t \in {None, d.meta.content_type} /\ offset <= d.meta.current_offset
  <2>1. /\ db' = [d EXCEPT !.fork_edges[e] = IF @ = None THEN offset ELSE @]
        /\ held' = IF held[e] # None THEN held
                   ELSE [held EXCEPT ![e] =
                          [generation |-> d.meta.generation,
                           fork_offset |-> db'.fork_edges[e], returned |-> FALSE]]
    BY <1>4, <1>5 DEF fork_acquire
  <2>2. d.meta \in Meta /\ d.meta.generation \in Nat /\ d.meta.current_offset \in Nat
    BY <1>2, <1>5 DEF Live, Database, Optional, Meta
  <2>3. offset \in Nat
    BY <2>2, NumbersAreNaturals DEF Optional
  <2>4. DbOK(db', clock, gens) /\ db'.fork_edges[e] \in Nat
    <3> HIDE DEF d, offset
    <3> QED BY <1>1, <1>2, <2>1, <2>3 DEF DbOK, Database, Optional
  <2>5. held' \in [Edges -> Optional(Grant)]
    BY <1>1, <2>1, <2>2, <2>4 DEF Grant, Optional
  <2> QED
    BY <1>1, <1>3, <2>4, <2>5, TypeOKParts, TypeOKPartsPrime DEF Sampled
<1>6. CASE /\ ~(db.fork_edges[e] # None /\ db.meta # None)
           /\ ~(Live(d) /\ t \in {None, d.meta.content_type} /\ offset <= d.meta.current_offset)
  <2>1. db' = d /\ held' = held
    BY <1>6 DEF fork_acquire
  <2> QED
    BY <1>1, <1>3, <2>1, TypeOKParts, TypeOKPartsPrime DEF Sampled
<1> QED
  BY <1>4, <1>5, <1>6

(* fork_release keeps the types. *)
LEMMA ReleaseType ==
    ASSUME TypeOK, NEW e \in Edges, fork_release(e)
    PROVE  TypeOK'
<1> DEFINE released == [db EXCEPT !.fork_edges[e] = None]
<1>1. DbOK(db, clock, gens) /\ held \in [Edges -> Optional(Grant)]
  BY TypeOKParts
<1>2. DbOK(released, clock, gens)
  BY <1>1 DEF DbOK, Database, Optional
<1>3. db' \in {db, released, purge} /\ UNCHANGED <<clock, boot, gens, touches>>
  BY DEF fork_release, purge_after_release
<1>4. DbOK(db', clock, gens)
  BY <1>1, <1>2, <1>3, PurgeOK
<1>5. held' \in [Edges -> Optional(Grant)]
  <2>1. held[e] \in Grant
    BY <1>1 DEF fork_release, Optional
  <2>2. [held[e] EXCEPT !.returned = TRUE] \in Optional(Grant)
    BY <2>1 DEF Grant, Optional
  <2>3. held' = [held EXCEPT ![e] = [held[e] EXCEPT !.returned = TRUE]]
    BY DEF fork_release
  <2> QED
    BY <1>1, <2>2, <2>3
<1> QED
  BY <1>3, <1>4, <1>5, TypeOKParts, TypeOKPartsPrime DEF Sampled

(* Every step keeps TypeOK. *)
LEMMA TypeStep == TypeOK /\ [Next]_vars => TypeOK'
<1> SUFFICES ASSUME TypeOK, [Next]_vars PROVE TypeOK'
  OBVIOUS
<1>1. /\ DbOK(db, clock, gens) /\ clock \in Nat /\ boot \in 0 .. clock /\ gens \in Nat
      /\ touches \subseteq boot .. clock /\ held \in [Edges -> Optional(Grant)]
  BY TypeOKParts DEF Sampled
<1>2. \A now : DbOK(visible_meta_while_locked(db, now), clock, gens)
  BY <1>1, VisibleOK
<1>3. \A now \in Sampled : now \in 0 .. clock /\ now \in Nat
  BY <1>1 DEF Sampled
<1>4. ASSUME NEW r \in PutRequests, NEW now \in Sampled, handle_put(r, now)
      PROVE  TypeOK'
  <2> DEFINE d == visible_meta_while_locked(db, now)
             created == [d EXCEPT !.meta = create_meta(r, gens + 1, now)]
  <2>1. UNCHANGED <<clock, boot, touches, held>>
    BY <1>4 DEF handle_put
  <2>2. DbOK(d, clock, gens)
    BY <1>2
  <2>3. CASE d.meta # None
    <3>1. db' = d /\ gens' = gens
      BY <1>4, <2>3 DEF handle_put
    <3> QED
      BY <1>1, <2>1, <2>2, <3>1, TypeOKPartsPrime
  <2>4. CASE d.meta = None
    <3>1. /\ gens' = gens + 1
          /\ db' = IF r.size = 0 THEN created
                   ELSE append_message(created, r.size, now, None, None)
      BY <1>4, <2>4 DEF handle_put
    <3>2. DbOK(created, clock, gens + 1) /\ created.meta # None
      <4> HIDE DEF d
      <4> QED BY <1>1, <1>3, <2>2, CreatedOK
    <3>3. DbOK(append_message(created, r.size, now, None, None), clock, gens + 1)
      <4>1. r.size \in Nat /\ None \in Optional(ProducerHeaders) /\ None \in Optional(StreamSeqs)
        <5>1. r.size \in Sizes \union {0}
          BY DEF PutRequests
        <5>2. \A n \in Sizes \union {0} : n \in Nat
          BY NumbersAreNaturals
        <5>3. r.size \in Nat
          BY <5>1, <5>2, Zenon
        <5> QED
          BY <5>3 DEF Optional
      <4> HIDE DEF created
      <4> QED BY <1>1, <1>3, <3>2, <4>1, AppendOK
    <3> QED
      BY <1>1, <2>1, <3>1, <3>2, <3>3, TypeOKPartsPrime
  <2> QED
    BY <2>3, <2>4
<1>5. ASSUME NEW r \in PostRequests, NEW now \in Sampled, handle_post(r, now)
      PROVE  TypeOK'
  <2> DEFINE d == visible_meta_while_locked(db, now)
  <2>1. UNCHANGED <<clock, boot, gens, touches, held>>
    BY <1>5 DEF handle_post
  <2>2. DbOK(d, clock, gens)
    BY <1>2
  <2>3. CASE post_reply(d, r, now) = "accepted"
    <3>1. d.meta # None
      BY <2>3 DEF post_reply
    <3>2. db' \in posted(d, r, now)
      BY <1>5, <2>3 DEF handle_post
    <3>3. DbOK(db', clock, gens)
      <4> HIDE DEF d
      <4> QED BY <1>1, <1>3, <2>2, <3>1, <3>2, PostedOK
    <3> QED
      BY <1>1, <2>1, <3>3, TypeOKPartsPrime
  <2>4. CASE post_reply(d, r, now) # "accepted"
    BY <1>1, <1>5, <2>1, <2>2, <2>4, TypeOKPartsPrime DEF handle_post
  <2> QED
    BY <2>3, <2>4
<1>6. ASSUME NEW p \in Optional(ProducerHeaders), NEW now \in Sampled,
             handle_close_only(p, now)
      PROVE  TypeOK'
  <2> DEFINE d == visible_meta_while_locked(db, now)
  <2>1. UNCHANGED <<clock, boot, gens, touches, held>>
    BY <1>6 DEF handle_close_only
  <2>2. DbOK(d, clock, gens)
    BY <1>2
  <2>3. CASE close_reply(d, p, now) = "accepted"
    <3>1. d.meta # None
      BY <2>3 DEF close_reply
    <3>2. db' \in close_only(d, p, now)
      BY <1>6, <2>3 DEF handle_close_only
    <3>3. DbOK(db', clock, gens)
      <4> HIDE DEF d
      <4> QED BY <1>1, <1>3, <2>2, <3>1, <3>2, CloseOnlyOK
    <3> QED
      BY <1>1, <2>1, <3>3, TypeOKPartsPrime
  <2>4. CASE close_reply(d, p, now) # "accepted"
    BY <1>1, <1>6, <2>1, <2>2, <2>4, TypeOKPartsPrime DEF handle_close_only
  <2> QED
    BY <2>3, <2>4
<1>7. CASE handle_delete
  <2> DEFINE d == visible_meta_while_locked(db, clock)
  <2>1. DbOK(d, clock, gens)
    BY <1>2
  <2>2. Live(d) => DbOK(retire(d), clock, gens)
    BY <2>1, RetireOK DEF Live
  <2> QED
    BY <1>1, <1>7, <2>1, <2>2, TypeOKPartsPrime DEF handle_delete
<1>8. ASSUME NEW now \in Sampled, visible_meta(now)
      PROVE  TypeOK'
  BY <1>1, <1>2, <1>8, TypeOKPartsPrime DEF visible_meta
<1>9. CASE read_snapshot
  BY <1>1, <1>9, TypeOKPartsPrime DEF read_snapshot
<1>10. ASSUME NEW now \in touches, touch_access(now)
       PROVE  TypeOK'
  <2>1. now \in 0 .. clock
    BY <1>1
  <2>2. DbOK(touch(db, now), clock, gens)
    BY <1>1, <2>1, TouchOK
  <2> QED
    BY <1>1, <1>10, <2>2, TypeOKPartsPrime DEF touch_access
<1>11. CASE Restart
  BY <1>1, <1>11, TypeOKPartsPrime DEF Restart
<1>12. CASE Tick
  <2>1. DbOK(db, clock + 1, gens)
    <3>1. db.messages \in Seq(Message) /\ db.meta \in Meta \union {None}
      BY <1>1 DEF DbOK, Database, Optional
    <3>2. \A i \in DOMAIN db.messages : db.messages[i].ts \in Nat
      <4> TAKE i \in DOMAIN db.messages
      <4>1. db.messages[i] \in Message
        BY <3>1
      <4> QED
        BY <4>1 DEF Message
    <3>3. db.meta # None => db.meta.last_accessed_at \in Nat
      BY <3>1 DEF Meta
    <3> QED
      BY <1>1, <3>2, <3>3 DEF DbOK
  <2> QED
    BY <1>1, <1>12, <2>1, TypeOKPartsPrime DEF Tick
<1>13. CASE UNCHANGED vars
  BY <1>1, <1>13, TypeOKPartsPrime DEF vars
<1> QED
  BY <1>4, <1>5, <1>6, <1>7, <1>8, <1>9, <1>10, <1>11, <1>12, <1>13,
     AcquireType, ReleaseType DEF Next

(* The empty actor satisfies TypeOK. *)
LEMMA TypeInit == Init => TypeOK
<1> SUFFICES ASSUME Init PROVE TypeOK
  OBVIOUS
<1>1. DbOK(db, clock, gens)
  BY PurgeOK DEF Init
<1>2. held \in [Edges -> Optional(Grant)] /\ boot \in 0 .. clock
  BY DEF Init, Optional
<1> QED
  BY <1>1, <1>2, TypeOKParts DEF Init

(* No row and no sample of the clock is from the future, and every row has  *)
(* its type, for any number of producers, edges, requests and ticks.        *)
THEOREM TypeCorrect == Spec => []TypeOK
<1> QED
  BY TypeInit, TypeStep, PTL DEF Spec

-----------------------------------------------------------------------------
(* Lifecycle: what a purge, an expiry and a fork's reference do to a stream *)

(* No edge is recorded beyond the tail it was acquired at. *)
EdgesWithin(d) ==
    d.meta # None =>
        \A e \in Edges : d.fork_edges[e] # None => d.fork_edges[e] <= d.meta.current_offset

Sound(d) ==
    /\ d.meta = None => d = purge
    /\ d.meta # None /\ d.meta.soft_deleted => Referenced(d)
    /\ EdgesWithin(d)

(* d2 is d1 after a handler that neither records nor removes an edge: the   *)
(* stream is the same with its edges and no shorter, or it had none.        *)
Continues(d1, d2) ==
    \/ /\ d1.meta # None /\ d2.meta # None
       /\ d2.meta.generation = d1.meta.generation
       /\ d2.fork_edges = d1.fork_edges
       /\ d2.meta.current_offset >= d1.meta.current_offset
    \/ ~Referenced(d1)

(* The purged database is sound and references nothing. *)
LEMMA PurgeSound == Sound(purge) /\ ~Referenced(purge) /\ purge.meta = None
  BY DEF purge, Sound, Referenced, EdgesWithin

(* A write that keeps the edges and the row keeps the stream sound. *)
LEMMA ContinuesStep ==
    ASSUME NEW d1 \in Database, NEW d2 \in Database, Sound(d1), d1.meta # None,
           d2.meta # None, d2.meta.generation = d1.meta.generation,
           d2.fork_edges = d1.fork_edges,
           d2.meta.current_offset >= d1.meta.current_offset,
           d2.meta.soft_deleted => d1.meta.soft_deleted \/ Referenced(d1)
    PROVE  Sound(d2) /\ Continues(d1, d2)
<1>1. /\ d1.meta.current_offset \in Nat /\ d2.meta.current_offset \in Nat
      /\ \A e \in Edges : d1.fork_edges[e] # None => d1.fork_edges[e] \in Nat
  BY DEF Database, Optional, Meta
<1>2. Referenced(d1) <=> Referenced(d2)
  BY DEF Referenced
<1>3. EdgesWithin(d2)
  BY <1>1 DEF Sound, EdgesWithin
<1> QED
  BY <1>2, <1>3 DEF Sound, Continues

(* An expiry or a DELETE keeps a referenced stream. *)
LEMMA RetireSound ==
    ASSUME NEW c, NEW g, NEW d, DbOK(d, c, g), Sound(d), d.meta # None
    PROVE  Sound(retire(d)) /\ Continues(d, retire(d))
<1>1. d \in Database /\ d.meta \in Meta
  BY DEF DbOK, Database, Optional
<1>2. CASE Referenced(d)
  <2> DEFINE s == [d EXCEPT !.meta.soft_deleted = TRUE]
  <2>1. /\ s \in Database /\ s.meta # None /\ s.fork_edges = d.fork_edges
        /\ s.meta = [d.meta EXCEPT !.soft_deleted = TRUE]
    BY <1>1, SoftDeleted
  <2>2. /\ s.meta.generation = d.meta.generation
        /\ s.meta.current_offset = d.meta.current_offset
        /\ d.meta.current_offset \in Nat
    BY <1>1, <2>1 DEF Meta
  <2>3. retire(d) = s
    BY <1>2, Retire
  <2> HIDE DEF s
  <2>4. s.meta.current_offset >= d.meta.current_offset
    BY <2>2
  <2>5. Sound(s) /\ Continues(d, s)
    BY <1>1, <1>2, <2>1, <2>2, <2>4, ContinuesStep
  <2> QED
    BY <2>3, <2>5
<1>3. CASE ~Referenced(d)
  BY <1>3, Retire, PurgeSound DEF Continues
<1> QED
  BY <1>2, <1>3

(* So does the expiry check every handler begins with. *)
LEMMA VisibleSound ==
    ASSUME NEW c, NEW g, NEW d, DbOK(d, c, g), Sound(d), NEW now
    PROVE  LET v == visible_meta_while_locked(d, now)
           IN  Sound(v) /\ Continues(d, v)
<1>1. d.meta = None => ~Referenced(d)
  BY PurgeSound DEF Sound
<1>2. d.meta # None => d.meta.current_offset \in Nat
  BY DEF DbOK, Database, Optional, Meta
<1>3. Continues(d, d)
  BY <1>1, <1>2 DEF Continues
<1> QED
  BY <1>3, RetireSound DEF visible_meta_while_locked

(* Replacing the meta row replaces nothing else. *)
LEMMA UpdateMeta ==
    ASSUME NEW d \in Database, NEW row \in Meta
    PROVE  LET u == [d EXCEPT !.meta = row]
           IN  /\ u \in Database /\ u.meta = row /\ u.meta # None
               /\ u.messages = d.messages /\ u.producers = d.producers
               /\ u.fork_edges = d.fork_edges
  BY NoneIsNoRow DEF Database, Optional

(* set_last_seq, set_closed and touch write their columns and no other.     *)
LEMMA SetLastSeq ==
    ASSUME NEW d \in Database, d.meta # None, NEW seq \in Optional(StreamSeqs)
    PROVE  LET u == set_last_seq(d, seq)
           IN  /\ u \in Database /\ u.meta \in Meta /\ u.meta # None
               /\ u.messages = d.messages /\ u.producers = d.producers
               /\ u.fork_edges = d.fork_edges
               /\ u.meta = [d.meta EXCEPT !.last_seq = IF seq = None THEN @ ELSE seq]
<1> DEFINE row == [d.meta EXCEPT !.last_seq = IF seq = None THEN @ ELSE seq]
<1>1. d.meta \in Meta
  BY DEF Database, Optional
<1>2. row \in Meta
  BY <1>1 DEF Meta, Optional
<1>3. CASE seq = None
  <2>1. row = d.meta
    BY <1>1, <1>3 DEF Meta
  <2>2. set_last_seq(d, seq) = d
    BY <1>3 DEF set_last_seq
  <2> QED
    BY <1>1, <2>1, <2>2
<1>4. CASE seq # None
  <2>1. set_last_seq(d, seq) = [d EXCEPT !.meta = row]
    BY <1>4 DEF set_last_seq
  <2> HIDE DEF row
  <2>2. LET u == [d EXCEPT !.meta = row]
        IN  /\ u \in Database /\ u.meta = row /\ u.meta # None
            /\ u.messages = d.messages /\ u.producers = d.producers
            /\ u.fork_edges = d.fork_edges
    BY <1>2, UpdateMeta
  <2> QED
    BY <1>2, <2>1, <2>2 DEF row
<1> QED
  BY <1>3, <1>4

(* set_closed writes the two closing columns. *)
LEMMA SetClosed ==
    ASSUME NEW d \in Database, d.meta # None, NEW producer \in Optional(ProducerHeaders)
    PROVE  LET u == set_closed(d, producer)
           IN  /\ u \in Database /\ u.meta \in Meta /\ u.meta # None
               /\ u.messages = d.messages /\ u.producers = d.producers
               /\ u.fork_edges = d.fork_edges
               /\ u.meta = [d.meta EXCEPT !.closed = TRUE,
                                !.closed_by = IF producer = None THEN @ ELSE producer]
<1> DEFINE row == [d.meta EXCEPT !.closed = TRUE,
                                 !.closed_by = IF producer = None THEN @ ELSE producer]
<1>1. d.meta \in Meta
  BY DEF Database, Optional
<1>2. row \in Meta
  BY <1>1 DEF Meta, Optional
<1>3. set_closed(d, producer) = [d EXCEPT !.meta = row]
  BY <1>1 DEF set_closed, Database
<1> HIDE DEF row
<1>4. LET u == [d EXCEPT !.meta = row]
      IN  /\ u \in Database /\ u.meta = row /\ u.meta # None
          /\ u.messages = d.messages /\ u.producers = d.producers
          /\ u.fork_edges = d.fork_edges
  BY <1>2, UpdateMeta
<1> QED
  BY <1>2, <1>3, <1>4 DEF row

(* touch writes the access time. *)
LEMMA Touch ==
    ASSUME NEW d \in Database, d.meta # None, NEW now \in Nat
    PROVE  LET u == touch(d, now)
           IN  /\ u \in Database /\ u.meta \in Meta /\ u.meta # None
               /\ u.messages = d.messages /\ u.producers = d.producers
               /\ u.fork_edges = d.fork_edges
               /\ u.meta = [d.meta EXCEPT !.last_accessed_at = now]
<1> DEFINE row == [d.meta EXCEPT !.last_accessed_at = now]
<1>1. d.meta \in Meta
  BY DEF Database, Optional
<1>2. row \in Meta
  BY <1>1 DEF Meta
<1>3. touch(d, now) = [d EXCEPT !.meta = row]
  BY DEF touch
<1> HIDE DEF row
<1>4. LET u == [d EXCEPT !.meta = row]
      IN  /\ u \in Database /\ u.meta = row /\ u.meta # None
          /\ u.messages = d.messages /\ u.producers = d.producers
          /\ u.fork_edges = d.fork_edges
  BY <1>2, UpdateMeta
<1> QED
  BY <1>2, <1>3, <1>4 DEF row

(* The table of an accepted write. *)
LEMMA Table ==
    ASSUME NEW d \in Database, NEW table \in [Producers -> Optional(ProducerState)]
    PROVE  LET t == [d EXCEPT !.producers = table]
           IN  /\ t \in Database /\ t.meta = d.meta /\ t.messages = d.messages
               /\ t.producers = table /\ t.fork_edges = d.fork_edges
  BY DEF Database

(* Neither a TTL nor an absolute expiry is ever changed. *)
SameExpiry(d1, d2) ==
    /\ d2.meta.ttl_seconds = d1.meta.ttl_seconds
    /\ d2.meta.expires_at = d1.meta.expires_at

(* All an accepted POST writes: one message, the tail, the closing, the     *)
(* access time, Stream-Seq and the producers table.                         *)
PostEffect(d, r, now, new) ==
    /\ new \in Database /\ new.meta \in Meta /\ new.meta # None
    /\ new.producers \in fenced(d, r.producer, now)
    /\ new.fork_edges = d.fork_edges
    /\ \E m \in Message :
          /\ new.messages = Append(d.messages, m)
          /\ m.ts = now /\ m.by = r.producer /\ m.stream_seq = r.stream_seq
    /\ new.meta.generation = d.meta.generation
    /\ new.meta.soft_deleted = d.meta.soft_deleted
    /\ new.meta.current_offset > d.meta.current_offset
    /\ new.meta.last_seq = IF r.stream_seq = None THEN d.meta.last_seq ELSE r.stream_seq
    /\ new.meta.closed = IF r.close THEN TRUE ELSE d.meta.closed
    /\ SameExpiry(d, new)

(* Every database an accepted POST may commit shows PostEffect. *)
LEMMA Posted ==
    ASSUME NEW d \in Database, d.meta # None, NEW r \in PostRequests, NEW now \in Nat,
           NEW new \in posted(d, r, now)
    PROVE  PostEffect(d, r, now, new)
<1>1. /\ r.producer \in Optional(ProducerHeaders)
      /\ r.stream_seq \in Optional(StreamSeqs) /\ r.size \in Nat /\ r.close \in BOOLEAN
  BY NumbersAreNaturals DEF PostRequests
<1> DEFINE t(table) == [d EXCEPT !.producers = table]
           a(table) == append_message(t(table), r.size, now, r.producer, r.stream_seq)
           q(table) == set_last_seq(a(table), r.stream_seq)
           z(table) == IF r.close THEN set_closed(q(table), r.producer) ELSE q(table)
<1>2. PICK table \in fenced(d, r.producer, now) : new = touch(z(table), now)
  BY DEF posted
<1>3. table \in [Producers -> Optional(ProducerState)]
  BY <1>1, FencedType
<1>4. /\ t(table) \in Database /\ t(table).meta = d.meta
      /\ t(table).messages = d.messages /\ t(table).producers = table
      /\ t(table).fork_edges = d.fork_edges
  BY <1>3, Table
<1>5. PICK m \in Message :
         /\ a(table) \in Database /\ a(table).meta \in Meta /\ a(table).meta # None
         /\ a(table).messages = Append(d.messages, m)
         /\ a(table).producers = table /\ a(table).fork_edges = d.fork_edges
         /\ a(table).meta = [d.meta EXCEPT !.current_offset = m.offset]
         /\ m.offset > d.meta.current_offset
         /\ m.ts = now /\ m.by = r.producer /\ m.stream_seq = r.stream_seq
  <2> DEFINE m == [offset |-> advance_offset(t(table).meta.current_offset, r.size),
                   ts |-> now, by |-> r.producer, stream_seq |-> r.stream_seq]
  <2> HIDE DEF t
  <2>1. /\ a(table) \in Database /\ m \in Message
        /\ a(table).meta = [t(table).meta EXCEPT !.current_offset = m.offset]
        /\ a(table).meta \in Meta /\ a(table).meta # None
        /\ a(table).messages = Append(t(table).messages, m)
        /\ a(table).producers = t(table).producers
        /\ a(table).fork_edges = t(table).fork_edges
        /\ m.offset > t(table).meta.current_offset
    <3>1. PICK e : e = t(table)
      OBVIOUS
    <3>2. e \in Database /\ e.meta # None
      BY <1>4, <3>1
    <3>3. PICK size, by, seq : size = r.size /\ by = r.producer /\ seq = r.stream_seq
      OBVIOUS
    <3>4. /\ size \in Nat /\ by \in Optional(ProducerHeaders)
          /\ seq \in Optional(StreamSeqs)
      BY <1>1, <3>3
    <3>5. LET b == append_message(e, size, now, by, seq)
              n == [offset |-> advance_offset(e.meta.current_offset, size), ts |-> now,
                    by |-> by, stream_seq |-> seq]
          IN  /\ b \in Database /\ n \in Message
              /\ b.meta = [e.meta EXCEPT !.current_offset = n.offset]
              /\ b.meta \in Meta /\ b.meta # None
              /\ b.messages = Append(e.messages, n)
              /\ b.producers = e.producers /\ b.fork_edges = e.fork_edges
              /\ n.offset > e.meta.current_offset
      BY <3>2, <3>4, AppendMessage
    <3> QED
      BY <3>1, <3>3, <3>5
  <2>2. m.ts = now /\ m.by = r.producer /\ m.stream_seq = r.stream_seq
    OBVIOUS
  <2> HIDE DEF m, a
  <2> QED
    BY <1>4, <2>1, <2>2
<1> HIDE DEF a
<1>6. /\ q(table) \in Database /\ q(table).meta \in Meta /\ q(table).meta # None
      /\ q(table).messages = a(table).messages /\ q(table).producers = a(table).producers
      /\ q(table).fork_edges = a(table).fork_edges
      /\ q(table).meta = [a(table).meta EXCEPT
                            !.last_seq = IF r.stream_seq = None THEN @ ELSE r.stream_seq]
  BY <1>1, <1>5, SetLastSeq
<1> HIDE DEF q
<1>7. /\ z(table) \in Database /\ z(table).meta \in Meta /\ z(table).meta # None
      /\ z(table).messages = q(table).messages /\ z(table).producers = q(table).producers
      /\ z(table).fork_edges = q(table).fork_edges
      /\ z(table).meta = IF r.close
           THEN [q(table).meta EXCEPT !.closed = TRUE,
                     !.closed_by = IF r.producer = None THEN @ ELSE r.producer]
           ELSE q(table).meta
  BY <1>1, <1>6, SetClosed
<1> HIDE DEF z
<1>8. /\ new \in Database /\ new.meta \in Meta /\ new.meta # None
      /\ new.messages = z(table).messages /\ new.producers = z(table).producers
      /\ new.fork_edges = z(table).fork_edges
      /\ new.meta = [z(table).meta EXCEPT !.last_accessed_at = now]
  BY <1>2, <1>7, Touch
<1>9. d.meta \in Meta
  BY DEF Database, Optional
<1>10. /\ a(table).meta.generation = d.meta.generation
       /\ a(table).meta.soft_deleted = d.meta.soft_deleted
       /\ a(table).meta.current_offset = m.offset
       /\ a(table).meta.last_seq = d.meta.last_seq
       /\ a(table).meta.closed = d.meta.closed
       /\ SameExpiry(d, a(table))
  BY <1>5, <1>9 DEF Meta, SameExpiry
<1>11. /\ q(table).meta.generation = d.meta.generation
       /\ q(table).meta.soft_deleted = d.meta.soft_deleted
       /\ q(table).meta.current_offset = m.offset
       /\ q(table).meta.last_seq = IF r.stream_seq = None THEN d.meta.last_seq
                                   ELSE r.stream_seq
       /\ q(table).meta.closed = d.meta.closed
       /\ SameExpiry(d, q(table))
  BY <1>5, <1>6, <1>10 DEF Meta, SameExpiry
<1>12. /\ z(table).meta.generation = d.meta.generation
       /\ z(table).meta.soft_deleted = d.meta.soft_deleted
       /\ z(table).meta.current_offset = m.offset
       /\ z(table).meta.last_seq = q(table).meta.last_seq
       /\ z(table).meta.closed = (IF r.close THEN TRUE ELSE d.meta.closed)
       /\ SameExpiry(d, z(table))
  <2>1. CASE r.close
    <3>1. z(table).meta = [q(table).meta EXCEPT !.closed = TRUE,
                     !.closed_by = IF r.producer = None THEN @ ELSE r.producer]
      BY <1>7, <2>1
    <3>2. /\ z(table).meta.generation = q(table).meta.generation
          /\ z(table).meta.soft_deleted = q(table).meta.soft_deleted
          /\ z(table).meta.current_offset = q(table).meta.current_offset
          /\ z(table).meta.last_seq = q(table).meta.last_seq
          /\ z(table).meta.closed = TRUE
          /\ SameExpiry(q(table), z(table))
      BY <1>6, <3>1 DEF Meta, SameExpiry
    <3> QED
      BY <1>11, <2>1, <3>2 DEF SameExpiry
  <2>2. CASE ~r.close
    BY <1>7, <1>11, <2>2 DEF SameExpiry
  <2> QED
    BY <2>1, <2>2
<1>13. /\ new.meta.generation = d.meta.generation
       /\ new.meta.soft_deleted = d.meta.soft_deleted
       /\ new.meta.current_offset = m.offset
       /\ new.meta.last_seq = q(table).meta.last_seq
       /\ new.meta.closed = (IF r.close THEN TRUE ELSE d.meta.closed)
       /\ SameExpiry(d, new)
  BY <1>7, <1>8, <1>12 DEF Meta, SameExpiry
<1>14. new.messages = Append(d.messages, m) /\ new.producers = table
       /\ new.fork_edges = d.fork_edges
  BY <1>5, <1>6, <1>7, <1>8
<1> QED
  BY <1>2, <1>5, <1>8, <1>11, <1>13, <1>14 DEF PostEffect

(* All an accepted close writes: the closing, the access time, the table.   *)
CloseEffect(d, producer, new) ==
    /\ new \in Database /\ new.meta \in Meta /\ new.meta # None
    /\ new.messages = d.messages /\ new.fork_edges = d.fork_edges
    /\ new.meta.generation = d.meta.generation
    /\ new.meta.soft_deleted = d.meta.soft_deleted
    /\ new.meta.current_offset = d.meta.current_offset
    /\ new.meta.last_seq = d.meta.last_seq
    /\ new.meta.closed
    /\ producer = None => new.meta.closed_by = d.meta.closed_by
    /\ SameExpiry(d, new)

(* Every database an accepted close may commit shows CloseEffect. *)
LEMMA Closed ==
    ASSUME NEW d \in Database, d.meta # None, NEW producer \in Optional(ProducerHeaders),
           NEW now \in Nat, NEW new \in close_only(d, producer, now)
    PROVE  CloseEffect(d, producer, new)
<1> DEFINE t(table) == [d EXCEPT !.producers = table]
           z(table) == set_closed(t(table), producer)
<1>1. PICK table \in fenced(d, producer, now) : new = touch(z(table), now)
  BY DEF close_only
<1>2. table \in [Producers -> Optional(ProducerState)]
  BY FencedType
<1>3. /\ t(table) \in Database /\ t(table).meta = d.meta
      /\ t(table).messages = d.messages /\ t(table).fork_edges = d.fork_edges
  BY <1>2, Table
<1> HIDE DEF t
<1>4. /\ z(table) \in Database /\ z(table).meta \in Meta /\ z(table).meta # None
      /\ z(table).messages = d.messages /\ z(table).fork_edges = d.fork_edges
      /\ z(table).meta = [d.meta EXCEPT !.closed = TRUE,
                              !.closed_by = IF producer = None THEN @ ELSE producer]
  <2>1. /\ z(table) \in Database /\ z(table).meta \in Meta /\ z(table).meta # None
        /\ z(table).messages = t(table).messages
        /\ z(table).fork_edges = t(table).fork_edges
        /\ z(table).meta = [t(table).meta EXCEPT !.closed = TRUE,
                                !.closed_by = IF producer = None THEN @ ELSE producer]
    BY <1>3, SetClosed
  <2> QED
    BY <1>3, <2>1
<1> HIDE DEF z
<1>5. /\ new \in Database /\ new.meta \in Meta /\ new.meta # None
      /\ new.messages = z(table).messages /\ new.fork_edges = z(table).fork_edges
      /\ new.meta = [z(table).meta EXCEPT !.last_accessed_at = now]
  BY <1>1, <1>4, Touch
<1>6. d.meta \in Meta
  BY DEF Database, Optional
<1>7. /\ z(table).meta.generation = d.meta.generation
      /\ z(table).meta.soft_deleted = d.meta.soft_deleted
      /\ z(table).meta.current_offset = d.meta.current_offset
      /\ z(table).meta.last_seq = d.meta.last_seq
      /\ z(table).meta.closed = TRUE
      /\ z(table).meta.closed_by = (IF producer = None THEN d.meta.closed_by ELSE producer)
      /\ SameExpiry(d, z(table))
  BY <1>4, <1>6 DEF Meta, SameExpiry
<1>8. /\ new.meta.generation = z(table).meta.generation
      /\ new.meta.soft_deleted = z(table).meta.soft_deleted
      /\ new.meta.current_offset = z(table).meta.current_offset
      /\ new.meta.last_seq = z(table).meta.last_seq
      /\ new.meta.closed = z(table).meta.closed
      /\ new.meta.closed_by = z(table).meta.closed_by
      /\ SameExpiry(z(table), new)
  BY <1>4, <1>5 DEF Meta, SameExpiry
<1> QED
  BY <1>4, <1>5, <1>7, <1>8 DEF CloseEffect, SameExpiry

(* All a PUT that creates the stream writes: an empty log or one message,   *)
(* under a generation of its own.                                           *)
Created(d, g, new, size, now) ==
    /\ new \in Database /\ new.meta \in Meta /\ new.meta # None
    /\ new.meta.generation = g + 1 /\ ~new.meta.soft_deleted
    /\ new.meta.last_seq = None
    /\ new.producers = d.producers /\ new.fork_edges = d.fork_edges
    /\ IF size = 0 THEN new.messages = d.messages
       ELSE \E m \in Message : /\ new.messages = Append(d.messages, m)
                               /\ m.ts = now /\ m.by = None /\ m.stream_seq = None

(* A PUT that finds no stream shows Created. *)
LEMMA Create ==
    ASSUME NEW d \in Database, NEW g \in Nat, NEW r \in PutRequests, NEW now \in Nat,
           NEW new,
           LET created == [d EXCEPT !.meta = create_meta(r, g + 1, now)]
           IN  new = IF r.size = 0 THEN created
                     ELSE append_message(created, r.size, now, None, None)
    PROVE  Created(d, g, new, r.size, now)
<1> DEFINE row == create_meta(r, g + 1, now)
           created == [d EXCEPT !.meta = row]
<1>1. /\ row \in Meta /\ row.generation = g + 1 /\ ~row.soft_deleted
      /\ row.last_seq = None
  BY DEF create_meta, Meta, PutRequests, Optional, ZERO_OFFSET
<1>2. new = IF r.size = 0 THEN created
            ELSE append_message(created, r.size, now, None, None)
  OBVIOUS
<1> HIDE DEF row
<1>3. /\ created \in Database /\ created.meta = row /\ created.meta # None
      /\ created.messages = d.messages /\ created.producers = d.producers
      /\ created.fork_edges = d.fork_edges
  BY <1>1, UpdateMeta
<1> HIDE DEF created
<1>4. CASE r.size = 0
  BY <1>1, <1>2, <1>3, <1>4 DEF Created
<1>5. CASE r.size # 0
  <2> DEFINE m == [offset |-> advance_offset(created.meta.current_offset, r.size),
                   ts |-> now, by |-> None, stream_seq |-> None]
  <2>1. r.size \in Nat /\ None \in Optional(ProducerHeaders) /\ None \in Optional(StreamSeqs)
    <3>1. r.size \in Sizes \union {0}
      BY DEF PutRequests
    <3>2. \A n \in Sizes \union {0} : n \in Nat
      BY NumbersAreNaturals
    <3>3. r.size \in Nat
      BY <3>1, <3>2, Zenon
    <3> QED
      BY <3>3 DEF Optional
  <2>2. new = append_message(created, r.size, now, None, None)
    BY <1>2, <1>5
  <2>3. /\ new \in Database /\ m \in Message
        /\ new.meta = [created.meta EXCEPT !.current_offset = m.offset]
        /\ new.meta \in Meta /\ new.meta # None
        /\ new.messages = Append(created.messages, m)
        /\ new.producers = created.producers /\ new.fork_edges = created.fork_edges
    <3> DEFINE a == append_message(created, r.size, now, None, None)
    <3>1. /\ a \in Database /\ m \in Message
          /\ a.meta = [created.meta EXCEPT !.current_offset = m.offset]
          /\ a.meta \in Meta /\ a.meta # None
          /\ a.messages = Append(created.messages, m)
          /\ a.producers = created.producers /\ a.fork_edges = created.fork_edges
      BY <1>3, <2>1, AppendMessage
    <3>2. new = a
      BY <2>2
    <3> HIDE DEF a, m
    <3> QED
      BY <3>1, <3>2
  <2>4. m.ts = now /\ m.by = None /\ m.stream_seq = None
    OBVIOUS
  <2> HIDE DEF m
  <2>5. /\ new.meta.generation = row.generation /\ new.meta.last_seq = row.last_seq
        /\ new.meta.soft_deleted = row.soft_deleted
    BY <1>1, <1>3, <2>3 DEF Meta
  <2>6. \E k \in Message : /\ new.messages = Append(d.messages, k)
                           /\ k.ts = now /\ k.by = None /\ k.stream_seq = None
    BY <1>3, <2>3, <2>4
  <2> QED
    BY <1>1, <1>3, <1>5, <2>3, <2>5, <2>6 DEF Created
<1> QED
  BY <1>4, <1>5

-----------------------------------------------------------------------------
(* The invariant of the lifecycle *)

LifecycleInv == TypeOK /\ Sound(db) /\ PinHolds

(* Two handlers in a row continue the stream as one would. *)
LEMMA ContinuesTransitive ==
    ASSUME NEW d1 \in Database, NEW d2 \in Database, NEW d3 \in Database,
           Continues(d1, d2), Continues(d2, d3)
    PROVE  Continues(d1, d3)
<1>1. \A d \in {d1, d2, d3} : d.meta # None => d.meta.current_offset \in Nat
  BY DEF Database, Optional, Meta
<1> QED
  BY <1>1 DEF Continues, Referenced

(* An edge that was granted and not returned makes its stream referenced,   *)
(* so no handler that Continues lets it go.                                 *)
LEMMA PinKept ==
    ASSUME TypeOK, PinHolds, Continues(db, db'), db' \in Database, held' = held
    PROVE  PinHolds'
<1> SUFFICES ASSUME NEW e \in Edges, held[e] # None, ~held[e].returned
             PROVE  /\ db'.meta # None /\ db'.meta.generation = held[e].generation
                    /\ db'.fork_edges[e] = held[e].fork_offset
                    /\ held[e].fork_offset <= db'.meta.current_offset
  BY DEF PinHolds
<1>1. /\ db.meta # None /\ db.meta.generation = held[e].generation
      /\ db.fork_edges[e] = held[e].fork_offset
      /\ held[e].fork_offset <= db.meta.current_offset
  BY DEF PinHolds
<1>2. held[e].fork_offset \in Nat /\ db.meta.current_offset \in Nat
  BY <1>1 DEF TypeOK, Optional, Grant, Database, Meta
<1>3. Referenced(db)
  BY <1>1, <1>2, NoneIsNoNumber DEF Referenced
<1>4. /\ db'.meta # None /\ db'.meta.generation = db.meta.generation
      /\ db'.fork_edges = db.fork_edges
      /\ db'.meta.current_offset >= db.meta.current_offset
  BY <1>3 DEF Continues
<1>5. db'.meta.current_offset \in Nat
  BY <1>4 DEF Database, Optional, Meta
<1> QED
  BY <1>1, <1>2, <1>4, <1>5

(* A new grant names the row and the edge that are there when it is given.  *)
LEMMA AcquireLifecycle ==
    ASSUME LifecycleInv, TypeOK', NEW e \in Edges, NEW o \in Optional(ForkOffsets),
           NEW t \in Optional(ContentTypes), fork_acquire(e, o, t)
    PROVE  Sound(db') /\ PinHolds'
<1> DEFINE d == visible_meta_while_locked(db, clock)
           offset == IF o = None THEN d.meta.current_offset ELSE o
           Recorded == db.fork_edges[e] # None /\ db.meta # None
           Granted == /\ Live(d) /\ t \in {None, d.meta.content_type}
                      /\ offset <= d.meta.current_offset
           Grants(generation, at) ==
               held' = IF held[e] # None THEN held
                       ELSE [held EXCEPT ![e] = [generation |-> generation,
                                                 fork_offset |-> at, returned |-> FALSE]]
<1>1. /\ DbOK(db, clock, gens) /\ DbOK(d, clock, gens) /\ Sound(db)
      /\ Sound(d) /\ Continues(db, d) /\ held \in [Edges -> Optional(Grant)] /\ TypeOK
      /\ PinHolds
  BY TypeOKParts, VisibleOK, VisibleSound DEF LifecycleInv
<1>2. db \in Database /\ d \in Database /\ db' \in Database
  BY <1>1 DEF DbOK, TypeOK
<1>3. CASE Recorded
  <2>1. db' = db /\ Grants(db.meta.generation, db.fork_edges[e])
    BY <1>3 DEF fork_acquire
  <2>2. db.fork_edges[e] <= db.meta.current_offset
    BY <1>1, <1>3 DEF Sound, EdgesWithin
  <2>3. PinHolds'
    BY <1>1, <1>3, <2>1, <2>2 DEF PinHolds
  <2> QED
    BY <1>1, <2>1, <2>3
<1>4. CASE ~Recorded /\ Granted
  <2>1. /\ db' = [d EXCEPT !.fork_edges[e] = IF @ = None THEN offset ELSE @]
        /\ Grants(d.meta.generation, db'.fork_edges[e])
    BY <1>4 DEF fork_acquire
  <2>2. /\ d.meta \in Meta /\ d.meta # None /\ ~d.meta.soft_deleted
        /\ d.meta.current_offset \in Nat
    BY <1>2, <1>4 DEF Live, Database, Optional, Meta
  <2>3. offset \in Nat /\ offset <= d.meta.current_offset
    BY <1>4, <2>2, NumbersAreNaturals DEF Optional
  <2> HIDE DEF offset
  <2>4. /\ db'.meta = d.meta
        /\ \A f \in Edges \ {e} : db'.fork_edges[f] = d.fork_edges[f]
        /\ db'.fork_edges[e] = IF d.fork_edges[e] = None THEN offset ELSE d.fork_edges[e]
    <3> HIDE DEF d
    <3> QED BY <1>2, <2>1 DEF Database
  <2>5. \A f \in Edges : d.fork_edges[f] # None => d.fork_edges[f] <= d.meta.current_offset
    BY <1>1, <2>2 DEF Sound, EdgesWithin
  <2>6. db'.fork_edges[e] <= d.meta.current_offset
    BY <2>3, <2>4, <2>5
  <2>7. Sound(db')
    BY <2>2, <2>4, <2>5, <2>6 DEF Sound, EdgesWithin
  <2>8. ASSUME NEW f \in Edges, held'[f] # None, ~held'[f].returned
        PROVE  /\ db'.meta # None /\ db'.meta.generation = held'[f].generation
               /\ db'.fork_edges[f] = held'[f].fork_offset
               /\ held'[f].fork_offset <= db'.meta.current_offset
    <3>1. CASE f = e /\ held[e] = None
      <4>1. held'[f] = [generation |-> d.meta.generation,
                        fork_offset |-> db'.fork_edges[e], returned |-> FALSE]
        BY <1>1, <2>1, <3>1
      <4> QED
        BY <2>2, <2>4, <2>6, <3>1, <4>1
    <3>2. CASE f # e \/ held[e] # None
      <4>1. held'[f] = held[f]
        BY <1>1, <2>1, <3>2
      <4>2. /\ db.meta # None /\ db.meta.generation = held[f].generation
            /\ db.fork_edges[f] = held[f].fork_offset
            /\ held[f].fork_offset <= db.meta.current_offset
        BY <1>1, <2>8, <4>1 DEF PinHolds
      <4>3. held[f].fork_offset \in Nat /\ db.meta.current_offset \in Nat
        BY <1>1, <1>2, <2>8, <4>1, <4>2 DEF Optional, Grant, Database, Meta
      <4>4. f # e
        BY <1>4, <4>2, <4>3, NoneIsNoNumber
      <4>5. Referenced(db)
        BY <4>2, <4>3, NoneIsNoNumber DEF Referenced
      <4>6. /\ d.meta.generation = db.meta.generation /\ d.fork_edges = db.fork_edges
            /\ d.meta.current_offset >= db.meta.current_offset
        BY <1>1, <4>5 DEF Continues
      <4> QED
        BY <2>2, <2>4, <4>1, <4>2, <4>3, <4>4, <4>6
    <3> QED
      BY <3>1, <3>2
  <2> QED
    BY <2>7, <2>8 DEF PinHolds
<1>5. CASE ~Recorded /\ ~Granted
  <2>1. db' = d /\ held' = held
    BY <1>5 DEF fork_acquire
  <2> QED
    BY <1>1, <1>2, <2>1, PinKept
<1> QED
  BY <1>3, <1>4, <1>5

(* The last release of a soft-deleted stream purges it; any other leaves    *)
(* the stream and the edges of the other children as they were.             *)
LEMMA ReleaseLifecycle ==
    ASSUME LifecycleInv, NEW e \in Edges, fork_release(e)
    PROVE  Sound(db') /\ PinHolds'
<1> DEFINE released == [db EXCEPT !.fork_edges[e] = None]
           ours == /\ db.meta # None /\ db.meta.generation = held[e].generation
                   /\ db.fork_edges[e] # None
<1>1. /\ db \in Database /\ Sound(db) /\ held \in [Edges -> Optional(Grant)] /\ PinHolds
  BY TypeOKParts DEF LifecycleInv, DbOK
<1>2. /\ held[e] # None /\ held' = [held EXCEPT ![e].returned = TRUE]
      /\ db' = IF ours THEN purge_after_release(released) ELSE db
  BY DEF fork_release
<1>3. held[e] \in Grant
  BY <1>1, <1>2 DEF Optional
<1>4. held'[e].returned /\ \A f \in Edges \ {e} : held'[f] = held[f]
  BY <1>1, <1>2, <1>3 DEF Grant
<1>5. /\ released.meta = db.meta /\ released \in Database
      /\ released.fork_edges[e] = None
      /\ \A f \in Edges \ {e} : released.fork_edges[f] = db.fork_edges[f]
  BY <1>1 DEF Database, Optional
<1>6. \A f \in Edges : held'[f] # None /\ ~held'[f].returned =>
         /\ f # e /\ held'[f] = held[f]
         /\ db.meta # None /\ db.meta.generation = held[f].generation
         /\ db.fork_edges[f] = held[f].fork_offset
         /\ held[f].fork_offset <= db.meta.current_offset
         /\ held[f].fork_offset \in Nat
  BY <1>1, <1>4 DEF PinHolds, Optional, Grant
<1>7. CASE ~ours
  BY <1>1, <1>2, <1>6, <1>7 DEF PinHolds
<1>8. CASE ours /\ released.meta.soft_deleted /\ fork_edge_count(released) = 0
  <2>1. db' = purge
    BY <1>2, <1>8 DEF purge_after_release
  <2>2. \A f \in Edges : released.fork_edges[f] = None
    BY <1>8, CountIsPositive DEF Referenced
  <2>3. \A f \in Edges : ~(held'[f] # None /\ ~held'[f].returned)
    BY <1>5, <1>6, <2>2, NoneIsNoNumber
  <2> QED
    BY <2>1, <2>3, PurgeSound DEF PinHolds
<1>9. CASE ours /\ ~(released.meta.soft_deleted /\ fork_edge_count(released) = 0)
  <2>1. db' = released
    BY <1>2, <1>9 DEF purge_after_release
  <2>2. released.meta.soft_deleted => Referenced(released)
    BY <1>9, CountIsPositive
  <2> HIDE DEF released
  <2>3. Sound(released)
    BY <1>1, <1>5, <1>9, <2>2 DEF Sound, EdgesWithin
  <2> QED
    BY <1>5, <1>6, <2>1, <2>3 DEF PinHolds
<1> QED
  BY <1>7, <1>8, <1>9

(* A write that keeps the row, its edges and at least its length. *)
LEMMA WriteSound ==
    ASSUME NEW d \in Database, NEW new \in Database, Sound(d), d.meta # None,
           new.meta # None, new.meta.generation = d.meta.generation,
           new.meta.soft_deleted = d.meta.soft_deleted,
           new.fork_edges = d.fork_edges,
           new.meta.current_offset >= d.meta.current_offset
    PROVE  Sound(new) /\ Continues(d, new)
  BY ContinuesStep

(* Every step keeps the life cycle invariant. *)
LEMMA LifecycleStep == LifecycleInv /\ [Next]_vars => LifecycleInv'
<1> SUFFICES ASSUME LifecycleInv, [Next]_vars PROVE LifecycleInv'
  OBVIOUS
<1>1. TypeOK /\ TypeOK' /\ Sound(db) /\ PinHolds
  BY TypeStep DEF LifecycleInv
<1>2. /\ DbOK(db, clock, gens) /\ db \in Database /\ db' \in Database /\ gens \in Nat
      /\ touches \subseteq boot .. clock /\ clock \in Nat /\ boot \in 0 .. clock
  BY <1>1, TypeOKParts, TypeOKPartsPrime DEF DbOK, Sampled
<1>3. \A now : LET d == visible_meta_while_locked(db, now)
               IN  d \in Database /\ Sound(d) /\ Continues(db, d) /\ DbOK(d, clock, gens)
  BY <1>1, <1>2, VisibleOK, VisibleSound DEF DbOK
<1>4. \A now \in Sampled : now \in Nat
  BY <1>2 DEF Sampled
<1>5. SUFFICES Sound(db') /\ PinHolds'
  BY <1>1 DEF LifecycleInv
<1>6. ASSUME NEW d \in Database, Continues(db, d), Sound(db'), Continues(d, db'), held' = held
      PROVE  Sound(db') /\ PinHolds'
  BY <1>1, <1>2, <1>6, ContinuesTransitive, PinKept
<1>7. ASSUME db' = db, held' = held
      PROVE  Sound(db') /\ PinHolds'
  BY <1>1, <1>7 DEF PinHolds
<1>8. ASSUME NEW r \in PutRequests, NEW now \in Sampled, handle_put(r, now)
      PROVE  Sound(db') /\ PinHolds'
  <2> DEFINE d == visible_meta_while_locked(db, now)
             created == [d EXCEPT !.meta = create_meta(r, gens + 1, now)]
  <2>1. d \in Database /\ Sound(d) /\ Continues(db, d) /\ held' = held
    BY <1>3, <1>8 DEF handle_put
  <2>2. CASE d.meta # None
    <3>1. db' = d
      BY <1>8, <2>2 DEF handle_put
    <3> QED
      BY <1>1, <1>2, <2>1, <3>1, PinKept
  <2>3. CASE d.meta = None
    <3>1. d = purge /\ ~Referenced(d)
      BY <2>1, <2>3, PurgeSound DEF Sound
    <3>2. db' = IF r.size = 0 THEN created
                ELSE append_message(created, r.size, now, None, None)
      BY <1>8, <2>3 DEF handle_put
    <3>3. Created(d, gens, db', r.size, now)
      <4> HIDE DEF d
      <4> QED BY <1>2, <1>4, <2>1, <3>2, Create
    <3>4. db'.meta # None /\ ~db'.meta.soft_deleted /\ db'.fork_edges = d.fork_edges
      BY <3>3 DEF Created
    <3>5. Sound(db')
      BY <3>1, <3>4 DEF Sound, EdgesWithin, Referenced
    <3>6. Continues(d, db')
      BY <3>1 DEF Continues
    <3> QED
      BY <1>6, <2>1, <3>5, <3>6
  <2> QED
    BY <2>2, <2>3
<1>9. ASSUME NEW r \in PostRequests, NEW now \in Sampled, handle_post(r, now)
      PROVE  Sound(db') /\ PinHolds'
  <2> DEFINE d == visible_meta_while_locked(db, now)
  <2>1. d \in Database /\ Sound(d) /\ Continues(db, d) /\ held' = held
    BY <1>3, <1>9 DEF handle_post
  <2>2. CASE post_reply(d, r, now) = "accepted"
    <3>1. d.meta # None /\ db' \in posted(d, r, now)
      BY <1>9, <2>2 DEF handle_post, post_reply
    <3> HIDE DEF d
    <3>2. /\ db'.meta # None /\ db'.meta.generation = d.meta.generation
          /\ db'.meta.soft_deleted = d.meta.soft_deleted
          /\ db'.fork_edges = d.fork_edges /\ db'.meta \in Meta
          /\ db'.meta.current_offset > d.meta.current_offset
      <4>1. r \in PostRequests /\ now \in Nat
        BY <1>4, <1>9
      <4>2. PostEffect(d, r, now, db')
        BY <2>1, <3>1, <4>1, Posted
      <4> QED
        BY <4>2 DEF PostEffect
    <3>3. db'.meta.current_offset >= d.meta.current_offset
      <4>1. db'.meta.current_offset \in Nat /\ d.meta.current_offset \in Nat
        BY <2>1, <3>1, <3>2 DEF Database, Optional, Meta
      <4> QED
        BY <3>2, <4>1
    <3>4. Sound(db') /\ Continues(d, db')
      BY <1>2, <2>1, <3>1, <3>2, <3>3, WriteSound
    <3> QED
      BY <1>6, <2>1, <3>4
  <2>3. CASE post_reply(d, r, now) # "accepted"
    <3>1. db' = d
      BY <1>9, <2>3 DEF handle_post
    <3> QED
      BY <1>1, <1>2, <2>1, <3>1, PinKept
  <2> QED
    BY <2>2, <2>3
<1>10. ASSUME NEW p \in Optional(ProducerHeaders), NEW now \in Sampled,
              handle_close_only(p, now)
       PROVE  Sound(db') /\ PinHolds'
  <2> DEFINE d == visible_meta_while_locked(db, now)
  <2>1. d \in Database /\ Sound(d) /\ Continues(db, d) /\ held' = held
    BY <1>3, <1>10 DEF handle_close_only
  <2>2. CASE close_reply(d, p, now) = "accepted"
    <3>1. d.meta # None /\ db' \in close_only(d, p, now)
      BY <1>10, <2>2 DEF handle_close_only, close_reply
    <3> HIDE DEF d
    <3>2. /\ db'.meta # None /\ db'.meta.generation = d.meta.generation
          /\ db'.meta.soft_deleted = d.meta.soft_deleted
          /\ db'.fork_edges = d.fork_edges
          /\ db'.meta.current_offset = d.meta.current_offset
      <4>1. now \in Nat
        BY <1>4
      <4>2. CloseEffect(d, p, db')
        BY <2>1, <3>1, <4>1, Closed
      <4> QED
        BY <4>2 DEF CloseEffect
    <3>3. db'.meta.current_offset >= d.meta.current_offset
      BY <2>1, <3>1, <3>2 DEF Database, Optional, Meta
    <3>4. Sound(db') /\ Continues(d, db')
      BY <1>2, <2>1, <3>1, <3>2, <3>3, WriteSound
    <3> QED
      BY <1>6, <2>1, <3>4
  <2>3. CASE close_reply(d, p, now) # "accepted"
    <3>1. db' = d
      BY <1>10, <2>3 DEF handle_close_only
    <3> QED
      BY <1>1, <1>2, <2>1, <3>1, PinKept
  <2> QED
    BY <2>2, <2>3
<1>11. CASE handle_delete
  <2> DEFINE d == visible_meta_while_locked(db, clock)
  <2>1. /\ d \in Database /\ Sound(d) /\ Continues(db, d) /\ DbOK(d, clock, gens)
        /\ held' = held
    BY <1>3, <1>11 DEF handle_delete
  <2>2. CASE Live(d)
    <3>1. db' = retire(d)
      BY <1>11, <2>2 DEF handle_delete
    <3>2. Sound(db') /\ Continues(d, db')
      BY <2>1, <2>2, <3>1, RetireSound DEF Live
    <3> QED
      BY <1>6, <2>1, <3>2
  <2>3. CASE ~Live(d)
    <3>1. db' = d
      BY <1>11, <2>3 DEF handle_delete
    <3> QED
      BY <1>1, <1>2, <2>1, <3>1, PinKept
  <2> QED
    BY <2>2, <2>3
<1>12. ASSUME NEW now \in Sampled, visible_meta(now)
       PROVE  Sound(db') /\ PinHolds'
  BY <1>1, <1>2, <1>3, <1>12, PinKept DEF visible_meta
<1>13. CASE read_snapshot
  BY <1>7, <1>13 DEF read_snapshot
<1>14. ASSUME NEW now \in touches, touch_access(now)
       PROVE  Sound(db') /\ PinHolds'
  <2>1. db' = touch(db, now) /\ held' = held /\ now \in Nat
    BY <1>2, <1>14 DEF touch_access
  <2>2. CASE db.meta = None
    BY <1>7, <2>1, <2>2 DEF touch
  <2>3. CASE db.meta # None
    <3>1. db.meta \in Meta
      BY <1>2, <2>3 DEF Database, Optional
    <3>2. /\ db'.meta # None /\ db'.fork_edges = db.fork_edges
          /\ db'.meta = [db.meta EXCEPT !.last_accessed_at = now]
      BY <1>2, <2>1, <2>3, Touch
    <3>3. /\ db'.meta.generation = db.meta.generation
          /\ db'.meta.soft_deleted = db.meta.soft_deleted
          /\ db'.meta.current_offset >= db.meta.current_offset
      BY <3>1, <3>2 DEF Meta
    <3>4. Sound(db') /\ Continues(db, db')
      BY <1>1, <1>2, <2>3, <3>2, <3>3, WriteSound
    <3> QED
      BY <1>1, <1>2, <2>1, <3>4, PinKept
  <2> QED
    BY <2>2, <2>3
<1>15. CASE Restart
  BY <1>7, <1>15 DEF Restart
<1>16. CASE Tick
  BY <1>7, <1>16 DEF Tick
<1>17. CASE UNCHANGED vars
  BY <1>7, <1>17 DEF vars
<1> QED
  BY <1>1, <1>8, <1>9, <1>10, <1>11, <1>12, <1>13, <1>14, <1>15, <1>16, <1>17,
     AcquireLifecycle, ReleaseLifecycle DEF Next

(* The life cycle invariant holds in every reachable state. *)
LEMMA LifecycleInvariant == Spec => []LifecycleInv
<1>1. Init => LifecycleInv
  <2> SUFFICES ASSUME Init PROVE LifecycleInv
    OBVIOUS
  <2>1. TypeOK
    BY TypeInit
  <2>2. Sound(db) /\ PinHolds
    BY PurgeSound DEF Init, PinHolds
  <2> QED
    BY <2>1, <2>2 DEF LifecycleInv
<1> QED
  BY <1>1, LifecycleStep, PTL DEF Spec

(* handle_delete, a lazy expiry and a retried fork_acquire never take from  *)
(* a fork the source it was granted, whatever was sampled when.             *)
THEOREM ForksKeepTheirSource == Spec => []PinHolds
<1>1. LifecycleInv => PinHolds
  BY DEF LifecycleInv
<1> QED
  BY <1>1, LifecycleInvariant, PTL

(* purge and fork_release leave nothing of a stream behind. *)
THEOREM PurgesAreComplete == Spec => []NothingOutlivesMeta
<1>1. LifecycleInv => NothingOutlivesMeta
  BY DEF LifecycleInv, Sound, NothingOutlivesMeta
<1> QED
  BY <1>1, LifecycleInvariant, PTL

(* A soft-deleted stream is there only for an edge, so its path is free     *)
(* again after the last fork_release.                                       *)
THEOREM LastReleasePurges == Spec => []NoZombie
<1>1. LifecycleInv => NoZombie
  BY CountIsPositive DEF LifecycleInv, Sound, NoZombie
<1> QED
  BY <1>1, LifecycleInvariant, PTL

-----------------------------------------------------------------------------
(* What a step does to the log *)

(* Same log, producers, Stream-Seq, closing and expiry; a deletion is not   *)
(* undone.                                                                  *)
Quiet(d1, d2) ==
    /\ d1.meta # None /\ d2.meta # None
    /\ d2.messages = d1.messages /\ d2.producers = d1.producers
    /\ d2.meta.generation = d1.meta.generation
    /\ d2.meta.last_seq = d1.meta.last_seq
    /\ d2.meta.closed = d1.meta.closed /\ d2.meta.closed_by = d1.meta.closed_by
    /\ d1.meta.soft_deleted => d2.meta.soft_deleted
    /\ SameExpiry(d1, d2)

LogUntouched(d1, d2) == d2 = d1 \/ Quiet(d1, d2) \/ d2 = purge

(* An expiry or a DELETE leaves the log alone or purges it. *)
LEMMA RetireQuiet ==
    ASSUME NEW d \in Database, d.meta # None
    PROVE  LogUntouched(d, retire(d)) /\ ~Live(retire(d))
<1>1. CASE Referenced(d)
  <2> DEFINE s == [d EXCEPT !.meta.soft_deleted = TRUE]
  <2>1. /\ s.meta = [d.meta EXCEPT !.soft_deleted = TRUE] /\ s.meta # None
        /\ s.messages = d.messages /\ s.producers = d.producers
    BY SoftDeleted
  <2>2. d.meta \in Meta
    BY DEF Database, Optional
  <2>3. retire(d) = s
    BY <1>1, Retire
  <2> HIDE DEF s
  <2>4. /\ s.meta.soft_deleted /\ s.meta.generation = d.meta.generation
        /\ s.meta.last_seq = d.meta.last_seq
        /\ s.meta.closed = d.meta.closed /\ s.meta.closed_by = d.meta.closed_by
        /\ SameExpiry(d, s)
    BY <2>1, <2>2 DEF Meta, SameExpiry
  <2> QED
    BY <2>1, <2>3, <2>4 DEF Quiet, LogUntouched, Live
<1>2. CASE ~Referenced(d)
  BY <1>2, Retire, PurgeSound DEF LogUntouched, Live
<1> QED
  BY <1>1, <1>2

(* A stream found live is the one that was there: an expiry either removes  *)
(* it or marks it.                                                          *)
LEMMA VisibleQuiet ==
    ASSUME NEW d \in Database, NEW now
    PROVE  LET v == visible_meta_while_locked(d, now)
           IN  LogUntouched(d, v) /\ (Live(v) => v = d)
  BY RetireQuiet DEF visible_meta_while_locked, LogUntouched

(* Every step leaves the log, removes it, begins one, appends or closes.    *)
Creates == \E now \in Sampled, size \in Nat :
               gens' = gens + 1 /\ Created(purge, gens, db', size, now)
Appends == \E r \in PostRequests, now \in Sampled :
               post_reply(db, r, now) = "accepted" /\ db' \in posted(db, r, now)
Closes == \E p \in Optional(ProducerHeaders), now \in Sampled :
               close_reply(db, p, now) = "accepted" /\ db' \in close_only(db, p, now)

(* The classification, one step per handler. *)
LEMMA StepCases ==
    ASSUME LifecycleInv, [Next]_vars
    PROVE  LogUntouched(db, db') \/ Creates \/ Appends \/ Closes
<1>1. /\ DbOK(db, clock, gens) /\ db \in Database /\ gens \in Nat
      /\ touches \subseteq boot .. clock /\ clock \in Nat /\ boot \in 0 .. clock
      /\ Sound(db)
  BY TypeOKParts DEF DbOK, LifecycleInv, Sampled
<1>2. \A now : LET d == visible_meta_while_locked(db, now)
               IN  /\ d \in Database /\ Sound(d) /\ LogUntouched(db, d)
                   /\ Live(d) => d = db
  BY <1>1, VisibleOK, VisibleSound, VisibleQuiet DEF DbOK
<1>3. \A now \in Sampled : now \in Nat
  BY <1>1 DEF Sampled
<1>4. ASSUME NEW r \in PutRequests, NEW now \in Sampled, handle_put(r, now)
      PROVE  LogUntouched(db, db') \/ Creates
  <2> DEFINE d == visible_meta_while_locked(db, now)
             created == [d EXCEPT !.meta = create_meta(r, gens + 1, now)]
  <2>1. CASE d.meta # None
    <3>1. db' = d
      BY <1>4, <2>1 DEF handle_put
    <3> QED
      BY <1>2, <3>1
  <2>2. CASE d.meta = None
    <3>1. d = purge /\ d \in Database
      BY <1>2, <2>2 DEF Sound
    <3>2. /\ gens' = gens + 1
          /\ db' = IF r.size = 0 THEN created
                   ELSE append_message(created, r.size, now, None, None)
      BY <1>4, <2>2 DEF handle_put
    <3>3. Created(d, gens, db', r.size, now)
      <4> HIDE DEF d
      <4> QED BY <1>1, <1>3, <3>1, <3>2, Create
    <3>4. r.size \in Nat
      <4>1. r.size \in Sizes \union {0}
        BY DEF PutRequests
      <4>2. \A n \in Sizes \union {0} : n \in Nat
        BY NumbersAreNaturals
      <4> QED
        BY <4>1, <4>2, Zenon
    <3> QED
      BY <3>1, <3>2, <3>3, <3>4 DEF Creates
  <2> QED
    BY <2>1, <2>2
<1>5. ASSUME NEW r \in PostRequests, NEW now \in Sampled, handle_post(r, now)
      PROVE  LogUntouched(db, db') \/ Appends
  <2> DEFINE d == visible_meta_while_locked(db, now)
  <2>1. CASE post_reply(d, r, now) = "accepted"
    <3>1. d = db
      BY <1>2, <2>1 DEF post_reply, Live
    <3> QED
      BY <1>5, <2>1, <3>1 DEF handle_post, Appends
  <2>2. CASE post_reply(d, r, now) # "accepted"
    <3>1. db' = d
      BY <1>5, <2>2 DEF handle_post
    <3> QED
      BY <1>2, <3>1
  <2> QED
    BY <2>1, <2>2
<1>6. ASSUME NEW p \in Optional(ProducerHeaders), NEW now \in Sampled,
             handle_close_only(p, now)
      PROVE  LogUntouched(db, db') \/ Closes
  <2> DEFINE d == visible_meta_while_locked(db, now)
  <2>1. CASE close_reply(d, p, now) = "accepted"
    <3>1. d = db
      BY <1>2, <2>1 DEF close_reply, Live
    <3> QED
      BY <1>6, <2>1, <3>1 DEF handle_close_only, Closes
  <2>2. CASE close_reply(d, p, now) # "accepted"
    <3>1. db' = d
      BY <1>6, <2>2 DEF handle_close_only
    <3> QED
      BY <1>2, <3>1
  <2> QED
    BY <2>1, <2>2
<1>7. ASSUME handle_delete
      PROVE  LogUntouched(db, db')
  <2> DEFINE d == visible_meta_while_locked(db, clock)
  <2>1. CASE Live(d)
    <3>1. d = db /\ db' = retire(db) /\ db.meta # None
      BY <1>2, <1>7, <2>1 DEF handle_delete, Live
    <3> QED
      BY <1>1, <3>1, RetireQuiet
  <2>2. CASE ~Live(d)
    <3>1. db' = d
      BY <1>7, <2>2 DEF handle_delete
    <3> QED
      BY <1>2, <3>1
  <2> QED
    BY <2>1, <2>2
<1>8. ASSUME NEW now \in Sampled, visible_meta(now)
      PROVE  LogUntouched(db, db')
  BY <1>2, <1>8 DEF visible_meta
<1>9. ASSUME NEW now \in touches, touch_access(now)
      PROVE  LogUntouched(db, db')
  <2>1. db' = touch(db, now) /\ now \in Nat
    BY <1>1, <1>9 DEF touch_access
  <2>2. CASE db.meta = None
    BY <2>1, <2>2 DEF touch, LogUntouched
  <2>3. CASE db.meta # None
    <3>1. db.meta \in Meta
      BY <1>1, <2>3 DEF Database, Optional
    <3>2. /\ db'.meta # None /\ db'.messages = db.messages /\ db'.producers = db.producers
          /\ db'.meta = [db.meta EXCEPT !.last_accessed_at = now]
      BY <1>1, <2>1, <2>3, Touch
    <3>3. /\ db'.meta.generation = db.meta.generation
          /\ db'.meta.last_seq = db.meta.last_seq
          /\ db'.meta.closed = db.meta.closed /\ db'.meta.closed_by = db.meta.closed_by
          /\ SameExpiry(db, db')
      BY <3>1, <3>2 DEF Meta, SameExpiry
    <3> QED
      BY <2>3, <3>2, <3>3 DEF LogUntouched, Quiet
  <2> QED
    BY <2>2, <2>3
<1>10. ASSUME NEW e \in Edges, NEW o \in Optional(ForkOffsets),
              NEW t \in Optional(ContentTypes), fork_acquire(e, o, t)
       PROVE  LogUntouched(db, db')
  <2> DEFINE d == visible_meta_while_locked(db, clock)
  <2>1. db' = db \/ db' = d \/ (Live(d) /\ \E edges : db' = [d EXCEPT !.fork_edges = edges])
    BY <1>10 DEF fork_acquire
  <2>2. ASSUME Live(d), NEW edges, db' = [d EXCEPT !.fork_edges = edges]
        PROVE  LogUntouched(db, db')
    <3>1. d = db /\ db.meta # None
      BY <1>2, <2>2 DEF Live
    <3>2. db' = [db EXCEPT !.fork_edges = edges]
      BY <2>2, <3>1
    <3>3. db'.meta = db.meta /\ db'.messages = db.messages /\ db'.producers = db.producers
      BY <1>1, <3>2 DEF Database
    <3> QED
      BY <3>1, <3>3 DEF LogUntouched, Quiet, SameExpiry
  <2> QED
    BY <1>2, <2>1, <2>2 DEF LogUntouched
<1>11. ASSUME NEW e \in Edges, fork_release(e)
       PROVE  LogUntouched(db, db')
  <2> DEFINE released == [db EXCEPT !.fork_edges[e] = None]
  <2>1. db' = db \/ (db.meta # None /\ db' = released) \/ db' = purge
    BY <1>11 DEF fork_release, purge_after_release
  <2>2. /\ released.meta = db.meta /\ released.messages = db.messages
        /\ released.producers = db.producers
    BY <1>1 DEF Database
  <2> HIDE DEF released
  <2> QED
    BY <2>1, <2>2 DEF LogUntouched, Quiet, SameExpiry
<1>12. ASSUME read_snapshot \/ Restart \/ Tick \/ UNCHANGED vars
       PROVE  LogUntouched(db, db')
  BY <1>12 DEF read_snapshot, Restart, Tick, vars, LogUntouched
<1> QED
  BY <1>4, <1>5, <1>6, <1>7, <1>8, <1>9, <1>10, <1>11, <1>12 DEF Next

-----------------------------------------------------------------------------
(* Closing *)

(* No step reopens a closed stream, appends to it or renames its closer. *)
LEMMA ClosedStep ==
    ASSUME LifecycleInv, [Next]_vars, SameStream, db.meta.closed
    PROVE  /\ db'.meta.closed /\ db'.messages = db.messages
           /\ db'.meta.closed_by = db.meta.closed_by
<1>1. /\ db \in Database /\ db.meta # None /\ db'.meta # None
      /\ db'.meta.generation = db.meta.generation
      /\ db.meta.generation <= gens /\ db.meta.generation \in Nat /\ gens \in Nat
      /\ \A now \in Sampled : now \in Nat
  BY DEF LifecycleInv, TypeOK, SameStream, Database, Optional, Meta, Sampled
<1>2. CASE LogUntouched(db, db')
  BY <1>1, <1>2, PurgeSound DEF LogUntouched, Quiet
<1>3. ~Creates
  BY <1>1 DEF Creates, Created
<1>4. ~Appends
  BY DEF Appends, post_reply
<1>5. CASE Closes
  <2>1. PICK p \in Optional(ProducerHeaders), now \in Sampled :
           close_reply(db, p, now) = "accepted" /\ db' \in close_only(db, p, now)
    BY <1>5 DEF Closes
  <2>2. p = None
    BY <2>1 DEF close_reply
  <2>3. now \in Nat
    BY <1>1
  <2>4. CloseEffect(db, p, db')
    BY <1>1, <2>1, <2>3, Closed
  <2> QED
    BY <2>2, <2>4 DEF CloseEffect
<1> QED
  BY <1>2, <1>3, <1>4, <1>5, StepCases

(* handle_post and handle_close_only never reopen a stream, append to a     *)
(* closed one or forget who closed it, at any length of log.                *)
THEOREM ClosedStaysClosed == Spec => ClosedForGood
<1>1. LifecycleInv /\ [Next]_vars
        => [SameStream /\ db.meta.closed =>
              /\ db'.meta.closed /\ db'.messages = db.messages
              /\ db'.meta.closed_by = db.meta.closed_by]_vars
  BY ClosedStep
<1> QED
  BY <1>1, LifecycleInvariant, PTL DEF Spec, ClosedForGood

-----------------------------------------------------------------------------
(* Stream-Seq *)

(* last_seq is the greatest Stream-Seq in the log. *)
SeqBounded ==
    \A i \in DOMAIN db.messages :
        db.messages[i].stream_seq # None =>
            /\ db.meta # None /\ db.meta.last_seq # None
            /\ db.messages[i].stream_seq <= db.meta.last_seq

SeqInv == StreamSeqOrdered /\ SeqBounded

(* The elements of a log after an append. *)
LEMMA AppendElements ==
    ASSUME NEW s \in Seq(Message), NEW m \in Message
    PROVE  /\ DOMAIN s = 1 .. Len(s) /\ Len(s) \in Nat
           /\ DOMAIN Append(s, m) = 1 .. Len(s) + 1
           /\ Append(s, m)[Len(s) + 1] = m
           /\ \A i \in 1 .. Len(s) : Append(s, m)[i] = s[i]
           /\ Len(Append(s, m)) = Len(s) + 1
  OBVIOUS

(* A purged stream has no message. *)
LEMMA NoMessages == purge.messages = <<>> /\ DOMAIN purge.messages = {}
  BY DEF purge

(* Every step keeps the Stream-Seq invariant. *)
LEMMA SeqStep ==
    ASSUME LifecycleInv, SeqInv, [Next]_vars
    PROVE  SeqInv'
<1>1. /\ db \in Database /\ db.messages \in Seq(Message)
      /\ db.meta # None => db.meta \in Meta
      /\ \A now \in Sampled : now \in Nat
  BY DEF LifecycleInv, TypeOK, Database, Optional, Sampled
<1>2. CASE LogUntouched(db, db')
  BY <1>2, NoMessages DEF LogUntouched, Quiet, SeqInv, SeqBounded, StreamSeqOrdered
<1>3. CASE Creates
  <2>1. PICK now \in Sampled, size \in Nat : Created(purge, gens, db', size, now)
    BY <1>3 DEF Creates
  <2>2. CASE size = 0
    BY <2>1, <2>2, NoMessages DEF Created, SeqInv, SeqBounded, StreamSeqOrdered
  <2>3. CASE size # 0
    <3>1. PICK m \in Message : db'.messages = Append(<<>>, m) /\ m.stream_seq = None
      BY <2>1, <2>3, NoMessages DEF Created
    <3>2. \A i \in DOMAIN db'.messages : db'.messages[i].stream_seq = None
      BY <3>1
    <3> QED
      BY <3>2 DEF SeqInv, SeqBounded, StreamSeqOrdered
  <2> QED
    BY <2>2, <2>3
<1>4. CASE Appends
  <2>1. PICK r \in PostRequests, now \in Sampled :
           post_reply(db, r, now) = "accepted" /\ db' \in posted(db, r, now)
    BY <1>4 DEF Appends
  <2>2. db.meta # None /\ ~sequence_conflict(db.meta, r)
    BY <2>1 DEF post_reply, append_reply
  <2>3. PICK m \in Message :
           /\ db'.messages = Append(db.messages, m) /\ m.stream_seq = r.stream_seq
           /\ db'.meta # None
           /\ db'.meta.last_seq = IF r.stream_seq = None THEN db.meta.last_seq
                                  ELSE r.stream_seq
    <3>1. now \in Nat
      BY <1>1
    <3>2. PostEffect(db, r, now, db')
      BY <1>1, <2>1, <2>2, <3>1, Posted
    <3> QED
      BY <3>2 DEF PostEffect
  <2> DEFINE n == Len(db.messages)
  <2>4. /\ DOMAIN db.messages = 1 .. n /\ n \in Nat /\ DOMAIN db'.messages = 1 .. n + 1
        /\ db'.messages[n + 1] = m
        /\ \A i \in 1 .. n : db'.messages[i] = db.messages[i]
    BY <1>1, <2>3, AppendElements
  <2>5. /\ r.stream_seq # None => r.stream_seq \in Nat
        /\ db.meta.last_seq # None => db.meta.last_seq \in Nat
        /\ \A i \in 1 .. n : db.messages[i].stream_seq # None =>
              db.messages[i].stream_seq \in Nat
    <3>1. StreamSeqs \subseteq Nat
      BY NumbersAreNaturals
    <3>2. r.stream_seq \in StreamSeqs \union {None}
      BY DEF PostRequests, Optional
    <3>3. db.meta.last_seq \in StreamSeqs \union {None}
      BY <1>1, <2>2 DEF Meta, Optional
    <3>4. \A i \in 1 .. n : db.messages[i].stream_seq \in StreamSeqs \union {None}
      <4> TAKE i \in 1 .. n
      <4>1. db.messages[i] \in Message
        BY <1>1, <2>4
      <4> QED
        BY <4>1 DEF Message, Optional
    <3> QED
      BY <3>1, <3>2, <3>3, <3>4
  <2>6. \A i \in 1 .. n : db.messages[i].stream_seq # None /\ r.stream_seq # None
                              => db.messages[i].stream_seq < r.stream_seq
    BY <2>2, <2>4, <2>5 DEF SeqInv, SeqBounded, sequence_conflict
  <2> HIDE DEF n
  <2>7. StreamSeqOrdered'
    <3> SUFFICES ASSUME NEW i \in 1 .. n + 1, NEW j \in 1 .. n + 1, i < j,
                        db'.messages[i].stream_seq # None,
                        db'.messages[j].stream_seq # None
                 PROVE  db'.messages[i].stream_seq < db'.messages[j].stream_seq
      BY <2>4 DEF StreamSeqOrdered
    <3>1. i \in 1 .. n /\ (j \in 1 .. n \/ j = n + 1)
      BY <2>4
    <3>2. CASE j \in 1 .. n
      BY <2>4, <3>1, <3>2 DEF SeqInv, StreamSeqOrdered
    <3>3. CASE j = n + 1
      BY <2>3, <2>4, <2>6, <3>1, <3>3
    <3> QED
      BY <3>1, <3>2, <3>3
  <2>8. SeqBounded'
    <3> SUFFICES ASSUME NEW i \in 1 .. n + 1, db'.messages[i].stream_seq # None
                 PROVE  /\ db'.meta.last_seq # None
                        /\ db'.messages[i].stream_seq <= db'.meta.last_seq
      BY <2>3, <2>4 DEF SeqBounded
    <3>1. CASE i \in 1 .. n /\ r.stream_seq = None
      BY <2>3, <2>4, <3>1 DEF SeqInv, SeqBounded
    <3>2. CASE i \in 1 .. n /\ r.stream_seq # None
      BY <2>3, <2>4, <2>5, <2>6, <3>2
    <3>3. CASE i = n + 1
      BY <2>3, <2>4, <2>5, <3>3
    <3> QED
      BY <2>4, <3>1, <3>2, <3>3
  <2> QED
    BY <2>7, <2>8 DEF SeqInv
<1>5. CASE Closes
  <2>1. PICK p \in Optional(ProducerHeaders), now \in Sampled :
           close_reply(db, p, now) = "accepted" /\ db' \in close_only(db, p, now)
    BY <1>5 DEF Closes
  <2>2. db.meta # None /\ now \in Nat
    BY <1>1, <2>1 DEF close_reply
  <2>3. /\ db'.meta # None /\ db'.messages = db.messages
        /\ db'.meta.last_seq = db.meta.last_seq
    <3>1. CloseEffect(db, p, db')
      BY <1>1, <2>1, <2>2, Closed
    <3> QED
      BY <3>1 DEF CloseEffect
  <2> QED
    BY <2>3 DEF SeqInv, SeqBounded, StreamSeqOrdered
<1> QED
  BY <1>2, <1>3, <1>4, <1>5, StepCases

(* Stream-Seq values increase along a log of any length, since handle_post  *)
(* compares with last_seq in the transaction that appends.                  *)
THEOREM StreamSeqIncreases == Spec => []StreamSeqOrdered
<1>1. Init => SeqInv
  BY NoMessages DEF Init, SeqInv, SeqBounded, StreamSeqOrdered
<1>2. LifecycleInv /\ SeqInv /\ [Next]_vars => SeqInv'
  BY SeqStep
<1>3. SeqInv => StreamSeqOrdered
  BY DEF SeqInv
<1> QED
  BY <1>1, <1>2, <1>3, LifecycleInvariant, PTL DEF Spec

-----------------------------------------------------------------------------
(* Dedup *)

(* Producer p's log at time c: what DedupRemembers says of one producer.    *)
Expired(m, c) == m.ts + PRODUCER_STATE_TTL_MS < c

Remembered(d, p, c) ==
    \/ d.producers[p] = None /\ \A i \in DOMAIN d.messages : ~By(d, p, i)
    \/ \E i \in DOMAIN d.messages :
          /\ Latest(d, p, i)
          /\ LET m == d.messages[i]
             IN  IF d.producers[p] = None THEN Expired(m, c)
                 ELSE d.producers[p] = [epoch |-> m.by.epoch, last_seq |-> m.by.seq,
                                        last_updated |-> m.ts]

(* Message j is not from an older epoch and sequence than message i.        *)
Newer(new, old) ==
    new.epoch > old.epoch \/ (new.epoch = old.epoch /\ new.seq > old.seq)

Ordered(d, p, c) ==
    \A i, j \in DOMAIN d.messages :
        i < j /\ By(d, p, i) /\ By(d, p, j)
            /\ (\A k \in i .. j - 1 : By(d, p, k) => ~Expired(d.messages[k], c))
        => Newer(d.messages[j].by, d.messages[i].by)

Accounted(d, p, c, j) ==
    LET new == d.messages[j].by
    IN  \/ new.seq = 0 /\ \A i \in 1 .. j - 1 : ~By(d, p, i)
        \/ \E i \in 1 .. j - 1 :
              /\ By(d, p, i)
              /\ \A k \in i + 1 .. j - 1 : ~By(d, p, k)
              /\ \/ Follows(new, d.messages[i].by)
                 \/ new.seq = 0 /\ Expired(d.messages[i], c)

DedupOK(d, c) ==
    \A p \in Producers :
        /\ d.meta # None /\ ~d.meta.closed => Remembered(d, p, c)
        /\ Ordered(d, p, c)
        /\ \A j \in DOMAIN d.messages : By(d, p, j) => Accounted(d, p, c, j)

(* The dedup invariant says what the two properties say. *)
LEMMA DedupParts == DedupOK(db, clock) => InOrderOnce /\ DedupRemembers
  BY DEF DedupOK, Accounted, Remembered, Expired, InOrderOnce, DedupRemembers, Lapsed

(* Time only makes more of the log expire. *)
LEMMA DedupLater ==
    ASSUME NEW d \in Database, NEW c \in Nat, NEW c2 \in Nat, c <= c2, DedupOK(d, c)
    PROVE  DedupOK(d, c2)
<1>1. \A i \in DOMAIN d.messages : Expired(d.messages[i], c) => Expired(d.messages[i], c2)
  <2> TAKE i \in DOMAIN d.messages
  <2>1. d.messages[i] \in Message
    BY DEF Database
  <2> QED
    BY <2>1, NumbersAreNaturals DEF Expired, Message
<1>2. d.messages \in Seq(Message)
  BY DEF Database
<1>3. ASSUME NEW p \in Producers, Remembered(d, p, c)
      PROVE  Remembered(d, p, c2)
  BY <1>1, <1>3 DEF Remembered
<1>4. ASSUME NEW p \in Producers, Ordered(d, p, c)
      PROVE  Ordered(d, p, c2)
  <2> SUFFICES ASSUME NEW i \in DOMAIN d.messages, NEW j \in DOMAIN d.messages,
                      i < j, By(d, p, i), By(d, p, j),
                      \A k \in i .. j - 1 : By(d, p, k) => ~Expired(d.messages[k], c2)
               PROVE  Newer(d.messages[j].by, d.messages[i].by)
    BY DEF Ordered
  <2>1. \A k \in i .. j - 1 : k \in DOMAIN d.messages
    BY <1>2
  <2>2. \A k \in i .. j - 1 : By(d, p, k) => ~Expired(d.messages[k], c)
    BY <1>1, <2>1
  <2> QED
    BY <1>4, <2>2 DEF Ordered
<1>5. ASSUME NEW p \in Producers, NEW j \in DOMAIN d.messages, Accounted(d, p, c, j)
      PROVE  Accounted(d, p, c2, j)
  <2>1. \A i \in 1 .. j - 1 : i \in DOMAIN d.messages
    BY <1>2
  <2> QED
    BY <1>1, <1>5, <2>1 DEF Accounted
<1> QED
  BY <1>3, <1>4, <1>5 DEF DedupOK

(* Only the log and the producers table matter. *)
LEMMA DedupSameLog ==
    ASSUME NEW d1, NEW d2, NEW c, DedupOK(d1, c), d2.messages = d1.messages,
           d2.producers = d1.producers, d1.meta # None,
           d2.meta.closed = d1.meta.closed \/ d2.meta.closed
    PROVE  DedupOK(d2, c)
  BY DEF DedupOK, Ordered, Accounted, Remembered, By, Latest

(* A log without producers is accounted for. *)
LEMMA DedupNobody ==
    ASSUME NEW c, NEW d, d.producers = purge.producers,
           \A i \in DOMAIN d.messages : d.messages[i].by = None
    PROVE  DedupOK(d, c)
<1>1. \A p \in Producers : d.producers[p] = None
  BY DEF purge
<1>2. \A p : \A i \in DOMAIN d.messages : ~By(d, p, i)
  BY DEF By
<1> QED
  BY <1>1, <1>2 DEF DedupOK, Remembered, Ordered

(* The sweep takes rows of other producers only when they are stale.        *)
LEMMA FencedRows ==
    ASSUME NEW d \in Database, NEW now \in Nat, NEW producer \in ProducerHeaders,
           producer # None, NEW table \in fenced(d, producer, now)
    PROVE  /\ table[producer.id] = [epoch |-> producer.epoch, last_seq |-> producer.seq,
                                    last_updated |-> now]
           /\ \A p \in Producers \ {producer.id} :
                 \/ table[p] = d.producers[p]
                 \/ /\ table[p] = None
                    /\ Stale(d.producers[p], now - PRODUCER_STATE_TTL_MS)
<1>1. PICK swept \in get_producer_state(d, producer.id, now) :
          table = commit_producer_state(swept, producer, now)
  BY DEF fenced
<1> DEFINE cutoff == now - PRODUCER_STATE_TTL_MS
           others == {p \in Producers \ {producer.id} : Stale(d.producers[p], cutoff)}
<1>2. PICK S \in SUBSET others :
          swept = [p \in Producers |->
                     IF p \in S THEN None
                     ELSE IF p = producer.id THEN producer_row(d, producer.id, now)
                     ELSE d.producers[p]]
  BY <1>1 DEF get_producer_state, Swept
<1>3. producer.id \in Producers
  BY DEF ProducerHeaders
<1> QED
  BY <1>1, <1>2, <1>3 DEF commit_producer_state

(* What the log looks like after an append. *)
Extends(d, new, m, n) ==
    /\ n \in Nat /\ n = Len(d.messages) /\ Len(new.messages) = n + 1
    /\ DOMAIN d.messages = 1 .. n /\ DOMAIN new.messages = 1 .. n + 1
    /\ new.messages[n + 1] = m
    /\ \A i \in 1 .. n : new.messages[i] = d.messages[i]

(* An append extends the log by one message. *)
LEMMA AppendedLog ==
    ASSUME NEW d \in Database, NEW new \in Database, NEW m \in Message,
           new.messages = Append(d.messages, m)
    PROVE  \E n \in Nat : Extends(d, new, m, n)
<1> DEFINE n == Len(d.messages)
<1>1. d.messages \in Seq(Message)
  BY DEF Database
<1>2. /\ n \in Nat /\ DOMAIN d.messages = 1 .. n /\ DOMAIN new.messages = 1 .. n + 1
      /\ new.messages[n + 1] = m
      /\ \A i \in 1 .. n : new.messages[i] = d.messages[i]
      /\ Len(new.messages) = n + 1
  BY <1>1, AppendElements
<1>3. Extends(d, new, m, n)
  BY <1>2 DEF Extends
<1> QED
  BY <1>2, <1>3

(* An append changes nobody's earlier messages. *)
LEMMA AppendedBy ==
    ASSUME NEW d, NEW new, NEW m, NEW n \in Nat, Extends(d, new, m, n), NEW p
    PROVE  /\ \A i \in 1 .. n : By(new, p, i) <=> By(d, p, i)
           /\ By(new, p, n + 1) <=> m.by # None /\ m.by.id = p
  BY DEF Extends, By

(* A producer that did not write keeps its account; its row may be swept.   *)
LEMMA DedupBystander ==
    ASSUME NEW d \in Database, NEW new \in Database, NEW m \in Message, NEW c \in Nat,
           NEW now \in 0 .. c, NEW p \in Producers,
           new.messages = Append(d.messages, m), ~(m.by # None /\ m.by.id = p),
           Remembered(d, p, c), Ordered(d, p, c),
           \A j \in DOMAIN d.messages : By(d, p, j) => Accounted(d, p, c, j),
           \/ new.producers[p] = d.producers[p]
           \/ /\ new.producers[p] = None
              /\ Stale(d.producers[p], now - PRODUCER_STATE_TTL_MS)
    PROVE  /\ Remembered(new, p, c) /\ Ordered(new, p, c)
           /\ \A j \in DOMAIN new.messages : By(new, p, j) => Accounted(new, p, c, j)
<1>0. PICK n \in Nat : Extends(d, new, m, n)
  BY AppendedLog
<1>1. /\ n \in Nat /\ DOMAIN d.messages = 1 .. n /\ DOMAIN new.messages = 1 .. n + 1
      /\ \A i \in 1 .. n : new.messages[i] = d.messages[i]
      /\ \A i \in 1 .. n : By(new, p, i) <=> By(d, p, i)
      /\ ~By(new, p, n + 1)
  <2>1. /\ \A i \in 1 .. n : By(new, p, i) <=> By(d, p, i)
        /\ By(new, p, n + 1) <=> m.by # None /\ m.by.id = p
    BY ONLY Extends(d, new, m, n), n \in Nat, AppendedBy
  <2>2. /\ DOMAIN d.messages = 1 .. n /\ DOMAIN new.messages = 1 .. n + 1
        /\ \A i \in 1 .. n : new.messages[i] = d.messages[i]
    BY <1>0 DEF Extends
  <2> QED
    BY <2>1, <2>2
<1>2. d.messages \in Seq(Message) /\ new.messages \in Seq(Message)
  BY DEF Database
<1>3. Len(new.messages) = n + 1 /\ Len(d.messages) = n
  BY <1>0 DEF Extends
<1>4. Remembered(new, p, c)
  <2>1. CASE d.producers[p] = None /\ \A i \in DOMAIN d.messages : ~By(d, p, i)
    <3>1. new.producers[p] = None
      BY <2>1 DEF Stale
    <3>2. \A i \in DOMAIN new.messages : ~By(new, p, i)
      BY <1>1, <2>1
    <3> QED
      BY <3>1, <3>2 DEF Remembered
  <2>2. CASE ~(d.producers[p] = None /\ \A i \in DOMAIN d.messages : ~By(d, p, i))
    <3>1. PICK i \in DOMAIN d.messages :
             /\ Latest(d, p, i)
             /\ LET k == d.messages[i]
                IN  IF d.producers[p] = None THEN Expired(k, c)
                    ELSE d.producers[p] = [epoch |-> k.by.epoch, last_seq |-> k.by.seq,
                                           last_updated |-> k.ts]
      BY <2>2 DEF Remembered
    <3>2. i \in 1 .. n /\ By(d, p, i) /\ \A k \in i + 1 .. n : ~By(d, p, k)
      BY <1>1, <1>3, <3>1 DEF Latest
    <3>3. Latest(new, p, i)
      <4>1. \A k \in i + 1 .. n + 1 : ~By(new, p, k)
        <5> TAKE k \in i + 1 .. n + 1
        <5>1. k \in i + 1 .. n \/ k = n + 1
          BY <1>1
        <5>2. k \in i + 1 .. n => k \in 1 .. n
          BY <1>1, <3>2
        <5> QED
          BY <1>1, <3>2, <5>1, <5>2
      <4> QED
        BY <1>1, <1>3, <3>2, <4>1 DEF Latest
    <3>4. new.messages[i] = d.messages[i] /\ i \in DOMAIN new.messages
      BY <1>1, <3>2
    <3>5. CASE new.producers[p] = d.producers[p]
      BY <3>1, <3>3, <3>4, <3>5 DEF Remembered
    <3>6. CASE /\ new.producers[p] = None
               /\ Stale(d.producers[p], now - PRODUCER_STATE_TTL_MS)
      <4>1. d.messages[i].ts < now - PRODUCER_STATE_TTL_MS
        BY <3>1, <3>6 DEF Stale
      <4>2. d.messages[i].ts \in Nat
        <5>1. d.messages[i] \in Message
          BY <1>2, <3>1
        <5> QED
          BY <5>1 DEF Message
      <4>3. Expired(d.messages[i], c)
        BY <4>1, <4>2, NumbersAreNaturals DEF Expired
      <4> QED
        BY <3>3, <3>4, <3>6, <4>3 DEF Remembered
    <3> QED
      BY <3>5, <3>6
  <2> QED
    BY <2>1, <2>2
<1>5. Ordered(new, p, c)
  <2> SUFFICES ASSUME NEW i \in 1 .. n + 1, NEW j \in 1 .. n + 1, i < j,
                      By(new, p, i), By(new, p, j),
                      \A k \in i .. j - 1 : By(new, p, k) => ~Expired(new.messages[k], c)
               PROVE  Newer(new.messages[j].by, new.messages[i].by)
    BY <1>1 DEF Ordered
  <2>1. i \in 1 .. n /\ j \in 1 .. n
    BY <1>1
  <2>2. \A k \in i .. j - 1 : By(d, p, k) => ~Expired(d.messages[k], c)
    <3> TAKE k \in i .. j - 1
    <3>1. k \in 1 .. n
      BY <1>1, <2>1
    <3> QED
      BY <1>1, <3>1
  <2> QED
    BY <1>1, <2>1, <2>2 DEF Ordered
<1>6. ASSUME NEW j \in 1 .. n + 1, By(new, p, j)
      PROVE  Accounted(new, p, c, j)
  <2>1. j \in 1 .. n /\ By(d, p, j)
    BY <1>1, <1>6
  <2>2. Accounted(d, p, c, j)
    BY <1>1, <2>1
  <2>3. \A i \in 1 .. j - 1 : /\ By(new, p, i) <=> By(d, p, i)
                              /\ new.messages[i] = d.messages[i]
    <3> TAKE i \in 1 .. j - 1
    <3>1. i \in 1 .. n
      BY <1>1, <2>1
    <3> QED
      BY <1>1, <3>1
  <2>4. new.messages[j] = d.messages[j]
    BY <1>1, <2>1
  <2>5. \A i \in 1 .. j - 1 : \A k \in i + 1 .. j - 1 : k \in 1 .. j - 1
    BY <1>1
  <2> QED
    BY <2>2, <2>3, <2>4, <2>5 DEF Accounted
<1> QED
  BY <1>1, <1>4, <1>5, <1>6

(* An accepted producer is new to the stream, follows its latest message,   *)
(* or was idle for longer than the retention.                               *)
LEMMA AcceptedFollows ==
    ASSUME NEW d \in Database, NEW c \in Nat, NEW now \in 0 .. c,
           NEW producer \in ProducerHeaders, Remembered(d, producer.id, c),
           verdict(d, producer, now) = "accepted"
    PROVE  \/ producer.seq = 0 /\ \A i \in DOMAIN d.messages : ~By(d, producer.id, i)
           \/ \E l \in DOMAIN d.messages :
                 /\ Latest(d, producer.id, l)
                 /\ \/ Follows(producer, d.messages[l].by)
                    \/ producer.seq = 0 /\ Expired(d.messages[l], c)
<1> DEFINE p == producer.id
           row == producer_row(d, p, now)
<1>1. producer # None /\ p \in Producers /\ producer.epoch \in Nat /\ producer.seq \in Nat
  BY NoneIsNoRow, NumbersAreNaturals DEF ProducerHeaders
<1>2. validate_producer(row, producer) = "accepted"
  BY <1>1 DEF verdict
<1>3. row = None => producer.seq = 0
  BY <1>2 DEF validate_producer
<1>4. row = d.producers[p] \/ (row = None /\ Stale(d.producers[p], now - PRODUCER_STATE_TTL_MS))
  BY DEF producer_row
<1>5. CASE d.producers[p] = None /\ \A i \in DOMAIN d.messages : ~By(d, p, i)
  BY <1>3, <1>4, <1>5
<1>6. CASE ~(d.producers[p] = None /\ \A i \in DOMAIN d.messages : ~By(d, p, i))
  <2>1. PICK l \in DOMAIN d.messages :
           /\ Latest(d, p, l)
           /\ LET k == d.messages[l]
              IN  IF d.producers[p] = None THEN Expired(k, c)
                  ELSE d.producers[p] = [epoch |-> k.by.epoch, last_seq |-> k.by.seq,
                                         last_updated |-> k.ts]
    BY <1>6 DEF Remembered
  <2>2. d.messages[l] \in Message /\ d.messages[l].ts \in Nat
    <3>1. d.messages[l] \in Message
      BY DEF Database
    <3> QED
      BY <3>1 DEF Message
  <2>3. CASE d.producers[p] = None
    BY <1>3, <1>4, <2>1, <2>3 DEF Stale
  <2>4. CASE d.producers[p] # None /\ row = None
    <3>1. d.messages[l].ts < now - PRODUCER_STATE_TTL_MS
      BY <1>4, <2>1, <2>4 DEF Stale
    <3>2. Expired(d.messages[l], c)
      BY <2>2, <3>1, NumbersAreNaturals DEF Expired
    <3> QED
      BY <1>3, <2>1, <2>4, <3>2
  <2>5. CASE row # None
    <3>1. row.epoch = d.messages[l].by.epoch /\ row.last_seq = d.messages[l].by.seq
      BY <1>4, <2>1, <2>5
    <3>2. row.epoch \in Nat
      <4>1. d.producers[p] \in ProducerState
        BY <1>1, <1>4, <2>5 DEF Database, Optional
      <4> QED
        BY <1>4, <2>5, <4>1, NumbersAreNaturals DEF ProducerState
    <3>3. \/ producer.epoch = row.epoch /\ producer.seq = row.last_seq + 1
          \/ producer.epoch > row.epoch /\ producer.seq = 0
      BY <1>1, <1>2, <2>5, <3>2 DEF validate_producer
    <3>4. Follows(producer, d.messages[l].by)
      BY <3>1, <3>3 DEF Follows
    <3> QED
      BY <2>1, <3>4
  <2> QED
    BY <2>3, <2>4, <2>5
<1> QED
  BY <1>5, <1>6

(* Epoch and sequence are compared lexicographically. *)
LEMMA NewerOrder ==
    ASSUME NEW x \in ProducerHeaders, NEW y \in ProducerHeaders, NEW z \in ProducerHeaders
    PROVE  /\ Follows(x, y) => Newer(x, y)
           /\ Newer(x, y) /\ Newer(y, z) => Newer(x, z)
<1>1. /\ x.epoch \in Nat /\ x.seq \in Nat /\ y.epoch \in Nat /\ y.seq \in Nat
      /\ z.epoch \in Nat /\ z.seq \in Nat
  BY NumbersAreNaturals DEF ProducerHeaders
<1> QED
  BY <1>1 DEF Follows, Newer

(* The account of the producer that wrote. *)
LEMMA DedupWriter ==
    ASSUME NEW d \in Database, NEW new \in Database, NEW m \in Message, NEW c \in Nat,
           NEW now \in 0 .. c, NEW producer \in ProducerHeaders, NEW p, p = producer.id,
           new.messages = Append(d.messages, m), m.by = producer, m.ts = now,
           new.producers[p] = [epoch |-> producer.epoch, last_seq |-> producer.seq,
                               last_updated |-> now],
           verdict(d, producer, now) = "accepted",
           Remembered(d, p, c), Ordered(d, p, c),
           \A j \in DOMAIN d.messages : By(d, p, j) => Accounted(d, p, c, j)
    PROVE  /\ Remembered(new, p, c) /\ Ordered(new, p, c)
           /\ \A j \in DOMAIN new.messages : By(new, p, j) => Accounted(new, p, c, j)
<1>0. PICK n \in Nat : Extends(d, new, m, n)
  BY AppendedLog
<1>1. /\ n \in Nat /\ DOMAIN d.messages = 1 .. n /\ DOMAIN new.messages = 1 .. n + 1
      /\ new.messages[n + 1] = m
      /\ \A i \in 1 .. n : new.messages[i] = d.messages[i]
      /\ \A i \in 1 .. n : By(new, p, i) <=> By(d, p, i)
      /\ By(new, p, n + 1)
  <2>1. /\ \A i \in 1 .. n : By(new, p, i) <=> By(d, p, i)
        /\ By(new, p, n + 1) <=> m.by # None /\ m.by.id = p
    BY ONLY Extends(d, new, m, n), n \in Nat, AppendedBy
  <2>2. /\ DOMAIN d.messages = 1 .. n /\ DOMAIN new.messages = 1 .. n + 1
        /\ \A i \in 1 .. n : new.messages[i] = d.messages[i]
        /\ new.messages[n + 1] = m
    BY <1>0 DEF Extends
  <2>3. producer # None
    BY NoneIsNoRow
  <2> QED
    BY <2>1, <2>2, <2>3
<1>2. d.messages \in Seq(Message) /\ new.messages \in Seq(Message)
  BY DEF Database
<1>3. Len(new.messages) = n + 1 /\ Len(d.messages) = n
  BY <1>0 DEF Extends
<1>4. \/ producer.seq = 0 /\ \A i \in 1 .. n : ~By(d, p, i)
      \/ \E l \in 1 .. n : /\ By(d, p, l)
                           /\ \A k \in l + 1 .. n : ~By(d, p, k)
                           /\ \/ Follows(producer, d.messages[l].by)
                              \/ producer.seq = 0 /\ Expired(d.messages[l], c)
  <2>1. \/ producer.seq = 0 /\ \A i \in DOMAIN d.messages : ~By(d, p, i)
        \/ \E l \in DOMAIN d.messages :
                 /\ Latest(d, p, l)
                 /\ \/ Follows(producer, d.messages[l].by)
                    \/ producer.seq = 0 /\ Expired(d.messages[l], c)
    BY AcceptedFollows
  <2> QED
    BY <1>1, <1>3, <2>1 DEF Latest
<1>5. \A i \in 1 .. n : By(d, p, i) => d.messages[i].by \in ProducerHeaders
  <2> TAKE i \in 1 .. n
  <2>1. d.messages[i] \in Message
    BY <1>1, <1>2
  <2> QED
    BY <2>1 DEF Message, Optional, By
<1>6. Remembered(new, p, c)
  <2>1. \A k \in n + 1 + 1 .. Len(new.messages) : FALSE
    BY <1>1, <1>3
  <2>2. Latest(new, p, n + 1) /\ n + 1 \in DOMAIN new.messages
    BY <1>1, <1>3, <2>1 DEF Latest
  <2>3. new.producers[p] # None
    <3>1. p \in Producers /\ producer.epoch \in Epochs /\ producer.seq \in Seqs /\ now \in Int
      BY DEF ProducerHeaders
    <3>2. new.producers[p] \in ProducerState
      BY <3>1 DEF ProducerState
    <3> QED
      BY <3>2, NoneIsNoRow
  <2> QED
    BY <1>1, <2>2, <2>3 DEF Remembered
<1>7. Ordered(new, p, c)
  <2> SUFFICES ASSUME NEW i \in 1 .. n + 1, NEW j \in 1 .. n + 1, i < j,
                      By(new, p, i), By(new, p, j),
                      \A k \in i .. j - 1 : By(new, p, k) => ~Expired(new.messages[k], c)
               PROVE  Newer(new.messages[j].by, new.messages[i].by)
    BY <1>1 DEF Ordered
  <2>1. i \in 1 .. n /\ By(d, p, i)
    BY <1>1
  <2>2. \A k \in i .. j - 1 : By(d, p, k) => ~Expired(d.messages[k], c)
    <3> TAKE k \in i .. j - 1
    <3>1. k \in 1 .. n
      BY <1>1, <2>1
    <3> QED
      BY <1>1, <3>1
  <2>3. CASE j \in 1 .. n
    BY <1>1, <2>1, <2>2, <2>3 DEF Ordered
  <2>4. CASE j = n + 1
    <3>1. PICK l \in 1 .. n :
             /\ By(d, p, l)
             /\ \A k \in l + 1 .. n : ~By(d, p, k)
             /\ \/ Follows(producer, d.messages[l].by)
                \/ producer.seq = 0 /\ Expired(d.messages[l], c)
      BY <1>4, <2>1
    <3>2. i <= l
      BY <1>1, <2>1, <3>1
    <3>3. ~Expired(d.messages[l], c)
      <4>1. l \in i .. j - 1
        BY <1>1, <2>4, <3>2
      <4> QED
        BY <2>2, <3>1, <4>1
    <3>4. Newer(producer, d.messages[l].by)
      BY <1>5, <3>1, <3>3, NewerOrder
    <3>5. CASE i = l
      BY <1>1, <2>1, <2>4, <3>4, <3>5
    <3>6. CASE i < l
      <4>1. \A k \in i .. l - 1 : k \in i .. j - 1
        BY <1>1, <2>4, <3>1
      <4>2. Newer(d.messages[l].by, d.messages[i].by)
        BY <1>1, <2>1, <2>2, <3>1, <3>6, <4>1 DEF Ordered
      <4>3. Newer(producer, d.messages[i].by)
        BY <1>5, <2>1, <3>1, <3>4, <4>2, NewerOrder
      <4> QED
        BY <1>1, <2>1, <2>4, <4>3
    <3> QED
      BY <1>1, <2>1, <3>1, <3>2, <3>5, <3>6
  <2> QED
    BY <1>1, <2>3, <2>4
<1>8. ASSUME NEW j \in 1 .. n + 1, By(new, p, j)
      PROVE  Accounted(new, p, c, j)
  <2>3. \A i \in 1 .. j - 1 : /\ i \in 1 .. n
                              /\ By(new, p, i) <=> By(d, p, i)
                              /\ new.messages[i] = d.messages[i]
    <3> TAKE i \in 1 .. j - 1
    <3>1. i \in 1 .. n
      BY <1>1
    <3> QED
      BY <1>1, <3>1
  <2>5. \A i \in 1 .. j - 1 : \A k \in i + 1 .. j - 1 : k \in 1 .. j - 1
    BY <1>1
  <2>6. CASE j \in 1 .. n
    <3>1. Accounted(d, p, c, j) /\ new.messages[j] = d.messages[j]
      BY <1>1, <1>8, <2>6
    <3> QED
      BY <2>3, <2>5, <3>1 DEF Accounted
  <2>7. CASE j = n + 1
    <3>1. j - 1 = n /\ new.messages[j].by = producer
      BY <1>1, <2>7
    <3>2. CASE producer.seq = 0 /\ \A i \in 1 .. n : ~By(d, p, i)
      BY <2>3, <3>1, <3>2 DEF Accounted
    <3>3. ASSUME NEW l \in 1 .. n, By(d, p, l), \A k \in l + 1 .. n : ~By(d, p, k),
                 \/ Follows(producer, d.messages[l].by)
                 \/ producer.seq = 0 /\ Expired(d.messages[l], c)
          PROVE  Accounted(new, p, c, j)
      <4>1. l \in 1 .. j - 1 /\ By(new, p, l) /\ new.messages[l] = d.messages[l]
        BY <2>3, <3>1, <3>3
      <4>2. \A k \in l + 1 .. j - 1 : ~By(new, p, k)
        BY <2>3, <2>5, <3>1, <3>3
      <4> QED
        BY <3>1, <3>3, <4>1, <4>2 DEF Accounted
    <3> QED
      BY <1>4, <3>2, <3>3
  <2> QED
    BY <1>1, <2>6, <2>7
<1> QED
  BY <1>1, <1>6, <1>7, <1>8

(* An accepted POST keeps the account of every producer. *)
LEMMA DedupAppend ==
    ASSUME NEW d \in Database, NEW new \in Database, NEW c \in Nat, NEW now \in 0 .. c,
           NEW r \in PostRequests, d.meta # None, ~d.meta.closed, DedupOK(d, c),
           verdict(d, r.producer, now) = "accepted", PostEffect(d, r, now, new)
    PROVE  DedupOK(new, c)
<1>1. PICK m \in Message :
         new.messages = Append(d.messages, m) /\ m.ts = now /\ m.by = r.producer
  BY DEF PostEffect
<1>2. new.producers \in fenced(d, r.producer, now) /\ now \in Nat
  BY DEF PostEffect
<1>3. r.producer = None \/ r.producer \in ProducerHeaders
  BY DEF PostRequests, Optional
<1>4. ASSUME NEW p \in Producers
      PROVE  /\ Remembered(new, p, c) /\ Ordered(new, p, c)
             /\ \A j \in DOMAIN new.messages : By(new, p, j) => Accounted(new, p, c, j)
  <2>1. /\ Remembered(d, p, c) /\ Ordered(d, p, c)
        /\ \A j \in DOMAIN d.messages : By(d, p, j) => Accounted(d, p, c, j)
    BY DEF DedupOK
  <2>2. CASE r.producer = None
    <3>1. new.producers[p] = d.producers[p]
      BY <1>2, <2>2 DEF fenced
    <3> QED
      BY <1>1, <2>1, <2>2, <3>1, DedupBystander
  <2>3. CASE r.producer \in ProducerHeaders
    <3>1. r.producer # None
      BY <2>3, NoneIsNoRow
    <3>2. /\ new.producers[r.producer.id] =
                [epoch |-> r.producer.epoch, last_seq |-> r.producer.seq,
                 last_updated |-> now]
          /\ p # r.producer.id =>
                \/ new.producers[p] = d.producers[p]
                \/ /\ new.producers[p] = None
                   /\ Stale(d.producers[p], now - PRODUCER_STATE_TTL_MS)
      BY <1>2, <2>3, <3>1, FencedRows
    <3>3. CASE p = r.producer.id
      BY <1>1, <2>1, <2>3, <3>2, <3>3, DedupWriter
    <3>4. CASE p # r.producer.id
      BY <1>1, <2>1, <2>3, <3>2, <3>4, DedupBystander
    <3> QED
      BY <3>3, <3>4
  <2> QED
    BY <1>3, <2>2, <2>3
<1> QED
  BY <1>4 DEF DedupOK

(* No step turns the clock back. *)
LEMMA ClockAdvances ==
    ASSUME TypeOK, [Next]_vars
    PROVE  clock <= clock'
<1>1. clock \in Nat
  BY DEF TypeOK
<1>2. clock' = clock \/ Tick
  BY DEF Next, vars, handle_put, handle_post, handle_close_only, handle_delete,
         visible_meta, read_snapshot, touch_access, fork_acquire, fork_release, Restart
<1> QED
  BY <1>1, <1>2 DEF Tick

(* Every step keeps the dedup invariant. *)
LEMMA DedupStep ==
    ASSUME LifecycleInv, DedupOK(db, clock), [Next]_vars
    PROVE  DedupOK(db', clock')
<1>1. /\ db \in Database /\ clock \in Nat /\ clock <= clock'
      /\ \A now \in Sampled : now \in 0 .. clock
  BY ClockAdvances DEF LifecycleInv, TypeOK, Sampled
<1>2. db' \in Database /\ clock' \in Nat
  BY LifecycleStep DEF LifecycleInv, TypeOK
<1>3. CASE LogUntouched(db, db')
  <2>1. CASE db' = db
    BY <2>1, <1>1, <1>2, DedupLater
  <2>2. CASE db' = purge
    <3>1. DedupOK(db', clock)
      BY <2>2, NoMessages, DedupNobody
    <3> QED
      BY <1>1, <1>2, <3>1, DedupLater
  <2>3. CASE Quiet(db, db')
    <3>1. DedupOK(db', clock)
      BY <2>3, DedupSameLog DEF Quiet
    <3> QED
      BY <1>1, <1>2, <3>1, DedupLater
  <2> QED
    BY <1>3, <2>1, <2>2, <2>3 DEF LogUntouched
<1>4. CASE Creates
  <2>1. PICK now \in Sampled, size \in Nat : Created(purge, gens, db', size, now)
    BY <1>4 DEF Creates
  <2>2. db'.producers = purge.producers
    BY <2>1 DEF Created
  <2>3. \A i \in DOMAIN db'.messages : db'.messages[i].by = None
    <3>1. CASE size = 0
      BY <2>1, <3>1, NoMessages DEF Created
    <3>2. CASE size # 0
      <4>1. PICK m \in Message : db'.messages = Append(<<>>, m) /\ m.by = None
        BY <2>1, <3>2, NoMessages DEF Created
      <4> QED
        BY <4>1
    <3> QED
      BY <3>1, <3>2
  <2>4. DedupOK(db', clock)
    BY <2>2, <2>3, DedupNobody
  <2> QED
    BY <1>1, <1>2, <2>4, DedupLater
<1>5. CASE Appends
  <2>1. PICK r \in PostRequests, now \in Sampled :
           post_reply(db, r, now) = "accepted" /\ db' \in posted(db, r, now)
    BY <1>5 DEF Appends
  <2>2. /\ db.meta # None /\ ~db.meta.closed
        /\ verdict(db, r.producer, now) = "accepted"
    BY <2>1 DEF post_reply, append_reply
  <2>3. now \in 0 .. clock /\ now \in Nat
    BY <1>1
  <2>4. PostEffect(db, r, now, db')
    BY <1>1, <2>1, <2>2, <2>3, Posted
  <2>5. DedupOK(db', clock)
    BY <1>1, <1>2, <2>2, <2>3, <2>4, DedupAppend
  <2> QED
    BY <1>1, <1>2, <2>5, DedupLater
<1>6. CASE Closes
  <2>1. PICK p \in Optional(ProducerHeaders), now \in Sampled :
           close_reply(db, p, now) = "accepted" /\ db' \in close_only(db, p, now)
    BY <1>6 DEF Closes
  <2>2. db.meta # None /\ now \in Nat
    BY <1>1, <2>1 DEF close_reply
  <2>3. CloseEffect(db, p, db')
    BY <1>1, <2>1, <2>2, Closed
  <2>4. db'.messages = db.messages /\ db'.meta.closed
    BY <2>3 DEF CloseEffect
  <2>5. \A q, i : By(db', q, i) <=> By(db, q, i)
    BY <2>4 DEF By
  <2>6. DedupOK(db', clock)
    BY <2>4, <2>5 DEF DedupOK, Ordered, Accounted
  <2> QED
    BY <1>1, <1>2, <2>6, DedupLater
<1> QED
  BY <1>3, <1>4, <1>5, <1>6, StepCases

(* The dedup invariant holds in every reachable state. *)
LEMMA DedupInvariant == Spec => [](LifecycleInv /\ DedupOK(db, clock))
<1>1. Init => DedupOK(db, clock)
  BY NoMessages, DedupNobody DEF Init
<1>2. LifecycleInv /\ DedupOK(db, clock) /\ [Next]_vars => DedupOK(db, clock)'
  BY DedupStep
<1> QED
  BY <1>1, <1>2, LifecycleInvariant, PTL DEF Spec

(* Exactly once, in order: for any number of producers, any retention and   *)
(* any bound of the sweep, the messages of a producer follow each other     *)
(* without a gap or a repetition unless it was idle for the retention.      *)
THEOREM ProducersWriteInOrder == Spec => []InOrderOnce
<1>1. DedupOK(db, clock) => InOrderOnce
  BY DedupParts
<1> QED
  BY <1>1, DedupInvariant, PTL

(* The producers table of an open stream summarises its log, whatever rows  *)
(* the sweeps of get_producer_state have deleted.                           *)
THEOREM TableRemembersLog == Spec => []DedupRemembers
<1>1. DedupOK(db, clock) => DedupRemembers
  BY DedupParts
<1> QED
  BY <1>1, DedupInvariant, PTL

(* The row of a producer that was heard of within the retention is there,   *)
(* and is not older than any message it still accounts for.                 *)
LEMMA RetainedVerdict ==
    ASSUME NEW d \in Database, NEW c \in Nat, NEW now \in 0 .. c,
           NEW i \in DOMAIN d.messages, NEW p \in Producers, By(d, p, i),
           Remembered(d, p, c), Ordered(d, p, c),
           \A k \in i .. Len(d.messages) : By(d, p, k) => ~Expired(d.messages[k], c)
    PROVE  verdict(d, d.messages[i].by, now) \in {"duplicate", "stale_epoch"}
<1> DEFINE n == Len(d.messages)
           producer == d.messages[i].by
           row == producer_row(d, p, now)
<1>1. n \in Nat /\ DOMAIN d.messages = 1 .. n
  BY DEF Database
<1>2. \A k \in 1 .. n : By(d, p, k) => /\ d.messages[k].by \in ProducerHeaders
                                       /\ d.messages[k].by.epoch \in Nat
                                       /\ d.messages[k].by.seq \in Nat
                                       /\ d.messages[k].ts \in Nat
  <2> TAKE k \in 1 .. n
  <2>1. d.messages[k] \in Message
    BY <1>1 DEF Database
  <2> QED
    BY <2>1, NumbersAreNaturals DEF Message, Optional, By, ProducerHeaders
<1>3. PICK l \in 1 .. n :
         /\ By(d, p, l) /\ \A k \in l + 1 .. n : ~By(d, p, k)
         /\ IF d.producers[p] = None THEN Expired(d.messages[l], c)
            ELSE d.producers[p] = [epoch |-> d.messages[l].by.epoch,
                                   last_seq |-> d.messages[l].by.seq,
                                   last_updated |-> d.messages[l].ts]
  BY <1>1 DEF Remembered, Latest
<1> HIDE DEF n
<1>4. i <= l /\ l \in i .. n
  BY <1>1, <1>3
<1>5. ~Expired(d.messages[l], c)
  BY <1>3, <1>4 DEF n
<1>6. /\ d.producers[p] # None /\ row = d.producers[p]
      /\ row.epoch = d.messages[l].by.epoch /\ row.last_seq = d.messages[l].by.seq
  <2>1. /\ d.producers[p] # None
        /\ d.producers[p] = [epoch |-> d.messages[l].by.epoch,
                             last_seq |-> d.messages[l].by.seq,
                             last_updated |-> d.messages[l].ts]
    BY <1>3, <1>5
  <2>2. ~(d.messages[l].ts < now - PRODUCER_STATE_TTL_MS)
    BY <1>2, <1>3, <1>5, NumbersAreNaturals DEF Expired
  <2>3. row = d.producers[p]
    BY <2>1, <2>2 DEF producer_row, Stale
  <2> QED
    BY <2>1, <2>3
<1>7. \/ row.epoch > producer.epoch
      \/ row.epoch = producer.epoch /\ producer.seq <= row.last_seq
  <2>1. CASE i = l
    BY <1>2, <1>3, <1>6, <2>1
  <2>2. CASE i < l
    <3>1. \A k \in i .. l - 1 : k \in i .. n
      BY <1>1, <1>3
    <3>2. Newer(d.messages[l].by, producer)
      BY <1>1, <1>3, <2>2, <3>1 DEF Ordered, n
    <3> QED
      BY <1>1, <1>2, <1>3, <1>6, <3>2 DEF Newer
  <2> QED
    BY <1>1, <1>3, <1>4, <2>1, <2>2
<1>8. /\ producer # None /\ producer.id = p
      /\ producer.epoch \in Nat /\ producer.seq \in Nat
      /\ row.epoch \in Nat /\ row.last_seq \in Nat /\ row # None
  BY <1>1, <1>2, <1>3, <1>6 DEF By
<1>9. validate_producer(row, producer) \in {"duplicate", "stale_epoch"}
  <2> HIDE DEF row, producer
  <2>1. CASE row.epoch > producer.epoch
    BY <1>8, <2>1 DEF validate_producer
  <2>2. CASE row.epoch = producer.epoch /\ producer.seq <= row.last_seq
    BY <1>8, <2>2 DEF validate_producer
  <2> QED
    BY <1>7, <2>1, <2>2
<1> QED
  BY <1>8, <1>9 DEF verdict

(* A client that lost the answer to its POST may send it again as often as  *)
(* it likes: while its producer state is retained no retry is appended or   *)
(* refused for its own Stream-Seq.                                          *)
THEOREM RetriesAreSettled == Spec => []RetrySettled
<1>1. LifecycleInv /\ DedupOK(db, clock) => RetrySettled
  <2> SUFFICES ASSUME LifecycleInv, DedupOK(db, clock),
                      NEW i \in DOMAIN db.messages, NEW now \in Sampled,
                      NEW close \in BOOLEAN,
                      db.messages[i].by # None,
                      \A k \in i .. Len(db.messages) :
                          By(db, db.messages[i].by.id, k) => ~Lapsed(k),
                      Live(visible_meta_while_locked(db, now)),
                      ~visible_meta_while_locked(db, now).meta.closed
               PROVE  LET d == visible_meta_while_locked(db, now)
                          m == db.messages[i]
                          retry == [producer |-> m.by, stream_seq |-> m.stream_seq,
                                    content_type |-> d.meta.content_type, size |-> 1,
                                    close |-> close]
                      IN  post_reply(d, retry, now) \in {"duplicate", "stale_epoch"}
    BY DEF RetrySettled
  <2> DEFINE m == db.messages[i]
             retry == [producer |-> m.by, stream_seq |-> m.stream_seq,
                       content_type |-> db.meta.content_type, size |-> 1,
                       close |-> close]
  <2>1. db \in Database /\ clock \in Nat /\ now \in 0 .. clock
    BY DEF LifecycleInv, TypeOK, Sampled
  <2>2. visible_meta_while_locked(db, now) = db
    BY <2>1, VisibleQuiet
  <2>3. db.meta # None /\ ~db.meta.soft_deleted /\ ~db.meta.closed
    BY <2>2 DEF Live
  <2>4. m.by.id \in Producers /\ By(db, m.by.id, i)
    <3>1. m \in Message
      BY <2>1 DEF Database
    <3> QED
      BY <3>1 DEF Message, Optional, ProducerHeaders, By
  <2>5. verdict(db, m.by, now) \in {"duplicate", "stale_epoch"}
    <3>1. Remembered(db, m.by.id, clock) /\ Ordered(db, m.by.id, clock)
      BY <2>3, <2>4 DEF DedupOK
    <3>2. \A k \in i .. Len(db.messages) :
              By(db, m.by.id, k) => ~Expired(db.messages[k], clock)
      BY DEF Lapsed, Expired
    <3> QED
      BY <2>1, <2>4, <3>1, <3>2, RetainedVerdict
  <2>6. post_reply(db, retry, now) = verdict(db, m.by, now)
    BY <2>3, <2>5 DEF post_reply, append_reply
  <2> QED
    BY <2>2, <2>5, <2>6
<1> QED
  BY <1>1, DedupInvariant, PTL
=============================================================================
