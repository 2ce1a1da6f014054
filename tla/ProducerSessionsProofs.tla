----------------------- MODULE ProducerSessionsProofs -----------------------
(***************************************************************************)
(* Theorems about ProducerSessions, for every value of its constants.      *)
(* The history `committed` ties the two sides together.  On the side of    *)
(* the actor, a producer's row stands for all its committed headers (Rows),*)
(* each of them has one message (Logged), and a committed close is the     *)
(* closer (Ends).  On the side of the client, everything before the number *)
(* it is at is committed (Progress) and no call is ahead of it (Underway), *)
(* so that a call is accepted once, and the answer a client listens for is *)
(* never a gap.  The stream has no expiry and the clock does not tick, so  *)
(* that nothing is forgotten (AtRest).                                     *)
(***************************************************************************)
EXTENDS ProducerSessions, StreamIsLogProofs

(* What a call with number n of session s asks for. *)
kind(s, n) == IF n = LAST THEN Plan[s] ELSE "post"
(* The session that headers belong to; a close has no message, a POST that  *)
(* closes has one.                                                          *)
client_of(h) == <<h.id, h.epoch>>
Bodiless(h) == h.seq = LAST /\ Plan[client_of(h)] = "close"
Closer(h) == h.seq = LAST /\ Plan[client_of(h)] # "post"

Call == [by : Sessions, headers : ProducerHeaders,
         what : {"post", "post_close", "close"}, attempt : Nat, listening : BOOLEAN]

ClientState ==
    [seq : 0 .. LAST, pc : {"ready", "waiting", "done", "stale_epoch", "closed"}]

(* The stream is there for good, and every producer is fresh. *)
AtRest ==
    /\ db \in Database /\ clock = 0 /\ boot = 0
    /\ db.meta # None /\ ~db.meta.soft_deleted
    /\ db.meta.ttl_seconds = None /\ db.meta.expires_at = None
    /\ \A p \in Producers :
          db.producers[p] # None => db.producers[p].last_updated = 0

(* Types, and the names of what was committed. *)
Shapes ==
    /\ client \in [Sessions -> ClientState]
    /\ calls \subseteq Call /\ faults \in Nat
    /\ committed \subseteq ProducerHeaders
    /\ \A h \in committed : client_of(h) \in Sessions /\ h.seq \in 0 .. LAST

(* A call has the headers its client was at when it sent it, and the one    *)
(* that is listened for those it is at now.                                 *)
Underway ==
    \A c \in calls :
        /\ c.headers = headers(c.by, c.headers.seq)
        /\ c.headers.seq \in 0 .. client[c.by].seq
        /\ c.what = kind(c.by, c.headers.seq)
        /\ c.listening =>
              client[c.by].pc = "waiting" /\ c.headers.seq = client[c.by].seq

(* A client listens for one call at a time. *)
OneListens ==
    \A b, c \in calls : b.listening /\ c.listening /\ b.by = c.by => b = c

(* The row of a producer is the newest epoch and sequence number of what it *)
(* committed, and everything before it in that epoch was committed too.     *)
Rows ==
    \A p \in Producers :
        LET row == db.producers[p]
        IN  /\ row = None => \A h \in committed : h.id # p
            /\ row # None =>
                  /\ \A n \in 0 .. row.last_seq :
                        [id |-> p, epoch |-> row.epoch, seq |-> n] \in committed
                  /\ \A h \in committed : h.id = p =>
                        \/ h.epoch < row.epoch
                        \/ h.epoch = row.epoch /\ h.seq <= row.last_seq

(* The log has one message for each committed POST and no other. *)
Logged ==
    /\ \A i \in DOMAIN db.messages :
          db.messages[i].by \in committed /\ ~Bodiless(db.messages[i].by)
    /\ \A i, j \in DOMAIN db.messages :
          db.messages[i].by = db.messages[j].by => i = j
    /\ \A h \in committed : ~Bodiless(h) =>
          \E i \in DOMAIN db.messages : db.messages[i].by = h

(* A committed close closed the stream and is remembered as its closer. *)
Ends ==
    /\ \A h \in committed : Closer(h) => db.meta.closed /\ db.meta.closed_by = h
    /\ db.meta.closed_by # None =>
          db.meta.closed /\ db.meta.closed_by \in committed

(* What a client believes of its own numbers, and why it stopped. *)
Progress(s) ==
    /\ \A n \in 0 .. LAST : n < client[s].seq => headers(s, n) \in committed
    /\ client[s].pc = "done" =>
          client[s].seq = LAST /\ headers(s, LAST) \in committed
    /\ client[s].pc = "stale_epoch" =>
          \E h \in committed : h.id = s[1] /\ h.epoch > s[2]
    /\ client[s].pc = "closed" =>
          /\ db.meta.closed
          /\ client[s].seq = LAST /\ Plan[s] # "post" =>
                headers(s, LAST) \notin committed

SessionsInv ==
    /\ AtRest /\ Shapes /\ Underway /\ OneListens /\ Rows /\ Logged /\ Ends
    /\ \A s \in Sessions : Progress(s)

-----------------------------------------------------------------------------

USE DEF ClientState

(* A session is a producer and an epoch. *)
LEMMA SessionNames ==
    ASSUME NEW s \in Sessions
    PROVE  s[1] \in Producers /\ s[2] \in Epochs /\ s[2] \in Nat /\ s = <<s[1], s[2]>>
<1>1. PICK p \in Producers, e \in Epochs : s = <<p, e>>
    BY SessionsAreProducers
<1>2. e \in Nat
    BY NumbersAreNaturals
<1> QED BY <1>1, <1>2

(* Headers name their session and number. *)
LEMMA HeadersAreNames ==
    ASSUME NEW s \in Sessions, NEW n \in 0 .. LAST
    PROVE  /\ headers(s, n) \in ProducerHeaders
           /\ headers(s, n).id = s[1] /\ headers(s, n).epoch = s[2]
           /\ headers(s, n).seq = n
           /\ client_of(headers(s, n)) = s
           /\ headers(s, n) # None
<1>1. headers(s, n) = [id |-> s[1], epoch |-> s[2], seq |-> n]
    BY DEF headers
<1>2. n \in Seqs
    BY SessionsAreProducers
<1>3. headers(s, n) \in ProducerHeaders
    BY <1>1, <1>2, SessionNames DEF ProducerHeaders
<1>4. headers(s, n) # None
    BY <1>3, NoneIsNoRow
<1> QED BY <1>1, <1>3, <1>4, SessionNames DEF client_of

(* The bounds are numbers. *)
LEMMA LastIsNatural == LAST \in Nat /\ MaxFaults \in Nat
BY SessionsAreProducers

(* While the clock does not tick, nothing expires and no row is swept. *)
LEMMA Calm ==
    ASSUME AtRest
    PROVE  /\ Sampled = {0}
           /\ visible_meta_while_locked(db, 0) = db
           /\ \A p \in Producers : /\ producer_row(db, p, 0) = db.producers[p]
                                   /\ get_producer_state(db, p, 0) = {db.producers}
<1>1. Sampled = {0}
    BY DEF AtRest, Sampled
<1>2. visible_meta_while_locked(db, 0) = db
    BY DEF AtRest, visible_meta_while_locked, is_expired
<1>3. \A p \in Producers : ~Stale(db.producers[p], 0 - PRODUCER_STATE_TTL_MS)
    BY NumbersAreNaturals DEF AtRest, Stale
<1>4. \A p \in Producers : producer_row(db, p, 0) = db.producers[p]
    BY <1>3 DEF producer_row
<1>5. ASSUME NEW p \in Producers
      PROVE  get_producer_state(db, p, 0) = {db.producers}
    <2>1. {q \in Producers \ {p} :
              Stale(db.producers[q], 0 - PRODUCER_STATE_TTL_MS)} = {}
        BY <1>3
    <2>2. get_producer_state(db, p, 0) = Swept(db, p, 0, {})
        BY <2>1 DEF get_producer_state
    <2>3. db.producers = [q \in Producers |-> db.producers[q]]
        BY DEF AtRest, Database
    <2>4. [q \in Producers |-> IF q \in {} THEN None
               ELSE IF q = p THEN producer_row(db, p, 0) ELSE db.producers[q]]
          = db.producers
        BY <2>3, <1>4
    <2>5. SUBSET {} = {{}}
        OBVIOUS
    <2>6. Cardinality({}) <= SWEEP_LIMIT
        BY FS_EmptySet, NumbersAreNaturals
    <2>7. Swept(db, p, 0, {}) = {db.producers}
        BY <2>4, <2>5, <2>6 DEF Swept
    <2> QED BY <2>2, <2>7
<1> QED BY <1>1, <1>2, <1>4, <1>5

(* What a call commits when the actor accepts it. *)
CommitsWrite(h, body, closes) ==
    /\ db' \in Database
    /\ db'.meta # None /\ ~db'.meta.soft_deleted
    /\ db'.meta.ttl_seconds = None /\ db'.meta.expires_at = None
    /\ db'.producers = [db.producers EXCEPT ![h.id] =
           [epoch |-> h.epoch, last_seq |-> h.seq, last_updated |-> 0]]
    /\ IF body THEN \E m \in Message : m.by = h /\ db'.messages = Append(db.messages, m)
       ELSE db'.messages = db.messages
    /\ closes => db'.meta.closed /\ db'.meta.closed_by = h
    /\ ~closes => /\ db'.meta.closed = db.meta.closed
                  /\ db'.meta.closed_by = db.meta.closed_by

(* The verdict is read off the row, and a write replaces that row alone. *)
LEMMA FencedAtRest ==
    ASSUME AtRest, NEW h \in ProducerHeaders
    PROVE  /\ h # None
           /\ verdict(db, h, 0) = validate_producer(db.producers[h.id], h)
           /\ fenced(db, h, 0) = {[db.producers EXCEPT ![h.id] =
                 [epoch |-> h.epoch, last_seq |-> h.seq, last_updated |-> 0]]}
           /\ [db.producers EXCEPT ![h.id] =
                 [epoch |-> h.epoch, last_seq |-> h.seq, last_updated |-> 0]]
                 \in [Producers -> Optional(ProducerState)]
<1>1. h # None /\ h.id \in Producers /\ h.epoch \in Epochs /\ h.seq \in Seqs
    BY NoneIsNoRow DEF ProducerHeaders
<1>2. verdict(db, h, 0) = validate_producer(db.producers[h.id], h)
    BY <1>1, Calm DEF verdict
<1>3. get_producer_state(db, h.id, 0) = {db.producers}
    BY <1>1, Calm
<1>4. fenced(db, h, 0) = {commit_producer_state(db.producers, h, 0)}
    BY <1>1, <1>3 DEF fenced
<1>5. [epoch |-> h.epoch, last_seq |-> h.seq, last_updated |-> 0] \in ProducerState
    BY <1>1 DEF ProducerState
<1>6. db.producers \in [Producers -> Optional(ProducerState)]
    BY DEF AtRest, Database
<1> QED BY <1>1, <1>2, <1>4, <1>5, <1>6 DEF commit_producer_state, Optional

(* The tail and the access time leave the rest of meta alone. *)
LEMMA MetaEffects ==
    ASSUME NEW d \in Database, d.meta \in Meta, NEW new,
           \/ \E n \in Nat : new.meta = [d.meta EXCEPT !.current_offset = n]
           \/ \E n \in Nat : new.meta = [d.meta EXCEPT !.last_accessed_at = n]
    PROVE  /\ new.meta.soft_deleted = d.meta.soft_deleted
           /\ new.meta.closed = d.meta.closed
           /\ new.meta.closed_by = d.meta.closed_by
           /\ SameExpiry(d, new)
BY DEF Meta, SameExpiry

(* An accepted POST shows CommitsWrite. *)
LEMMA PostCommits ==
    ASSUME AtRest, NEW h \in ProducerHeaders, NEW closes \in BOOLEAN,
           NEW r, r = [producer |-> h, stream_seq |-> None, size |-> 1,
                       content_type |-> db.meta.content_type, close |-> closes],
           db' \in posted(db, r, 0)
    PROVE  CommitsWrite(h, TRUE, closes)
<1>0. PICK size \in Nat, now \in Nat : size = 1 /\ now = 0
    OBVIOUS
<1> DEFINE table == [db.producers EXCEPT ![h.id] =
                 [epoch |-> h.epoch, last_seq |-> h.seq, last_updated |-> 0]]
           t == [db EXCEPT !.producers = table]
           a == append_message(t, size, now, h, None)
           z == IF closes THEN set_closed(a, h) ELSE a
<1>1. h # None /\ h \in Optional(ProducerHeaders) /\ None \in Optional(StreamSeqs)
    BY FencedAtRest DEF Optional
<1>2. fenced(db, h, 0) = {table} /\ table \in [Producers -> Optional(ProducerState)]
    BY FencedAtRest
<1>3. db \in Database /\ db.meta \in Meta /\ db.meta # None
    BY DEF AtRest, Database, Optional
<1>4. db' = touch(z, 0)
    BY <1>0, <1>2 DEF posted, set_last_seq
<1> HIDE DEF table
<1>5. /\ t \in Database /\ t.meta = db.meta /\ t.messages = db.messages
      /\ t.producers = table
    BY <1>2, <1>3, Table
<1> HIDE DEF t
<1>6. PICK m \in Message :
        /\ a \in Database /\ a.meta \in Meta /\ a.meta # None
        /\ m.by = h /\ a.messages = Append(db.messages, m) /\ a.producers = table
        /\ m.offset \in Nat
        /\ a.meta = [t.meta EXCEPT !.current_offset = m.offset]
    <2> DEFINE m == [offset |-> advance_offset(t.meta.current_offset, size), ts |-> now,
                     by |-> h, stream_seq |-> None]
    <2> HIDE DEF t
    <2>0. t \in Database /\ t.meta # None
        BY <1>3, <1>5
    <2>1. /\ a \in Database /\ a.meta \in Meta /\ a.meta # None
          /\ m \in Message /\ a.messages = Append(t.messages, m)
          /\ a.producers = t.producers
          /\ a.meta = [t.meta EXCEPT !.current_offset = m.offset]
        BY <1>1, <2>0, AppendMessage
    <2>2. m.by = h
        OBVIOUS
    <2> HIDE DEF m, a
    <2>3. m.offset \in Nat
        BY <2>1 DEF Message
    <2> QED BY <1>5, <2>1, <2>2, <2>3
<1> HIDE DEF a
<1>7. /\ a.meta.soft_deleted = db.meta.soft_deleted
      /\ a.meta.closed = db.meta.closed /\ a.meta.closed_by = db.meta.closed_by
      /\ SameExpiry(db, a)
    BY <1>3, <1>5, <1>6, MetaEffects DEF SameExpiry
<1>8. /\ z \in Database /\ z.meta \in Meta /\ z.meta # None
      /\ z.messages = a.messages /\ z.producers = a.producers
      /\ z.meta.soft_deleted = db.meta.soft_deleted
      /\ SameExpiry(db, z)
      /\ closes => z.meta.closed /\ z.meta.closed_by = h
      /\ ~closes => /\ z.meta.closed = db.meta.closed
                    /\ z.meta.closed_by = db.meta.closed_by
    <2>1. CASE closes
        <3>1. z = set_closed(a, h)
            BY <2>1
        <3> HIDE DEF z
        <3>2. /\ z \in Database /\ z.meta \in Meta /\ z.meta # None
              /\ z.messages = a.messages /\ z.producers = a.producers
              /\ z.meta = [a.meta EXCEPT !.closed = TRUE,
                                         !.closed_by = IF h = None THEN @ ELSE h]
            BY <1>1, <1>6, <3>1, SetClosed
        <3>3. /\ z.meta.soft_deleted = a.meta.soft_deleted
              /\ z.meta.closed = TRUE /\ z.meta.closed_by = h /\ SameExpiry(a, z)
            BY <1>1, <1>6, <3>2 DEF Meta, SameExpiry
        <3> QED BY <1>7, <2>1, <3>2, <3>3 DEF SameExpiry
    <2>2. CASE ~closes
        BY <1>6, <1>7, <2>2
    <2> QED BY <2>1, <2>2
<1> HIDE DEF z
<1>9. /\ db' \in Database /\ db'.meta \in Meta /\ db'.meta # None
      /\ db'.messages = z.messages /\ db'.producers = z.producers
      /\ db'.meta = [z.meta EXCEPT !.last_accessed_at = 0]
    BY <1>4, <1>8, Touch
<1>10. /\ db'.meta.soft_deleted = z.meta.soft_deleted
       /\ db'.meta.closed = z.meta.closed /\ db'.meta.closed_by = z.meta.closed_by
       /\ SameExpiry(z, db')
    BY <1>8, <1>9, MetaEffects
<1>11. db'.producers = table /\ db'.messages = Append(db.messages, m)
    BY <1>6, <1>8, <1>9
<1>12. /\ ~db'.meta.soft_deleted /\ db'.meta.ttl_seconds = None
       /\ db'.meta.expires_at = None
    BY <1>8, <1>10 DEF SameExpiry, AtRest
<1>13. /\ closes => db'.meta.closed /\ db'.meta.closed_by = h
       /\ ~closes => /\ db'.meta.closed = db.meta.closed
                     /\ db'.meta.closed_by = db.meta.closed_by
    BY <1>8, <1>10
<1> QED BY <1>6, <1>9, <1>11, <1>12, <1>13 DEF CommitsWrite, table

(* An accepted close shows CommitsWrite. *)
LEMMA CloseCommits ==
    ASSUME AtRest, NEW h \in ProducerHeaders, db' \in close_only(db, h, 0)
    PROVE  CommitsWrite(h, FALSE, TRUE)
<1> DEFINE table == [db.producers EXCEPT ![h.id] =
                 [epoch |-> h.epoch, last_seq |-> h.seq, last_updated |-> 0]]
           t == [db EXCEPT !.producers = table]
           z == set_closed(t, h)
<1>1. h # None /\ h \in Optional(ProducerHeaders)
    BY FencedAtRest DEF Optional
<1>2. fenced(db, h, 0) = {table} /\ table \in [Producers -> Optional(ProducerState)]
    BY FencedAtRest
<1>3. db \in Database /\ db.meta \in Meta /\ db.meta # None
    BY DEF AtRest, Database, Optional
<1>4. db' = touch(z, 0)
    BY <1>2 DEF close_only
<1> HIDE DEF table
<1>5. /\ t \in Database /\ t.meta = db.meta /\ t.messages = db.messages
      /\ t.producers = table
    BY <1>2, <1>3, Table
<1> HIDE DEF t
<1>6. /\ z \in Database /\ z.meta \in Meta /\ z.meta # None
      /\ z.messages = t.messages /\ z.producers = t.producers
      /\ z.meta = [t.meta EXCEPT !.closed = TRUE,
                                 !.closed_by = IF h = None THEN @ ELSE h]
    BY <1>1, <1>3, <1>5, SetClosed
<1> HIDE DEF z
<1>7. /\ z.meta.soft_deleted = db.meta.soft_deleted
      /\ z.meta.closed = TRUE /\ z.meta.closed_by = h /\ SameExpiry(db, z)
    <2>1. z.meta = [db.meta EXCEPT !.closed = TRUE,
                                   !.closed_by = IF h = None THEN @ ELSE h]
        BY <1>5, <1>6
    <2> QED BY <1>1, <1>3, <2>1 DEF Meta, SameExpiry
<1>8. /\ db' \in Database /\ db'.meta \in Meta /\ db'.meta # None
      /\ db'.messages = z.messages /\ db'.producers = z.producers
      /\ db'.meta = [z.meta EXCEPT !.last_accessed_at = 0]
    BY <1>4, <1>6, Touch
<1>9. /\ db'.meta.soft_deleted = z.meta.soft_deleted
      /\ db'.meta.closed = z.meta.closed /\ db'.meta.closed_by = z.meta.closed_by
      /\ SameExpiry(z, db')
    BY <1>6, <1>8, MetaEffects
<1>10. db'.producers = table /\ db'.messages = db.messages
    BY <1>5, <1>6, <1>8
<1>11. /\ ~db'.meta.soft_deleted /\ db'.meta.ttl_seconds = None
       /\ db'.meta.expires_at = None
    BY <1>7, <1>9 DEF SameExpiry, AtRest
<1> QED BY <1>7, <1>8, <1>9, <1>10, <1>11 DEF CommitsWrite, table

-----------------------------------------------------------------------------

(* The verdicts of validate_producer, and what each says of the row. *)
LEMMA Verdicts ==
    ASSUME AtRest, NEW h \in ProducerHeaders
    PROVE  LET row == db.producers[h.id]
               v == validate_producer(row, h)
           IN  /\ h.id \in Producers /\ h.epoch \in Nat /\ h.seq \in Nat
               /\ row # None => row.epoch \in Nat /\ row.last_seq \in Nat
               /\ \/ /\ v = "accepted" /\ h.seq = 0
                     /\ row # None => h.epoch > row.epoch
                  \/ /\ v = "accepted" /\ row # None
                     /\ h.epoch = row.epoch /\ h.seq = row.last_seq + 1
                  \/ /\ v = "duplicate" /\ row # None
                     /\ h.epoch = row.epoch /\ h.seq <= row.last_seq
                  \/ v = "stale_epoch" /\ row # None /\ h.epoch < row.epoch
                  \/ /\ v \in {"sequence_gap", "invalid_epoch_seq"} /\ h.seq > 0
                     /\ row # None => \/ h.epoch > row.epoch
                                      \/ h.epoch = row.epoch /\ h.seq > row.last_seq + 1
<1> DEFINE row == db.producers[h.id]
<1>1. h.id \in Producers /\ h.epoch \in Nat /\ h.seq \in Nat
    BY NumbersAreNaturals DEF ProducerHeaders
<1>2. row # None => row.epoch \in Nat /\ row.last_seq \in Nat
    BY <1>1, NumbersAreNaturals DEF AtRest, Database, Optional, ProducerState
<1> HIDE DEF row
<1>3. CASE row = None
    BY <1>1, <1>3 DEF validate_producer, row
<1>4. CASE row # None
    <2>1. h.epoch < row.epoch \/ h.epoch > row.epoch \/ h.epoch = row.epoch
        BY <1>1, <1>2, <1>4
    <2>2. CASE h.epoch < row.epoch
        <3>1. validate_producer(row, h) = "stale_epoch"
            BY <1>1, <1>2, <1>4, <2>2 DEF validate_producer
        <3> QED BY <1>1, <1>2, <1>4, <2>2, <3>1 DEF row
    <2>3. CASE h.epoch > row.epoch
        <3>1. validate_producer(row, h) =
                  IF h.seq = 0 THEN "accepted" ELSE "invalid_epoch_seq"
            BY <1>1, <1>2, <1>4, <2>3 DEF validate_producer
        <3> QED BY <1>1, <1>2, <1>4, <2>3, <3>1 DEF row
    <2>4. CASE h.epoch = row.epoch
        <3>1. validate_producer(row, h) =
                  IF h.seq <= row.last_seq THEN "duplicate"
                  ELSE IF h.seq = row.last_seq + 1 THEN "accepted" ELSE "sequence_gap"
            BY <1>1, <1>2, <1>4, <2>4 DEF validate_producer
        <3> QED BY <1>1, <1>2, <1>4, <2>4, <3>1 DEF row
    <2> QED BY <2>1, <2>2, <2>3, <2>4
<1> QED BY <1>3, <1>4

(* What the actor makes of a call with the headers h. *)
answer(h) ==
    IF db.meta.closed THEN IF db.meta.closed_by = h THEN "close_success" ELSE "closed"
    ELSE validate_producer(db.producers[h.id], h)

(* A step of the actor answers its call and commits what it accepts. *)
LEMMA Executed ==
    ASSUME AtRest, NEW c \in Call, execute(c, 0)
    PROVE  /\ calls' = calls \ {c} /\ UNCHANGED <<faults, clock, boot>>
           /\ IF c.listening THEN heard(c.by, answer(c.headers)) ELSE UNCHANGED client
           /\ answer(c.headers) = "accepted" =>
                 /\ ~db.meta.closed /\ committed' = committed \union {c.headers}
                 /\ CommitsWrite(c.headers, c.what # "close", c.what # "post")
           /\ answer(c.headers) # "accepted" => db' = db /\ committed' = committed
<1> DEFINE h == c.headers
           post == [producer |-> h, stream_seq |-> None, size |-> 1,
                    content_type |-> db.meta.content_type,
                    close |-> c.what = "post_close"]
           closing == c.what = "post_close"
<1>1. h \in ProducerHeaders /\ h # None
      /\ c.what \in {"post", "post_close", "close"} /\ closing \in BOOLEAN
    BY NoneIsNoRow DEF Call
<1>2. visible_meta_while_locked(db, 0) = db
    BY Calm
<1>3. verdict(db, h, 0) = validate_producer(db.producers[h.id], h)
    BY <1>1, FencedAtRest
<1>4. close_reply(db, h, 0) = answer(h)
    BY <1>1, <1>3 DEF close_reply, answer, AtRest, closed_by_matches
<1>5. post_reply(db, post, 0) = answer(h)
    <2>1. append_reply(db, post, 0) = verdict(db, h, 0)
        BY <1>1 DEF append_reply, sequence_conflict
    <2> QED BY <1>1, <1>3, <2>1 DEF post_reply, answer, AtRest, closed_by_matches
<1>6. answer(h) = "accepted" => ~db.meta.closed
    BY DEF answer
<1>7. CASE c.what = "close"
    <2>1. /\ handle_close_only(h, 0) /\ calls' = calls \ {c}
          /\ committed' = IF answer(h) = "accepted" THEN committed \union {h}
                          ELSE committed
          /\ IF c.listening THEN heard(c.by, answer(h)) ELSE UNCHANGED client
          /\ UNCHANGED faults
        BY <1>2, <1>4, <1>7 DEF execute
    <2>2. /\ UNCHANGED <<clock, boot>>
          /\ IF answer(h) = "accepted" THEN db' \in close_only(db, h, 0) ELSE db' = db
        BY <1>2, <1>4, <2>1 DEF handle_close_only
    <2>3. answer(h) = "accepted" => CommitsWrite(h, FALSE, TRUE)
        BY <1>1, <2>2, CloseCommits
    <2> QED BY <1>6, <1>7, <2>1, <2>2, <2>3
<1>8. CASE c.what # "close"
    <2>1. /\ handle_post(post, 0) /\ calls' = calls \ {c}
          /\ committed' = IF answer(h) = "accepted" THEN committed \union {h}
                          ELSE committed
          /\ IF c.listening THEN heard(c.by, answer(h)) ELSE UNCHANGED client
          /\ UNCHANGED faults
        BY <1>2, <1>5, <1>8 DEF execute
    <2>2. /\ UNCHANGED <<clock, boot>>
          /\ IF answer(h) = "accepted" THEN db' \in posted(db, post, 0) ELSE db' = db
        BY <1>2, <1>5, <2>1 DEF handle_post
    <2>3. answer(h) = "accepted" => CommitsWrite(h, TRUE, closing)
        BY <1>1, <2>2, PostCommits
    <2>4. closing = (c.what # "post")
        BY <1>1, <1>8
    <2> QED BY <1>6, <1>8, <2>1, <2>2, <2>3, <2>4
<1> QED BY <1>7, <1>8

(* An accepted call was not accepted before. *)
LEMMA AcceptedIsNew ==
    ASSUME AtRest, Shapes, Rows, NEW h \in ProducerHeaders, answer(h) = "accepted"
    PROVE  h \notin committed
<1>1. SUFFICES ASSUME h \in committed PROVE FALSE
    OBVIOUS
<1>2. validate_producer(db.producers[h.id], h) = "accepted"
    BY DEF answer
<1>3. h.id \in Producers
    BY Verdicts
<1>4. CASE db.producers[h.id] = None
    BY <1>1, <1>3, <1>4 DEF Rows
<1>5. CASE db.producers[h.id] # None
    <2>1. \/ h.epoch < db.producers[h.id].epoch
          \/ h.epoch = db.producers[h.id].epoch /\ h.seq <= db.producers[h.id].last_seq
        BY <1>1, <1>3, <1>5 DEF Rows
    <2> QED BY <1>2, <1>5, <2>1, Verdicts
<1> QED BY <1>4, <1>5

(* An accepted write keeps the row of its producer the newest. *)
LEMMA RowsAccept ==
    ASSUME AtRest, Shapes, Rows, NEW h \in ProducerHeaders, answer(h) = "accepted",
           committed' = committed \union {h},
           NEW body, NEW closes, CommitsWrite(h, body, closes)
    PROVE  Rows'
<1>1. validate_producer(db.producers[h.id], h) = "accepted"
    BY DEF answer
<1>2. h.id \in Producers /\ h.epoch \in Nat /\ h.seq \in Nat
    BY Verdicts
<1>3. db.producers \in [Producers -> Optional(ProducerState)]
    BY DEF AtRest, Database
<1> DEFINE new == [epoch |-> h.epoch, last_seq |-> h.seq, last_updated |-> 0]
           old == db.producers[h.id]
<1>4. db'.producers = [db.producers EXCEPT ![h.id] = new]
    BY DEF CommitsWrite
<1>5. db'.producers[h.id] = new
    BY <1>2, <1>3, <1>4
<1>6. new # None
    BY <1>2, NoneIsNoRow DEF ProducerState, ProducerHeaders
<1>7. h = [id |-> h.id, epoch |-> h.epoch, seq |-> h.seq]
    BY DEF ProducerHeaders
<1>8. ASSUME NEW n \in 0 .. h.seq
      PROVE  [id |-> h.id, epoch |-> h.epoch, seq |-> n] \in committed'
    <2>1. CASE n = h.seq
        BY <1>7, <2>1
    <2>2. CASE n # h.seq
        <3>1. /\ old # None /\ h.epoch = old.epoch /\ h.seq = old.last_seq + 1
              /\ old.last_seq \in Nat
            BY <1>1, <1>2, <2>2, Verdicts
        <3>2. n \in 0 .. old.last_seq
            BY <1>2, <2>2, <3>1
        <3>3. [id |-> h.id, epoch |-> old.epoch, seq |-> n] \in committed
            BY <1>2, <3>1, <3>2 DEF Rows
        <3> QED BY <3>1, <3>3
    <2> QED BY <2>1, <2>2
<1>9. ASSUME NEW g \in committed', g.id = h.id
      PROVE  g.epoch < h.epoch \/ (g.epoch = h.epoch /\ g.seq <= h.seq)
    <2>1. CASE g = h
        BY <1>2, <2>1
    <2>2. CASE g \in committed
        <3>0. g.epoch \in Nat /\ g.seq \in Nat
            BY <2>2, Verdicts DEF Shapes
        <3>1. old # None
            BY <1>2, <1>9, <2>2 DEF Rows
        <3>2. g.epoch < old.epoch \/ (g.epoch = old.epoch /\ g.seq <= old.last_seq)
            BY <1>2, <1>9, <2>2, <3>1 DEF Rows
        <3>3. /\ old.epoch \in Nat /\ old.last_seq \in Nat
              /\ \/ h.epoch > old.epoch
                 \/ h.epoch = old.epoch /\ h.seq = old.last_seq + 1
            BY <1>1, <3>1, Verdicts
        <3> HIDE DEF old
        <3> QED BY <1>2, <3>0, <3>2, <3>3
    <2> QED BY <1>9, <2>1, <2>2
<1>10. ASSUME NEW p \in Producers, p # h.id
       PROVE  /\ db'.producers[p] = db.producers[p]
              /\ \A g \in committed' : g.id = p => g \in committed
    BY <1>3, <1>4, <1>10
<1>11. new.epoch = h.epoch /\ new.last_seq = h.seq
    OBVIOUS
<1> HIDE DEF new
<1> SUFFICES ASSUME NEW p \in Producers
             PROVE  LET row == db'.producers[p]
                    IN  /\ row = None => \A g \in committed' : g.id # p
                        /\ row # None =>
                              /\ \A n \in 0 .. row.last_seq :
                                    [id |-> p, epoch |-> row.epoch, seq |-> n]
                                        \in committed'
                              /\ \A g \in committed' : g.id = p =>
                                    \/ g.epoch < row.epoch
                                    \/ g.epoch = row.epoch /\ g.seq <= row.last_seq
    BY DEF Rows
<1>12. CASE p = h.id
    BY <1>5, <1>6, <1>8, <1>9, <1>11, <1>12
<1>13. CASE p # h.id
    BY <1>10, <1>13 DEF Rows
<1> QED BY <1>12, <1>13

(* An accepted write adds its message once. *)
LEMMA LoggedAccept ==
    ASSUME AtRest, Logged, NEW h \in ProducerHeaders, h \notin committed,
           committed' = committed \union {h},
           NEW w, NEW closes, CommitsWrite(h, w # "close", closes),
           Bodiless(h) <=> w = "close"
    PROVE  Logged'
<1>0. db.messages \in Seq(Message)
    BY DEF AtRest, Database
<1>1. CASE w = "close"
    <2>1. db'.messages = db.messages
        BY <1>1 DEF CommitsWrite
    <2> QED BY <1>1, <2>1 DEF Logged
<1>2. CASE w # "close"
    <2>1. PICK m \in Message : m.by = h /\ db'.messages = Append(db.messages, m)
        BY <1>2 DEF CommitsWrite
    <2> DEFINE L == Len(db.messages)
    <2>2. /\ DOMAIN db.messages = 1 .. L /\ L \in Nat
          /\ DOMAIN db'.messages = 1 .. L + 1
          /\ \A i \in 1 .. L : db'.messages[i] = db.messages[i]
          /\ db'.messages[L + 1] = m
        BY <1>0, <2>1
    <2> HIDE DEF L
    <2>3. ASSUME NEW i \in DOMAIN db'.messages
          PROVE  \/ i \in DOMAIN db.messages /\ db'.messages[i].by = db.messages[i].by
                    /\ db'.messages[i].by \in committed
                 \/ i = L + 1 /\ db'.messages[i].by = h
        BY <2>1, <2>2 DEF Logged
    <2>4. \A i \in DOMAIN db'.messages :
             db'.messages[i].by \in committed' /\ ~Bodiless(db'.messages[i].by)
        BY <1>2, <2>3 DEF Logged
    <2>5. \A i, j \in DOMAIN db'.messages :
             db'.messages[i].by = db'.messages[j].by => i = j
        BY <2>3 DEF Logged
    <2>6. ASSUME NEW g \in committed', ~Bodiless(g)
          PROVE  \E i \in DOMAIN db'.messages : db'.messages[i].by = g
        <3>1. CASE g = h
            BY <2>1, <2>2, <3>1
        <3>2. CASE g \in committed
            <4>1. PICK i \in DOMAIN db.messages : db.messages[i].by = g
                BY <2>6, <3>2 DEF Logged
            <4> QED BY <2>2, <4>1
        <3> QED BY <2>6, <3>1, <3>2
    <2> QED BY <2>4, <2>5, <2>6 DEF Logged
<1> QED BY <1>1, <1>2

(* An accepted close is the first, and becomes the closer. *)
LEMMA EndsAccept ==
    ASSUME Ends, NEW h \in ProducerHeaders, ~db.meta.closed,
           committed' = committed \union {h}, h # None,
           NEW w, NEW body, CommitsWrite(h, body, w # "post"),
           Closer(h) <=> w # "post"
    PROVE  Ends'
<1>1. \A g \in committed : ~Closer(g)
    BY DEF Ends
<1>2. db.meta.closed_by = None
    BY DEF Ends
<1>3. CASE w = "post"
    <2>1. db'.meta.closed_by = None
        BY <1>2, <1>3 DEF CommitsWrite
    <2> QED BY <1>1, <1>3, <2>1 DEF Ends
<1>4. CASE w # "post"
    <2>1. db'.meta.closed /\ db'.meta.closed_by = h
        BY <1>4 DEF CommitsWrite
    <2> QED BY <1>1, <2>1 DEF Ends
<1> QED BY <1>3, <1>4

-----------------------------------------------------------------------------

(* What a client believes stays true while it waits or retries. *)
LEMMA ProgressKept ==
    ASSUME NEW s \in Sessions, Progress(s),
           client'[s].seq = client[s].seq,
           client'[s].pc = client[s].pc \/ client'[s].pc \in {"ready", "waiting"},
           committed \subseteq committed',
           db.meta.closed => db'.meta.closed /\ committed' = committed
    PROVE  Progress(s)'
<1>1. client'[s].pc = "closed" => client[s].pc = "closed"
    OBVIOUS
<1>2. client'[s].pc = "done" => client[s].pc = "done"
    OBVIOUS
<1>3. client'[s].pc = "stale_epoch" => client[s].pc = "stale_epoch"
    OBVIOUS
<1> QED BY <1>1, <1>2, <1>3 DEF Progress, headers

(* A call on its way is one of its session's, with what it asks for. *)
LEMMA CallNames ==
    ASSUME SessionsInv, NEW c \in calls
    PROVE  /\ c \in Call /\ c.by \in Sessions /\ c.headers \in ProducerHeaders
           /\ c.headers.seq \in 0 .. LAST
           /\ c.headers.id = c.by[1] /\ c.headers.epoch = c.by[2]
           /\ Bodiless(c.headers) <=> c.what = "close"
           /\ Closer(c.headers) <=> c.what # "post"
<1>1. c \in Call /\ c.by \in Sessions
    BY DEF SessionsInv, Shapes, Call
<1>2. c.headers.seq \in 0 .. client[c.by].seq /\ client[c.by].seq \in 0 .. LAST
    BY <1>1 DEF SessionsInv, Underway, Shapes
<1>3. c.headers.seq \in 0 .. LAST
    BY <1>2, LastIsNatural
<1>4. c.headers = headers(c.by, c.headers.seq) /\ c.what = kind(c.by, c.headers.seq)
    BY DEF SessionsInv, Underway
<1>5. /\ client_of(c.headers) = c.by /\ c.headers \in ProducerHeaders
      /\ c.headers.id = c.by[1] /\ c.headers.epoch = c.by[2]
    BY <1>1, <1>3, <1>4, HeadersAreNames
<1>6. Bodiless(c.headers) <=> c.what = "close"
    BY <1>4, <1>5 DEF Bodiless, kind
<1>7. Closer(c.headers) <=> c.what # "post"
    BY <1>4, <1>5 DEF Closer, kind
<1> QED BY <1>1, <1>3, <1>5, <1>6, <1>7

(* What a client that listens may hear. *)
LEMMA Answers ==
    ASSUME SessionsInv, NEW c \in calls, c.listening
    PROVE  LET h == c.headers
               a == answer(h)
           IN  \/ a = "accepted"
               \/ a \in {"duplicate", "close_success"} /\ h \in committed
               \/ /\ a = "stale_epoch"
                  /\ \E g \in committed : g.id = h.id /\ g.epoch > h.epoch
               \/ /\ a = "closed" /\ db.meta.closed
                  /\ Closer(h) => h \notin committed
<1> DEFINE h == c.headers
           row == db.producers[h.id]
<1>0. AtRest /\ Rows /\ Ends
    BY DEF SessionsInv
<1>1. h \in ProducerHeaders /\ h # None /\ c.by \in Sessions
      /\ h.id = c.by[1] /\ h.epoch = c.by[2] /\ h.seq \in 0 .. LAST
    BY CallNames, NoneIsNoRow
<1>2. CASE db.meta.closed
    <2>1. CASE db.meta.closed_by = h
        BY <1>0, <1>1, <1>2, <2>1 DEF answer, Ends
    <2>2. CASE db.meta.closed_by # h
        BY <1>0, <1>2, <2>2 DEF answer, Ends
    <2> QED BY <2>1, <2>2
<1>3. CASE ~db.meta.closed
    <2>1. answer(h) = validate_producer(row, h)
        BY <1>3 DEF answer
    <2>2. h.id \in Producers /\ h.seq \in Nat
        BY <1>0, <1>1, Verdicts
    <2>3. h = [id |-> h.id, epoch |-> h.epoch, seq |-> h.seq]
        BY <1>1 DEF ProducerHeaders
    <2>4. row # None => row.epoch \in Nat /\ row.last_seq \in Nat
        BY <1>0, <1>1, Verdicts
    <2>5. CASE answer(h) = "duplicate"
        <3>1. row # None /\ h.epoch = row.epoch /\ h.seq <= row.last_seq
            BY <1>0, <1>1, <2>1, <2>5, Verdicts
        <3>2. h.seq \in 0 .. row.last_seq
            BY <2>2, <2>4, <3>1
        <3>3. [id |-> h.id, epoch |-> row.epoch, seq |-> h.seq] \in committed
            BY <1>0, <2>2, <3>1, <3>2 DEF Rows
        <3> QED BY <2>3, <2>5, <3>1, <3>3
    <2>6. CASE answer(h) = "stale_epoch"
        <3>1. row # None /\ h.epoch < row.epoch
            BY <1>0, <1>1, <2>1, <2>6, Verdicts
        <3>2. 0 \in 0 .. row.last_seq
            BY <2>4, <3>1
        <3>3. [id |-> h.id, epoch |-> row.epoch, seq |-> 0] \in committed
            BY <1>0, <2>2, <3>1, <3>2 DEF Rows
        <3>4. \E g \in committed : g.id = h.id /\ g.epoch = row.epoch
            BY <3>3
        <3> HIDE DEF row
        <3>5. h.epoch \in Nat
            BY <1>0, <1>1, Verdicts
        <3> QED BY <2>4, <2>6, <3>1, <3>4, <3>5
    <2>7. CASE answer(h) \in {"sequence_gap", "invalid_epoch_seq"}
        <3>1. /\ h.seq > 0
              /\ row # None => \/ h.epoch > row.epoch
                               \/ h.epoch = row.epoch /\ h.seq > row.last_seq + 1
            BY <1>0, <1>1, <2>1, <2>7, Verdicts
        <3> DEFINE n == h.seq - 1
        <3>2. h.seq = client[c.by].seq
            BY DEF SessionsInv, Underway
        <3>3. n \in 0 .. LAST /\ n < h.seq
            BY <1>1, <3>1, LastIsNatural
        <3>4. headers(c.by, n) \in committed
            BY <1>1, <3>2, <3>3 DEF SessionsInv, Progress
        <3>5. headers(c.by, n).id = h.id /\ headers(c.by, n).epoch = h.epoch
              /\ headers(c.by, n).seq = n
            BY <1>1, <3>3, HeadersAreNames
        <3>6. row # None
            BY <1>0, <2>2, <3>4, <3>5 DEF Rows
        <3>7. h.epoch < row.epoch \/ (h.epoch = row.epoch /\ n <= row.last_seq)
            BY <1>0, <2>2, <3>4, <3>5, <3>6 DEF Rows
        <3>8. h.epoch \in Nat
            BY <1>0, <1>1, Verdicts
        <3> HIDE DEF row
        <3> QED BY <2>2, <2>4, <3>1, <3>6, <3>7, <3>8
    <2>8. answer(h) \in {"accepted", "duplicate", "stale_epoch",
                         "sequence_gap", "invalid_epoch_seq"}
        BY <1>0, <1>1, <2>1, Verdicts
    <2> QED BY <2>5, <2>6, <2>7, <2>8
<1> QED BY <1>2, <1>3

(* What the client makes of it. *)
LEMMA Hears ==
    ASSUME SessionsInv, NEW c \in calls, c.listening, heard(c.by, answer(c.headers)),
           committed' = IF answer(c.headers) = "accepted"
                        THEN committed \union {c.headers} ELSE committed,
           db.meta.closed => db'.meta.closed
    PROVE  LET s == c.by
           IN  /\ client' = [client EXCEPT ![s] = client'[s]]
               /\ client'[s] \in ClientState
               /\ client'[s].seq >= client[s].seq
               /\ Progress(s)'
<1> DEFINE s == c.by
           h == c.headers
           a == answer(h)
           n == client[s].seq
<1>1. /\ s \in Sessions /\ h \in ProducerHeaders /\ h.id = s[1] /\ h.epoch = s[2]
      /\ h.seq \in 0 .. LAST
    BY CallNames
<1>2. h = headers(s, h.seq) /\ h.seq = n
    BY DEF SessionsInv, Underway
<1>3. client[s] \in ClientState
      /\ client \in [Sessions -> ClientState]
    BY <1>1 DEF SessionsInv, Shapes
<1>4. Progress(s)
    BY <1>1 DEF SessionsInv
<1> HIDE DEF a
<1>5. client'[s] = [seq |-> IF acknowledges(a) /\ n # LAST THEN n + 1 ELSE n,
                    pc |-> IF ~acknowledges(a) THEN a
                           ELSE IF n = LAST THEN "done" ELSE "ready"]
      /\ client' = [client EXCEPT ![s] = client'[s]]
    BY <1>1, <1>3 DEF heard, a
<1>6. committed \subseteq committed' /\ (a # "accepted" => committed' = committed)
      /\ (a = "accepted" => h \in committed')
    BY DEF a
<1> HIDE DEF n
<1>7. n \in 0 .. LAST
    BY <1>1, <1>2
<1>8. CASE acknowledges(a)
    <2>1. h \in committed'
        BY <1>6, <1>8, Answers DEF acknowledges, a
    <2>2. \A k \in 0 .. LAST : k < n => headers(s, k) \in committed'
        BY <1>4, <1>6 DEF Progress, n
    <2>3. headers(s, n) \in committed'
        BY <1>2, <2>1
    <2>4. CASE n = LAST
        <3>1. client'[s].seq = n /\ client'[s].pc = "done"
            BY <1>5, <1>8, <2>4
        <3> QED BY <1>5, <1>7, <1>8, <2>2, <2>3, <2>4, <3>1 DEF Progress, headers, n
    <2>5. CASE n # LAST
        <3>1. client'[s].seq = n + 1 /\ client'[s].pc = "ready"
            BY <1>5, <1>8, <2>5
        <3>2. n + 1 \in 0 .. LAST
            BY <1>7, <2>5, LastIsNatural
        <3>3. \A k \in 0 .. LAST : k < n + 1 => headers(s, k) \in committed'
            BY <1>7, <2>2, <2>3, LastIsNatural
        <3>4. Progress(s)'
            BY <3>1, <3>3 DEF Progress, headers
        <3>5. client'[s].seq >= n
            BY <1>7, <3>1, LastIsNatural
        <3>6. client'[s] \in ClientState
            BY <1>5, <1>8, <2>5, <3>2
        <3> QED BY <1>5, <3>4, <3>5, <3>6 DEF n
    <2> QED BY <2>4, <2>5
<1>9. CASE ~acknowledges(a)
    <2>1. client'[s].seq = n /\ client'[s].pc = a /\ committed' = committed
        BY <1>5, <1>6, <1>9 DEF acknowledges
    <2>2. \/ /\ a = "stale_epoch"
             /\ \E g \in committed : g.id = h.id /\ g.epoch > h.epoch
          \/ /\ a = "closed" /\ db.meta.closed
             /\ Closer(h) => h \notin committed
        BY <1>9, Answers DEF acknowledges, a
    <2>3. Closer(h) <=> n = LAST /\ Plan[s] # "post"
        <3>1. client_of(h) = s
            BY <1>1, <1>2, HeadersAreNames
        <3> QED BY <1>2, <3>1 DEF Closer
    <2>4. \A k \in 0 .. LAST : k < n => headers(s, k) \in committed'
        BY <1>4, <1>6 DEF Progress, n
    <2>5. Progress(s)'
        BY <1>1, <1>2, <2>1, <2>2, <2>3, <2>4 DEF Progress, headers
    <2>6. client'[s] = [seq |-> n, pc |-> a]
        BY <1>5, <1>9
    <2>7. client'[s] \in ClientState
        BY <1>7, <2>2, <2>6
    <2>8. client'[s].seq >= n
        BY <1>7, <2>1
    <2> QED BY <1>5, <2>5, <2>7, <2>8 DEF n
<1> QED BY <1>8, <1>9

-----------------------------------------------------------------------------

(* The invariant survives a call that is executed, listened for or not... *)
LEMMA ExecuteStep ==
    ASSUME SessionsInv, NEW c \in calls, execute(c, 0)
    PROVE  SessionsInv'
<1> DEFINE h == c.headers
           s == c.by
<1>0. AtRest /\ Shapes /\ Underway /\ OneListens /\ Rows /\ Logged /\ Ends
      /\ \A t \in Sessions : Progress(t)
    BY DEF SessionsInv
<1>1. /\ c \in Call /\ s \in Sessions /\ h \in ProducerHeaders
      /\ h.seq \in 0 .. LAST /\ h.id = s[1] /\ h.epoch = s[2] /\ h # None
      /\ Bodiless(h) <=> c.what = "close"
      /\ Closer(h) <=> c.what # "post"
    BY CallNames, NoneIsNoRow
<1>2. /\ calls' = calls \ {c} /\ UNCHANGED <<faults, clock, boot>>
      /\ IF c.listening THEN heard(s, answer(h)) ELSE UNCHANGED client
      /\ answer(h) = "accepted" =>
            /\ ~db.meta.closed /\ committed' = committed \union {h}
            /\ CommitsWrite(h, c.what # "close", c.what # "post")
      /\ answer(h) # "accepted" => db' = db /\ committed' = committed
    BY <1>0, <1>1, Executed
<1>3. /\ committed \subseteq committed'
      /\ db.meta.closed => db'.meta.closed /\ committed' = committed
    BY <1>2
<1>4. AtRest'
    <2>1. CASE answer(h) = "accepted"
        <3>1. CommitsWrite(h, c.what # "close", c.what # "post")
            BY <1>2, <2>1
        <3>2. db.producers \in [Producers -> Optional(ProducerState)]
            BY <1>0 DEF AtRest, Database
        <3>3. \A p \in Producers :
                 db'.producers[p] # None => db'.producers[p].last_updated = 0
            BY <1>0, <3>1, <3>2 DEF CommitsWrite, AtRest
        <3> QED BY <1>0, <1>2, <3>1, <3>3 DEF CommitsWrite, AtRest
    <2>2. CASE answer(h) # "accepted"
        BY <1>0, <1>2, <2>2 DEF AtRest
    <2> QED BY <2>1, <2>2
<1>5. Rows' /\ Logged' /\ Ends'
    <2>1. CASE answer(h) = "accepted"
        <3>1. h \notin committed
            BY <1>0, <1>1, <2>1, AcceptedIsNew
        <3>2. Rows'
            BY <1>0, <1>1, <1>2, <2>1, RowsAccept
        <3>3. Logged'
            BY <1>0, <1>1, <1>2, <2>1, <3>1, LoggedAccept
        <3>4. Ends'
            BY <1>0, <1>1, <1>2, <2>1, EndsAccept
        <3> QED BY <3>2, <3>3, <3>4
    <2>2. CASE answer(h) # "accepted"
        BY <1>0, <1>2, <2>2 DEF Rows, Logged, Ends
    <2> QED BY <2>1, <2>2
<1>6. /\ client' \in [Sessions -> ClientState]
      /\ client'[s].seq >= client[s].seq
      /\ ~c.listening => client' = client
      /\ \A t \in Sessions : t # s => client'[t] = client[t]
      /\ \A t \in Sessions : Progress(t)'
    <2>1. CASE c.listening
        <3>1. /\ client' = [client EXCEPT ![s] = client'[s]]
              /\ client'[s] \in ClientState
              /\ client'[s].seq >= client[s].seq
              /\ Progress(s)'
            BY <1>2, <1>3, <2>1, Hears
        <3>2. /\ \A t \in Sessions : t # s => client'[t] = client[t]
              /\ client' \in [Sessions -> ClientState]
            BY <1>0, <1>1, <3>1 DEF Shapes
        <3>3. \A t \in Sessions : t # s => Progress(t)'
            BY <1>0, <1>3, <3>2, ProgressKept
        <3> QED BY <2>1, <3>1, <3>2, <3>3
    <2>2. CASE ~c.listening
        <3>1. client' = client
            BY <1>2, <2>2
        <3>2. \A t \in Sessions : Progress(t)'
            BY <1>0, <1>3, <3>1, ProgressKept
        <3>3. client[s].seq \in Nat
            BY <1>0, <1>1, LastIsNatural DEF Shapes
        <3> QED BY <1>0, <3>1, <3>2, <3>3 DEF Shapes
    <2> QED BY <2>1, <2>2
<1>7. Shapes'
    <2>1. \A g \in committed' : g \in ProducerHeaders
             /\ client_of(g) \in Sessions /\ g.seq \in 0 .. LAST
        <3>1. client_of(h) = s
            BY <1>1, SessionNames DEF client_of
        <3> QED BY <1>0, <1>1, <1>2, <3>1 DEF Shapes
    <2> QED BY <1>0, <1>2, <1>6, <2>1 DEF Shapes
<1>8. Underway' /\ OneListens'
    <2>1. OneListens'
        BY <1>0, <1>2 DEF OneListens
    <2>2. ASSUME NEW b \in calls'
          PROVE  /\ b.headers = headers(b.by, b.headers.seq)
                 /\ b.headers.seq \in 0 .. client'[b.by].seq
                 /\ b.what = kind(b.by, b.headers.seq)
                 /\ b.listening => client'[b.by].pc = "waiting"
                                   /\ b.headers.seq = client'[b.by].seq
        <3>1. b \in calls /\ b # c /\ b.by \in Sessions
            BY <1>0, <1>2 DEF Shapes, Call
        <3>2. /\ b.headers = headers(b.by, b.headers.seq)
              /\ b.headers.seq \in 0 .. client[b.by].seq
              /\ b.what = kind(b.by, b.headers.seq)
              /\ b.listening => client[b.by].pc = "waiting"
                                /\ b.headers.seq = client[b.by].seq
            BY <1>0, <3>1 DEF Underway
        <3>3. client[b.by].seq \in Nat /\ client'[b.by].seq \in Nat
            BY <1>0, <1>6, <3>1, LastIsNatural DEF Shapes
        <3>4. client'[b.by].seq >= client[b.by].seq
            BY <1>6, <3>1, <3>3
        <3>5. b.listening => client'[b.by] = client[b.by]
            BY <1>0, <1>6, <3>1 DEF OneListens
        <3> QED BY <3>2, <3>3, <3>4, <3>5
    <2> QED BY <2>1, <2>2 DEF Underway, headers, kind
<1> QED BY <1>4, <1>5, <1>6, <1>7, <1>8 DEF SessionsInv

(* All that a close without producer headers writes. *)
LEMMA AnonymousClose ==
    ASSUME AtRest, close_anonymously
    PROVE  /\ UNCHANGED <<clock, boot, session>>
           /\ db' \in Database /\ db'.meta # None /\ ~db'.meta.soft_deleted
           /\ db'.meta.ttl_seconds = None /\ db'.meta.expires_at = None
           /\ db'.producers = db.producers /\ db'.messages = db.messages
           /\ db'.meta.closed /\ db'.meta.closed_by = db.meta.closed_by
<1> DEFINE t == [db EXCEPT !.producers = db.producers]
           z == set_closed(t, None)
<1>1. clock = 0 /\ visible_meta_while_locked(db, 0) = db
    BY Calm DEF AtRest
<1>2. close_reply(db, None, 0) = "accepted"
    BY DEF AtRest, close_reply
<1>3. db' \in close_only(db, None, 0) /\ UNCHANGED <<clock, boot, session>>
    BY <1>1, <1>2 DEF close_anonymously, handle_close_only
<1>4. /\ db \in Database /\ db.meta \in Meta /\ db.meta # None
      /\ db.producers \in [Producers -> Optional(ProducerState)]
      /\ None \in Optional(ProducerHeaders)
    BY DEF AtRest, Database, Optional
<1>5. db' = touch(z, 0)
    BY <1>3 DEF close_only, fenced
<1>6. /\ t \in Database /\ t.meta = db.meta /\ t.messages = db.messages
      /\ t.producers = db.producers
    BY <1>4, Table
<1> HIDE DEF t
<1>7. /\ z \in Database /\ z.meta \in Meta /\ z.meta # None
      /\ z.messages = t.messages /\ z.producers = t.producers
      /\ z.meta = [t.meta EXCEPT !.closed = TRUE,
                                 !.closed_by = IF None = None THEN @ ELSE None]
    BY <1>4, <1>6, SetClosed
<1> HIDE DEF z
<1>8. /\ z.meta.soft_deleted = db.meta.soft_deleted
      /\ z.meta.closed = TRUE /\ z.meta.closed_by = db.meta.closed_by
      /\ SameExpiry(db, z)
    BY <1>4, <1>6, <1>7 DEF Meta, SameExpiry
<1>9. /\ db' \in Database /\ db'.meta \in Meta /\ db'.meta # None
      /\ db'.messages = z.messages /\ db'.producers = z.producers
      /\ db'.meta = [z.meta EXCEPT !.last_accessed_at = 0]
    BY <1>5, <1>7, Touch
<1>10. /\ db'.meta.soft_deleted = z.meta.soft_deleted
       /\ db'.meta.closed = z.meta.closed /\ db'.meta.closed_by = z.meta.closed_by
       /\ SameExpiry(z, db')
    BY <1>7, <1>9, MetaEffects
<1>11. /\ ~db'.meta.soft_deleted /\ db'.meta.ttl_seconds = None
       /\ db'.meta.expires_at = None
    BY <1>8, <1>10 DEF SameExpiry, AtRest
<1> QED BY <1>3, <1>6, <1>7, <1>8, <1>9, <1>10, <1>11

(* The steps of the facade and the clients leave the actor alone. *)
LEMMA ActorAlone ==
    ASSUME SessionsInv, UNCHANGED <<db, clock, boot, committed>>,
           Shapes', Underway', OneListens', \A s \in Sessions : Progress(s)'
    PROVE  SessionsInv'
BY DEF SessionsInv, AtRest, Rows, Logged, Ends

(* ...a call that is sent, timed out or lost before the actor... *)
LEMMA FacadeStep ==
    ASSUME SessionsInv, NEW s \in Sessions,
           send(s) \/ gateway_timeout(s) \/ bad_gateway(s)
    PROVE  SessionsInv'
<1>0. AtRest /\ Shapes /\ Underway /\ OneListens
      /\ \A t \in Sessions : Progress(t)
    BY DEF SessionsInv
<1>1. UNCHANGED <<db, clock, boot, committed>>
    BY DEF send, gateway_timeout, bad_gateway, vars
<1>2. /\ client' \in [Sessions -> ClientState]
      /\ \A t \in Sessions : client'[t].seq = client[t].seq
      /\ \A t \in Sessions : t # s => client'[t] = client[t]
      /\ send(s) => client'[s].pc = "waiting" /\ client[s].pc = "ready"
      /\ ~send(s) => client'[s].pc = "ready"
    <2>1. PICK pc \in {"ready", "waiting"} :
             /\ client' = [client EXCEPT ![s].pc = pc]
             /\ send(s) => pc = "waiting" /\ client[s].pc = "ready"
             /\ ~send(s) => pc = "ready"
        BY DEF send, gateway_timeout, bad_gateway
    <2> QED BY <1>0, <2>1 DEF Shapes
<1>3. \A t \in Sessions : Progress(t)'
    <2>1. \A t \in Sessions : client'[t].pc = client[t].pc
                              \/ client'[t].pc \in {"ready", "waiting"}
        BY <1>2
    <2> QED BY <1>0, <1>1, <1>2, <2>1, ProgressKept
<1>4. faults' \in Nat
    BY <1>0 DEF Shapes, send, gateway_timeout, bad_gateway, fault
<1>5. client[s].seq \in 0 .. LAST /\ client[s].seq \in Nat
    BY <1>0, LastIsNatural DEF Shapes
<1>6. CASE send(s)
    <2> DEFINE n == client[s].seq
               c == [by |-> s, headers |-> headers(s, n), what |-> what(s),
                     attempt |-> faults, listening |-> TRUE]
    <2>1. calls' = calls \union {c}
        BY <1>6 DEF send
    <2>2. what(s) = kind(s, n) /\ kind(s, n) \in {"post", "post_close", "close"}
        BY SessionsAreProducers DEF what, kind
    <2>3. headers(s, n) \in ProducerHeaders /\ headers(s, n).seq = n
        BY <1>5, HeadersAreNames
    <2> HIDE DEF n
    <2>4. c \in Call /\ c.by = s /\ c.headers = headers(s, n) /\ c.what = kind(s, n)
          /\ c.listening
        BY <1>0, <2>2, <2>3 DEF Call, Shapes
    <2> HIDE DEF c
    <2>5. \A b \in calls : b.by = s => ~b.listening
        BY <1>0, <1>2, <1>6 DEF Underway
    <2>6. Shapes'
        BY <1>0, <1>1, <1>2, <1>4, <2>1, <2>4 DEF Shapes
    <2>7. OneListens'
        BY <1>0, <2>1, <2>4, <2>5 DEF OneListens
    <2>8. ASSUME NEW b \in calls'
          PROVE  /\ b.headers = headers(b.by, b.headers.seq)
                 /\ b.headers.seq \in 0 .. client'[b.by].seq
                 /\ b.what = kind(b.by, b.headers.seq)
                 /\ b.listening => client'[b.by].pc = "waiting"
                                   /\ b.headers.seq = client'[b.by].seq
        <3>1. CASE b = c
            <4>1. client'[s].seq = n /\ n \in 0 .. n
                BY <1>2, <1>5 DEF n
            <4> QED BY <1>2, <1>6, <2>3, <2>4, <3>1, <4>1
        <3>2. CASE b \in calls
            <4>1. b.by \in Sessions
                BY <1>0, <3>2 DEF Shapes, Call
            <4> QED BY <1>0, <1>2, <2>5, <3>2, <4>1 DEF Underway
        <3> QED BY <2>1, <3>1, <3>2
    <2>9. Underway'
        BY <2>8 DEF Underway, headers, kind
    <2> QED BY <1>1, <1>3, <2>6, <2>7, <2>9, ActorAlone
<1>7. CASE ~send(s)
    <2>1. ASSUME NEW b \in calls'
          PROVE  /\ b \in Call
                 /\ b.by = s => ~b.listening
                 /\ \E a \in calls : /\ a.by = b.by /\ a.headers = b.headers
                                     /\ a.what = b.what
                                     /\ b.by # s => a = b
        <3>1. CASE gateway_timeout(s)
            <4>1. calls' = {IF a.by = s THEN [a EXCEPT !.listening = FALSE] ELSE a :
                               a \in calls}
                BY <3>1 DEF gateway_timeout, deaf
            <4>2. PICK a \in calls :
                     b = IF a.by = s THEN [a EXCEPT !.listening = FALSE] ELSE a
                BY <4>1
            <4>3. a \in Call
                BY <1>0 DEF Shapes
            <4> QED BY <4>2, <4>3 DEF Call
        <3>2. CASE bad_gateway(s)
            BY <1>0, <3>2 DEF bad_gateway, Shapes
        <3> QED BY <1>7, <3>1, <3>2
    <2>2. Shapes'
        BY <1>0, <1>1, <1>2, <1>4, <2>1 DEF Shapes
    <2>3. OneListens'
        BY <1>0, <2>1 DEF OneListens
    <2>4. ASSUME NEW b \in calls'
          PROVE  /\ b.headers = headers(b.by, b.headers.seq)
                 /\ b.headers.seq \in 0 .. client'[b.by].seq
                 /\ b.what = kind(b.by, b.headers.seq)
                 /\ b.listening => client'[b.by].pc = "waiting"
                                   /\ b.headers.seq = client'[b.by].seq
        <3>1. PICK a \in calls : /\ a.by = b.by /\ a.headers = b.headers
                                 /\ a.what = b.what
                                 /\ b.by # s => a = b
            BY <2>1
        <3>2. a.by \in Sessions
            BY <1>0 DEF Shapes, Call
        <3> QED BY <1>0, <1>2, <2>1, <3>1, <3>2 DEF Underway
    <2>5. Underway'
        BY <2>4 DEF Underway, headers, kind
    <2> QED BY <1>1, <1>3, <2>2, <2>3, <2>5, ActorAlone
<1> QED BY <1>6, <1>7

(* ...a restart... *)
LEMMA RestartStep ==
    ASSUME SessionsInv, restart
    PROVE  SessionsInv'
<1>0. AtRest /\ Shapes /\ \A t \in Sessions : Progress(t)
    BY DEF SessionsInv
<1>1. UNCHANGED <<db, clock, boot, committed>> /\ calls' = {} /\ faults' \in Nat
    BY <1>0 DEF restart, vars, fault, Shapes
<1>2. /\ client' \in [Sessions -> ClientState]
      /\ \A t \in Sessions : client'[t].seq = client[t].seq
      /\ \A t \in Sessions : client'[t].pc = client[t].pc
                             \/ client'[t].pc \in {"ready", "waiting"}
    <2>1. client' = [t \in Sessions |->
                     IF client[t].pc = "waiting" THEN [client[t] EXCEPT !.pc = "ready"]
                     ELSE client[t]]
        BY DEF restart
    <2> QED BY <1>0, <2>1 DEF Shapes
<1>3. \A t \in Sessions : Progress(t)'
    BY <1>0, <1>1, <1>2, ProgressKept
<1>4. Shapes' /\ Underway' /\ OneListens'
    BY <1>0, <1>1, <1>2 DEF Shapes, Underway, OneListens
<1> QED BY <1>1, <1>3, <1>4, ActorAlone

(* ...and so every step. *)
LEMMA SessionsStep == SessionsInv /\ [NextSessions]_allvars => SessionsInv'
<1> SUFFICES ASSUME SessionsInv, [NextSessions]_allvars PROVE SessionsInv'
    OBVIOUS
<1>0. AtRest /\ Shapes /\ Underway /\ OneListens /\ Rows /\ Logged /\ Ends
      /\ \A t \in Sessions : Progress(t)
    BY DEF SessionsInv
<1>1. ASSUME NEW s \in Sessions, send(s) \/ gateway_timeout(s) \/ bad_gateway(s)
      PROVE  SessionsInv'
    BY <1>1, FacadeStep
<1>2. ASSUME NEW s \in Sessions, executes(s)
      PROVE  SessionsInv'
    <2>1. PICK c \in calls : execute(c, 0)
        BY <1>0, <1>2, Calm DEF executes
    <2> QED BY <2>1, ExecuteStep
<1>3. CASE close_anonymously
    <2>1. /\ UNCHANGED <<clock, boot, client, calls, faults, committed>>
          /\ db' \in Database /\ db'.meta # None /\ ~db'.meta.soft_deleted
          /\ db'.meta.ttl_seconds = None /\ db'.meta.expires_at = None
          /\ db'.producers = db.producers /\ db'.messages = db.messages
          /\ db'.meta.closed /\ db'.meta.closed_by = db.meta.closed_by
        BY <1>0, <1>3, AnonymousClose DEF session
    <2>2. AtRest' /\ Rows' /\ Logged' /\ Ends'
        BY <1>0, <2>1 DEF AtRest, Rows, Logged, Ends
    <2>3. Shapes' /\ Underway' /\ OneListens'
        BY <1>0, <2>1 DEF Shapes, Underway, OneListens
    <2>4. \A t \in Sessions : Progress(t)'
        BY <1>0, <2>1, ProgressKept
    <2> QED BY <2>2, <2>3, <2>4 DEF SessionsInv
<1>4. CASE restart
    BY <1>4, RestartStep
<1>5. CASE UNCHANGED allvars
    BY <1>5, <1>0 DEF allvars, vars, session, SessionsInv, AtRest, Shapes, Underway,
        OneListens, Rows, Logged, Ends, Progress
<1> QED BY <1>1, <1>2, <1>3, <1>4, <1>5 DEF NextSessions

(* It holds when the stream has just been created. *)
LEMMA SessionsInit == InitSessions => SessionsInv
<1> SUFFICES ASSUME InitSessions PROVE SessionsInv
    OBVIOUS
<1> DEFINE meta == create_meta(Open, 1, 0)
<1>1. meta \in Meta /\ meta # None
    <2>1. Open.content_type \in ContentTypes
        BY SessionsAreProducers DEF Open
    <2>2. meta \in Meta
        BY <2>1 DEF create_meta, Open, Meta, Optional, ZERO_OFFSET
    <2> QED BY <2>2, NoneIsNoRow
<1>2. /\ ~meta.soft_deleted /\ meta.ttl_seconds = None /\ meta.expires_at = None
      /\ meta.closed_by = None
    BY DEF create_meta, Open
<1> HIDE DEF meta
<1>3. db = [meta |-> meta, messages |-> <<>>,
            producers |-> [p \in Producers |-> None],
            fork_edges |-> [e \in Edges |-> None]]
    BY DEF InitSessions, purge, meta
<1>4. db \in Database
    BY <1>1, <1>3 DEF Database, Optional
<1>5. AtRest
    BY <1>1, <1>2, <1>3, <1>4 DEF AtRest, InitSessions
<1>6. Rows /\ Logged /\ Ends
    <2>1. committed = {} /\ DOMAIN db.messages = {} /\ db.meta.closed_by = None
        BY <1>2, <1>3 DEF InitSessions
    <2>2. \A p \in Producers : db.producers[p] = None
        BY <1>3
    <2> QED BY <2>1, <2>2 DEF Rows, Logged, Ends
<1>7. 0 \in 0 .. LAST /\ client = [s \in Sessions |-> [seq |-> 0, pc |-> "ready"]]
    BY LastIsNatural DEF InitSessions
<1>8. Shapes /\ Underway /\ OneListens
    BY <1>7 DEF InitSessions, Shapes, Underway, OneListens
<1>9. \A s \in Sessions : Progress(s)
    BY <1>7, LastIsNatural DEF Progress
<1> QED BY <1>5, <1>6, <1>8, <1>9 DEF SessionsInv

(* It holds always. *)
LEMMA SessionsInvariant == SpecSessions => []SessionsInv
<1>1. InitSessions => SessionsInv
    BY SessionsInit
<1>2. SessionsInv /\ [NextSessions]_allvars => SessionsInv'
    BY SessionsStep
<1> QED BY <1>1, <1>2, PTL DEF SpecSessions

(* Through 504s, calls that outlive them, retries, restarts and rival       *)
(* epochs, what a client was acknowledged is in the log exactly once, and   *)
(* what it was not is there at most once: handle_post dedups whatever the   *)
(* facade sends again.                                                      *)
THEOREM AcknowledgedOnce == SpecSessions => []AckedOnce
<1>1. SessionsInv => AckedOnce
    <2> SUFFICES ASSUME SessionsInv, NEW s \in Sessions, NEW n \in 0 .. LAST
                 PROVE  LET h == headers(s, n)
                            closes == n = LAST /\ Plan[s] = "close"
                        IN  /\ Cardinality(Copies(h)) <= 1
                            /\ h \in Acked(s) =>
                                  IF closes THEN db.meta.closed /\ db.meta.closed_by = h
                                  ELSE Copies(h) # {}
        BY DEF AckedOnce
    <2> DEFINE h == headers(s, n)
               closes == n = LAST /\ Plan[s] = "close"
    <2>0. Logged /\ Ends /\ Progress(s)
        BY DEF SessionsInv
    <2>1. h.seq = n /\ client_of(h) = s
        BY HeadersAreNames
    <2>2. Cardinality(Copies(h)) <= 1
        <3>1. CASE Copies(h) = {}
            BY <3>1, FS_EmptySet
        <3>2. CASE Copies(h) # {}
            <4>1. PICK i : i \in Copies(h)
                BY <3>2
            <4>2. Copies(h) = {i}
                BY <2>0, <4>1 DEF Copies, Logged
            <4>3. Cardinality({i}) = 1
                BY FS_Singleton
            <4> QED BY <4>2, <4>3
        <3> QED BY <3>1, <3>2
    <2>3. ASSUME h \in Acked(s)
          PROVE  IF closes THEN db.meta.closed /\ db.meta.closed_by = h
                 ELSE Copies(h) # {}
        <3>1. PICK k \in 0 .. LAST :
                 /\ h = headers(s, k)
                 /\ k < client[s].seq \/ (k = client[s].seq /\ client[s].pc = "done")
            BY <2>3 DEF Acked
        <3>2. headers(s, k) \in committed
            BY <2>0, <3>1 DEF Progress
        <3>3. h \in committed
            BY <3>1, <3>2
        <3>4. CASE closes
            BY <2>0, <2>1, <3>3, <3>4 DEF Ends, Closer
        <3>5. CASE ~closes
            BY <2>0, <2>1, <3>3, <3>5 DEF Logged, Bodiless, Copies
        <3> QED BY <3>4, <3>5
    <2> QED BY <2>2, <2>3
<1> QED BY <1>1, SessionsInvariant, PTL

(* A client that follows the protocol is stopped only by a newer epoch of   *)
(* its producer or by another's close, never by a gap or by its own retry   *)
(* (validate_producer, the closed check of handle_post).                    *)
THEOREM ClientsStoppedByOthers == SpecSessions => []StoppedByOthers
<1>1. SessionsInv => StoppedByOthers
    BY DEF SessionsInv, Shapes, Progress, StoppedByOthers
<1> QED BY <1>1, SessionsInvariant, PTL

-----------------------------------------------------------------------------
(* The stream the clients write to. *)

(* It begins as a stream that a PUT has created. *)
LEMMA SessionsBegin == InitSessions => LifecycleInv /\ DedupOK(db, clock)
<1> SUFFICES ASSUME InitSessions PROVE LifecycleInv /\ DedupOK(db, clock)
    OBVIOUS
<1>1. SessionsInv
    BY SessionsInit
<1>2. /\ db \in Database /\ clock = 0 /\ boot = 0
      /\ db.meta # None /\ ~db.meta.soft_deleted
    BY <1>1 DEF SessionsInv, AtRest
<1>3. /\ db.messages = <<>> /\ db.producers = purge.producers
      /\ \A e \in Edges : db.fork_edges[e] = None
      /\ db.meta.last_accessed_at = 0 /\ db.meta.generation = 1
    BY DEF InitSessions, purge, create_meta
<1>4. gens = 1 /\ touches = {} /\ held = [e \in Edges |-> None]
    BY DEF InitSessions
<1>5. \A i \in DOMAIN db.messages : FALSE
    BY <1>3
<1>6. TypeOK
    BY <1>2, <1>3, <1>4, <1>5 DEF TypeOK, Optional
<1>7. Sound(db)
    BY <1>2, <1>3 DEF Sound, EdgesWithin
<1>8. PinHolds
    BY <1>4 DEF PinHolds
<1>9. DedupOK(db, clock)
    BY <1>3, <1>5, DedupNobody
<1> QED BY <1>6, <1>7, <1>8, <1>9 DEF LifecycleInv

(* What reaches the actor are requests that its handlers know. *)
LEMMA SessionsAsk == SessionsInv /\ [NextSessions]_allvars => [Next]_vars
<1> SUFFICES ASSUME SessionsInv, [NextSessions]_allvars PROVE [Next]_vars
    OBVIOUS
<1>0. AtRest
    BY DEF SessionsInv
<1>1. ASSUME NEW c \in calls, NEW now \in Sampled, execute(c, now) PROVE Next
    <2>1. c.headers \in ProducerHeaders
        BY DEF SessionsInv, Shapes, Call
    <2>2. CASE c.what = "close"
        <3>1. handle_close_only(c.headers, now)
            BY <1>1, <2>2 DEF execute
        <3> QED BY <2>1, <3>1 DEF Next, Optional
    <2>3. CASE c.what # "close"
        <3>1. PICK d, post :
                 /\ d = visible_meta_while_locked(db, now)
                 /\ post = [producer |-> c.headers, stream_seq |-> None, size |-> 1,
                            content_type |-> d.meta.content_type,
                            close |-> c.what = "post_close"]
            OBVIOUS
        <3>2. handle_post(post, now)
            BY <1>1, <2>3, <3>1 DEF execute
        <3>3. d = db
            BY <1>0, <3>1, Calm
        <3>4. d.meta.content_type \in ContentTypes
            BY <1>0, <3>3 DEF AtRest, Database, Meta, Optional
        <3>5. post \in PostRequests
            BY <2>1, <3>1, <3>4, SessionsAreProducers DEF PostRequests, Optional
        <3> QED BY <3>2, <3>5 DEF Next
    <2> QED BY <2>2, <2>3
<1>2. ASSUME NEW s \in Sessions, send(s) \/ gateway_timeout(s) \/ bad_gateway(s)
      PROVE  UNCHANGED vars
    BY <1>2 DEF send, gateway_timeout, bad_gateway
<1>3. ASSUME NEW s \in Sessions, executes(s) PROVE Next
    BY <1>1, <1>3 DEF executes
<1>4. CASE close_anonymously
    <2>1. handle_close_only(None, clock) /\ clock \in Sampled
        BY <1>0, <1>4 DEF close_anonymously, AtRest, Sampled
    <2> QED BY <2>1 DEF Next, Optional
<1>5. CASE restart
    BY <1>5 DEF restart
<1>6. CASE UNCHANGED allvars
    BY <1>6 DEF allvars
<1> QED BY <1>2, <1>3, <1>4, <1>5, <1>6 DEF NextSessions

LEMMA SessionsKeepTheStream == SpecSessions => [](LifecycleInv /\ DedupOK(db, clock))
<1>1. InitSessions => LifecycleInv /\ DedupOK(db, clock)
    BY SessionsBegin
<1>2. SessionsInv /\ [NextSessions]_allvars => [Next]_vars
    BY SessionsAsk
<1>3. LifecycleInv /\ [Next]_vars => LifecycleInv'
    BY LifecycleStep
<1>4. LifecycleInv /\ DedupOK(db, clock) /\ [Next]_vars => DedupOK(db, clock)'
    BY DedupStep
<1> QED BY <1>1, <1>2, <1>3, <1>4, SessionsInvariant, PTL DEF SpecSessions

(* Clients that retry, time out and lose answers, and a facade that repeats *)
(* and forgets their calls, leave the stream with every producer's messages *)
(* in the order it numbered them, without a gap or a repetition, and with a *)
(* producers table that knows it (handle_post, handle of the facade).       *)
THEOREM SessionsWriteInOrder == SpecSessions => [](InOrderOnce /\ DedupRemembers)
<1>1. DedupOK(db, clock) => InOrderOnce /\ DedupRemembers
    BY DedupParts
<1> QED BY <1>1, SessionsKeepTheStream, PTL

(* All that clients, facade and restarts do together to a stream is, step   *)
(* by step, what IdempotentLog allows: entries come in their producer's     *)
(* order, until the log is closed (handle of the facade, handle_post).      *)
THEOREM SessionsWriteALog == SpecSessions => [][Log!Next]_(Log!vars)
<1>1. SessionsInv /\ [NextSessions]_allvars => [Next]_vars
    BY SessionsAsk
<1>2. LifecycleInv /\ DedupOK(db, clock) /\ [Next]_vars => [Log!Next]_(Log!vars)
    BY StepMaps
<1> QED BY <1>1, <1>2, SessionsInvariant, SessionsKeepTheStream, PTL DEF SpecSessions
=============================================================================
