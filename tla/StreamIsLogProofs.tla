-------------------------- MODULE StreamIsLogProofs --------------------------
(* DurableStream implements IdempotentLog, for every value of the constants. *)
EXTENDS DurableStreamProofs, StreamIsLog

(* The log, read through the mapping. *)
LEMMA MappedLog ==
    ASSUME NEW d, d = db
    PROVE  /\ DOMAIN log = DOMAIN d.messages
           /\ \A i \in DOMAIN d.messages : log[i] = d.messages[i].by
           /\ \A p, i : i \in DOMAIN d.messages => (Log!OfProducer(p, i) <=> By(d, p, i))
  BY DEF log, Log!OfProducer, By

(* A message of a stream with messages in Seq(Message) is latest in both.   *)
LEMMA MappedLatest ==
    ASSUME db \in Database, NEW p, NEW i
    PROVE  Log!LatestOf(p, i) <=> Latest(db, p, i)
<1>1. db.messages \in Seq(Message)
  BY DEF Database
<1>2. /\ Len(log) = Len(db.messages) /\ DOMAIN db.messages = 1 .. Len(db.messages)
      /\ Len(db.messages) \in Nat
  BY <1>1 DEF log
<1>3. i \in DOMAIN db.messages =>
        \A k \in i + 1 .. Len(db.messages) : k \in DOMAIN db.messages
  BY <1>2
<1> QED
  BY <1>2, <1>3, MappedLog DEF Log!LatestOf, Latest

(* An empty table of messages is the empty log, and nobody is forgotten.    *)
LEMMA MappedEmpty ==
    ASSUME db.messages = <<>>
    PROVE  log = <<>> /\ forgotten = {}
  BY DEF log, forgotten, Latest

(* The empty database is the initial log. *)
LEMMA MappedInit == Init => Log!Init
<1> SUFFICES ASSUME Init PROVE Log!Init
  OBVIOUS
<1>1. db = purge
  BY DEF Init
<1>2. db.messages = <<>> /\ db.meta = None
  BY <1>1 DEF purge
<1> QED
  BY <1>2, MappedEmpty DEF status, Log!Init

(* The same log at a later time: more producers may be forgotten. *)
LEMMA LaterForgets ==
    ASSUME db \in Database, clock \in Nat, clock' \in Nat, clock <= clock',
           db'.messages = db.messages
    PROVE  log' = log /\ forgotten \subseteq forgotten'
<1>1. log' = log
  BY DEF log
<1>2. \A p, i : Latest(db', p, i) <=> Latest(db, p, i)
  BY DEF Latest, By
<1>3. ASSUME NEW i \in DOMAIN db.messages, Lapsed(i) PROVE Lapsed(i)'
  <2>1. db.messages[i] \in Message
    BY DEF Database
  <2> QED
    BY <1>3, <2>1, NumbersAreNaturals DEF Lapsed, Message
<1>4. forgotten \subseteq forgotten'
  BY <1>2, <1>3 DEF forgotten
<1> QED
  BY <1>1, <1>4

(* A live stream is open or closed. *)
LEMMA MappedStatus ==
    ASSUME db \in Database, db.meta # None
    PROVE  /\ db.meta.soft_deleted => status = "gone"
           /\ ~db.meta.soft_deleted => status = IF db.meta.closed THEN "closed" ELSE "open"
  BY DEF status

LEMMA MappedStatusPrime ==
    ASSUME db' \in Database, db'.meta # None
    PROVE  /\ db'.meta.soft_deleted => status' = "gone"
           /\ ~db'.meta.soft_deleted => status' = IF db'.meta.closed THEN "closed" ELSE "open"
  BY DEF status

(* A step that leaves the log alone or removes it is Forget, Retire or      *)
(* Remove.                                                                  *)
LEMMA QuietMaps ==
    ASSUME db \in Database, db' \in Database, clock \in Nat, clock' \in Nat,
           clock <= clock', clock' = clock \/ db' = db, LogUntouched(db, db')
    PROVE  Log!Next
<1>1. CASE db' = purge
  <2>1. db'.messages = <<>> /\ db'.meta = None
    BY <1>1 DEF purge
  <2>2. log' = <<>> /\ forgotten' = {}
    BY <2>1 DEF log, forgotten, Latest
  <2>3. status' = "none"
    BY <2>1 DEF status
  <2> QED
    BY <2>2, <2>3 DEF Log!Next, Log!Remove
<1>2. CASE db' = db
  <2>1. log' = log /\ forgotten \subseteq forgotten'
    BY <1>2, LaterForgets
  <2>2. status' = status
    BY <1>2 DEF status
  <2> QED
    BY <2>1, <2>2 DEF Log!Next, Log!Forget
<1>3. CASE Quiet(db, db') /\ db' # db
  <2>1. /\ db.meta # None /\ db'.meta # None /\ db'.messages = db.messages
        /\ db'.meta.closed = db.meta.closed
        /\ db.meta.soft_deleted => db'.meta.soft_deleted
    BY <1>3 DEF Quiet
  <2>2. log' = log /\ forgotten \subseteq forgotten'
    BY <2>1, LaterForgets
  <2>3. CASE db'.meta.soft_deleted <=> db.meta.soft_deleted
    <3>1. status' = status
      BY <2>1, <2>3, MappedStatus, MappedStatusPrime
    <3> QED
      BY <2>2, <3>1 DEF Log!Next, Log!Forget
  <2>4. CASE db'.meta.soft_deleted /\ ~db.meta.soft_deleted
    <3>1. status \in {"open", "closed"} /\ status' = "gone"
      BY <2>1, <2>4, MappedStatus, MappedStatusPrime
    <3>2. forgotten' = forgotten
      BY <1>3, <2>1 DEF forgotten, Latest, By, Lapsed
    <3> QED
      BY <2>2, <3>1, <3>2 DEF Log!Next, Log!Retire
  <2> QED
    BY <2>1, <2>3, <2>4
<1> QED
  BY <1>1, <1>2, <1>3 DEF LogUntouched

(* A PUT that creates is Create. *)
LEMMA CreateMaps ==
    ASSUME db' \in Database, Creates
    PROVE  Log!Create
<1>1. PICK now \in Sampled, size \in Nat : Created(purge, gens, db', size, now)
  BY DEF Creates
<1>2. db'.meta # None /\ ~db'.meta.soft_deleted
  BY <1>1 DEF Created
<1>3. status' \in {"open", "closed"}
  BY <1>2, MappedStatusPrime
<1>4. \/ db'.messages = <<>>
      \/ \E m \in Message : db'.messages = <<m>> /\ m.by = None
  <2>1. CASE size = 0
    BY <1>1, <2>1, NoMessages DEF Created
  <2>2. CASE size # 0
    <3>1. PICK m \in Message : db'.messages = Append(<<>>, m) /\ m.by = None
      BY <1>1, <2>2, NoMessages DEF Created
    <3> QED
      BY <3>1
  <2> QED
    BY <2>1, <2>2
<1>5. log' \in {<<>>, <<None>>}
  BY <1>4 DEF log
<1>6. forgotten' = {}
  BY <1>4 DEF forgotten, Latest, By
<1> QED
  BY <1>3, <1>5, <1>6 DEF Log!Create

(* A close is Close. *)
LEMMA CloseMaps ==
    ASSUME db \in Database, db' \in Database, Sampled \subseteq Nat, clock' = clock, Closes
    PROVE  Log!Close
<1>1. PICK p \in Optional(ProducerHeaders), now \in Sampled :
         close_reply(db, p, now) = "accepted" /\ db' \in close_only(db, p, now)
  BY DEF Closes
<1>2. db.meta # None /\ ~db.meta.soft_deleted /\ now \in Nat
  BY <1>1 DEF close_reply
<1>3. CloseEffect(db, p, db')
  BY <1>1, <1>2, Closed
<1>4. /\ db'.meta # None /\ ~db'.meta.soft_deleted /\ db'.meta.closed
      /\ db'.messages = db.messages
  BY <1>2, <1>3 DEF CloseEffect
<1>5. status \in {"open", "closed"} /\ status' = "closed"
  BY <1>2, <1>4, MappedStatus, MappedStatusPrime
<1>6. log' = log /\ forgotten' = forgotten
  BY <1>4 DEF log, forgotten, Latest, By, Lapsed
<1> QED
  BY <1>5, <1>6 DEF Log!Close

(* An append changes only who is forgotten of its own producer. *)
LEMMA AppendForgets ==
    ASSUME NEW m \in Message, NEW n \in Nat, Extends(db, db', m, n), clock' = clock
    PROVE  /\ forgotten \ Log!Owner(m.by) \subseteq forgotten'
           /\ forgotten' \subseteq forgotten \union Log!Owner(m.by)
<1>1. ASSUME NEW p \in Producers, p \notin Log!Owner(m.by)
      PROVE  /\ \A i \in 1 .. n : Latest(db', p, i) <=> Latest(db, p, i)
             /\ ~Latest(db', p, n + 1)
  <2>1. /\ \A i \in 1 .. n : By(db', p, i) <=> By(db, p, i)
        /\ ~By(db', p, n + 1)
    BY <1>1, AppendedBy DEF Log!Owner
  <2>2. /\ Len(db.messages) = n /\ Len(db'.messages) = n + 1
        /\ DOMAIN db.messages = 1 .. n /\ DOMAIN db'.messages = 1 .. n + 1
    BY DEF Extends
  <2>3. ASSUME NEW i \in 1 .. n
        PROVE  /\ i + 1 .. n + 1 = (i + 1 .. n) \union {n + 1}
               /\ i + 1 .. n \subseteq 1 .. n
    OBVIOUS
  <2> QED
    BY <2>1, <2>2, <2>3 DEF Latest
<1>2. ASSUME NEW i \in 1 .. n
      PROVE  Lapsed(i)' <=> Lapsed(i)
  BY DEF Lapsed, Extends
<1>3. DOMAIN db.messages = 1 .. n /\ DOMAIN db'.messages = 1 .. n + 1
  BY DEF Extends
<1>4. ASSUME NEW p \in Producers, p \notin Log!Owner(m.by)
      PROVE  p \in forgotten <=> p \in forgotten'
  <2>1. \A i : i \in 1 .. n + 1 <=> i \in 1 .. n \/ i = n + 1
    OBVIOUS
  <2> QED
    BY <1>1, <1>2, <1>3, <1>4, <2>1 DEF forgotten
<1>5. forgotten \subseteq Producers /\ forgotten' \subseteq Producers
  BY DEF forgotten
<1> QED
  BY <1>4, <1>5

(* An accepted POST is an AppendEntry of its producer. *)
LEMMA AppendMaps ==
    ASSUME db \in Database, db' \in Database, clock \in Nat, clock' = clock,
           \A now \in Sampled : now \in 0 .. clock /\ now \in Nat,
           DedupOK(db, clock), Appends
    PROVE  \E w \in ProducerHeaders \union {None} : Log!AppendEntry(w)
<1>1. PICK r \in PostRequests, now \in Sampled :
         post_reply(db, r, now) = "accepted" /\ db' \in posted(db, r, now)
  BY DEF Appends
<1>2. /\ db.meta # None /\ ~db.meta.soft_deleted /\ ~db.meta.closed
      /\ verdict(db, r.producer, now) = "accepted"
  BY <1>1 DEF post_reply, append_reply
<1>3. PostEffect(db, r, now, db')
  BY <1>1, <1>2, Posted
<1>4. PICK m \in Message : db'.messages = Append(db.messages, m) /\ m.by = r.producer
  BY <1>3 DEF PostEffect
<1>5. PICK n \in Nat : Extends(db, db', m, n)
  BY <1>4, AppendedLog
<1> DEFINE w == r.producer
<1>6. w \in ProducerHeaders \union {None}
  BY DEF PostRequests, Optional
<1>7. status = "open" /\ status' \in {"open", "closed"}
  <2>1. db'.meta # None /\ ~db'.meta.soft_deleted
    BY <1>2, <1>3 DEF PostEffect
  <2> QED
    BY <1>2, <2>1, MappedStatus, MappedStatusPrime
<1>8. log' = Append(log, w)
  <2>1. /\ log = [i \in 1 .. n |-> db.messages[i].by]
        /\ log' = [i \in 1 .. n + 1 |-> db'.messages[i].by]
    BY <1>5 DEF log, Extends
  <2>2. /\ \A i \in 1 .. n : db'.messages[i].by = db.messages[i].by
        /\ db'.messages[n + 1].by = w
    BY <1>4, <1>5 DEF Extends
  <2>3. Append(log, w) = [i \in 1 .. n + 1 |-> IF i = n + 1 THEN w ELSE log[i]]
    BY <2>1
  <2> QED
    BY <2>1, <2>2, <2>3
<1>9. Log!Expected(w)
  <2>1. CASE w = None
    BY <2>1 DEF Log!Expected
  <2>2. CASE w \in ProducerHeaders
    <3>1. w.id \in Producers
      BY <2>2 DEF ProducerHeaders
    <3>2. \/ w.seq = 0 /\ \A i \in DOMAIN db.messages : ~By(db, w.id, i)
          \/ \E l \in DOMAIN db.messages :
                /\ Latest(db, w.id, l)
                /\ \/ Follows(w, db.messages[l].by)
                   \/ w.seq = 0 /\ Expired(db.messages[l], clock)
      <4>1. Remembered(db, w.id, clock)
        BY <1>2, <3>1 DEF DedupOK
      <4> QED
        BY <1>2, <2>2, <4>1, AcceptedFollows
    <3>3. CASE w.seq = 0 /\ \A i \in DOMAIN db.messages : ~By(db, w.id, i)
      BY <3>3, MappedLog DEF Log!Expected
    <3>4. ASSUME NEW l \in DOMAIN db.messages, Latest(db, w.id, l),
                 Follows(w, db.messages[l].by)
          PROVE  Log!Expected(w)
      <4>1. Log!Continues(w, log[l]) /\ l \in DOMAIN log /\ Log!LatestOf(w.id, l)
        BY <3>4, MappedLog, MappedLatest DEF Follows, Log!Continues
      <4> QED
        BY <4>1 DEF Log!Expected
    <3>5. ASSUME NEW l \in DOMAIN db.messages, Latest(db, w.id, l),
                 w.seq = 0, Expired(db.messages[l], clock)
          PROVE  Log!Expected(w)
      <4>1. w.id \in forgotten
        BY <3>1, <3>5 DEF forgotten, Lapsed, Expired
      <4> QED
        BY <3>5, <4>1 DEF Log!Expected
    <3> QED
      BY <3>2, <3>3, <3>4, <3>5
  <2> QED
    BY <1>6, <2>1, <2>2
<1>10. /\ forgotten \ Log!Owner(w) \subseteq forgotten'
       /\ forgotten' \subseteq forgotten \union Log!Owner(w)
  BY <1>4, <1>5, AppendForgets
<1> QED
  BY <1>6, <1>7, <1>8, <1>9, <1>10 DEF Log!AppendEntry

(* Only Tick moves the clock, and it leaves the tables alone. *)
LEMMA ClockOrTables ==
    ASSUME [Next]_vars
    PROVE  clock' = clock \/ db' = db
  BY DEF Next, vars, handle_put, handle_post, handle_close_only, handle_delete,
         visible_meta, read_snapshot, touch_access, fork_acquire, fork_release,
         Restart, Tick

(* Every step of the stream is a step of the log, or changes nothing of it. *)
LEMMA StepMaps ==
    ASSUME LifecycleInv, DedupOK(db, clock), [Next]_vars
    PROVE  [Log!Next]_(Log!vars)
<1>1. /\ db \in Database /\ clock \in Nat /\ clock <= clock'
      /\ \A now \in Sampled : now \in 0 .. clock /\ now \in Nat
  BY ClockAdvances DEF LifecycleInv, TypeOK, Sampled
<1>2. db' \in Database /\ clock' \in Nat
  BY LifecycleStep DEF LifecycleInv, TypeOK
<1>3. clock' = clock \/ db' = db
  BY ClockOrTables
<1>4. CASE LogUntouched(db, db')
  BY <1>1, <1>2, <1>3, <1>4, QuietMaps
<1>5. CASE ~LogUntouched(db, db')
  <2>1. clock' = clock
    BY <1>3, <1>5 DEF LogUntouched
  <2>2. CASE Creates
    BY <1>2, <2>2, CreateMaps DEF Log!Next
  <2>3. CASE Appends
    BY <1>1, <1>2, <2>1, <2>3, AppendMaps DEF Log!Next
  <2>4. CASE Closes
    BY <1>1, <1>2, <2>1, <2>4, CloseMaps DEF Log!Next
  <2> QED
    BY <1>5, <2>2, <2>3, <2>4, StepCases
<1> QED
  BY <1>4, <1>5

(* The handlers of a stream actor, however requests are retried, delayed,   *)
(* reordered and swept, implement the log that IdempotentLog describes.     *)
THEOREM StreamImplementsLog == Spec => ImplementsLog
<1>1. Init => Log!Init
  BY MappedInit
<1>2. LifecycleInv /\ DedupOK(db, clock) /\ [Next]_vars => [Log!Next]_(Log!vars)
  BY StepMaps
<1> QED
  BY <1>1, <1>2, DedupInvariant, PTL DEF Spec, ImplementsLog, Log!Spec
=============================================================================
