-------------------------- MODULE StreamReadsProofs --------------------------
(* Theorems about StreamReads, for every value of its constants.            *)
EXTENDS StreamReads, FiniteSetTheorems, SequenceTheorems, TLAPS

-----------------------------------------------------------------------------
(* Runs of messages: what a query finds, its size, its end and its order. *)

Run(g, a, b) == {[generation |-> g, offset |-> i] : i \in a + 1 .. b}

LEMMA RunElements ==
    ASSUME NEW g, NEW a \in Nat, NEW b \in Nat, NEW m \in Run(g, a, b)
    PROVE  /\ m.generation = g /\ m.offset \in Nat /\ a < m.offset /\ m.offset <= b
           /\ m = [generation |-> g, offset |-> m.offset]
BY DEF Run

LEMMA RunMember ==
    ASSUME NEW g, NEW a \in Nat, NEW b \in Nat, NEW i \in a + 1 .. b
    PROVE  [generation |-> g, offset |-> i] \in Run(g, a, b)
BY DEF Run

LEMMA RunEmpty ==
    ASSUME NEW g, NEW a \in Nat, NEW b \in Nat
    PROVE  Run(g, a, b) = {} <=> b <= a
<1>1. b <= a => Run(g, a, b) = {}
  <2> SUFFICES ASSUME b <= a, NEW m \in Run(g, a, b) PROVE FALSE
    OBVIOUS
  <2> QED
    BY RunElements
<1>2. a < b => Run(g, a, b) # {}
  <2> SUFFICES ASSUME a < b PROVE Run(g, a, b) # {}
    OBVIOUS
  <2>1. [generation |-> g, offset |-> b] \in Run(g, a, b)
    BY RunMember
  <2> QED
    BY <2>1
<1> QED
  BY <1>1, <1>2

LEMMA RunDelivered ==
    ASSUME NEW g \in 1 .. MaxGeneration, NEW a \in Nat, NEW b \in 0 .. MaxTail
    PROVE  Run(g, a, b) \subseteq Delivered
<1> SUFFICES ASSUME NEW i \in a + 1 .. b
             PROVE  [generation |-> g, offset |-> i] \in Delivered
  BY DEF Run
<1>1. i \in 1 .. MaxTail
  BY BoundsAreNaturals
<1> QED
  BY <1>1 DEF Delivered

LEMMA RunSize ==
    ASSUME NEW g, NEW a \in Nat, NEW b \in Nat
    PROVE  /\ IsFiniteSet(Run(g, a, b))
           /\ Cardinality(Run(g, a, b)) = IF a < b THEN b - a ELSE 0
<1> DEFINE f == [i \in a + 1 .. b |-> [generation |-> g, offset |-> i]]
<1>1. f \in Bijection(a + 1 .. b, Run(g, a, b))
  <2>1. f \in [a + 1 .. b -> Run(g, a, b)]
    BY DEF Run
  <2>2. IsInjective(f)
    <3> SUFFICES ASSUME NEW i \in a + 1 .. b, NEW j \in a + 1 .. b, f[i] = f[j] PROVE i = j
      BY DEF IsInjective
    <3>1. f[i].offset = i /\ f[j].offset = j
      OBVIOUS
    <3> QED
      BY <3>1
  <2>3. \A m \in Run(g, a, b) : \E i \in a + 1 .. b : f[i] = m
    BY DEF Run
  <2> QED
    BY <2>1, <2>2, <2>3 DEF Bijection, Injection, Surjection
<1>2. /\ IsFiniteSet(a + 1 .. b)
      /\ Cardinality(a + 1 .. b) = IF a + 1 > b THEN 0 ELSE b - (a + 1) + 1
  BY FS_Interval
<1>3. /\ IsFiniteSet(Run(g, a, b))
      /\ Cardinality(Run(g, a, b)) = Cardinality(a + 1 .. b)
  <2>1. ExistsBijection(a + 1 .. b, Run(g, a, b))
    BY <1>1 DEF ExistsBijection
  <2> HIDE DEF f
  <2> QED
    BY <2>1, <1>2, FS_Bijection
<1> QED
  BY <1>2, <1>3

LEMMA RunEnd ==
    ASSUME NEW g, NEW a \in Nat, NEW b \in Nat, a < b
    PROVE  Max({m.offset : m \in Run(g, a, b)}) = b
<1> DEFINE offsets == {m.offset : m \in Run(g, a, b)}
<1>1. b \in offsets
  <2>1. [generation |-> g, offset |-> b] \in Run(g, a, b)
    BY RunMember
  <2> QED
    BY <2>1
<1>2. \A i \in offsets : i \in Nat /\ i <= b
  BY RunElements
<1> HIDE DEF offsets
<1>3. \A x \in offsets : (\A y \in offsets : x >= y) => x = b
  BY <1>1, <1>2
<1>4. \A y \in offsets : b >= y
  BY <1>2
<1>5. Max(offsets) = b
  BY <1>1, <1>3, <1>4 DEF Max
<1> QED
  BY <1>5 DEF offsets

(* A strictly increasing sequence of all messages of a run lists it one by  *)
(* one: between two offsets there is room for no more messages than they    *)
(* are apart.                                                               *)
LEMMA RunInOrder ==
    ASSUME NEW g, NEW a \in Nat, NEW b \in Nat, a <= b,
           NEW s \in [1 .. b - a -> Run(g, a, b)],
           \A i, j \in 1 .. b - a : i < j => s[i].offset < s[j].offset,
           NEW i \in 1 .. b - a
    PROVE  s[i] = [generation |-> g, offset |-> a + i]
<1> DEFINE o == s[i].offset
<1>0. /\ o \in Nat /\ a < o /\ o <= b
      /\ \A k \in 1 .. b - a : s[k].offset \in Nat /\ a < s[k].offset /\ s[k].offset <= b
  BY RunElements
<1>1. i <= o - a
  <2> DEFINE f == [k \in 1 .. i |-> s[k].offset]
  <2>1. f \in Injection(1 .. i, a + 1 .. o)
    <3>1. \A k \in 1 .. i : k < i => s[k].offset < o
      OBVIOUS
    <3>2. f \in [1 .. i -> a + 1 .. o]
      BY <1>0, <3>1
    <3>3. \A k, l \in 1 .. i : s[k].offset = s[l].offset => k = l
      <4> SUFFICES ASSUME NEW k \in 1 .. i, NEW l \in 1 .. i, s[k].offset = s[l].offset
                   PROVE  ~(k < l) /\ ~(l < k)
        OBVIOUS
      <4> QED
        BY <1>0
    <3> QED
      BY <3>2, <3>3 DEF Injection, IsInjective
  <2> HIDE DEF o
  <2>4. /\ IsFiniteSet(a + 1 .. o)
        /\ Cardinality(a + 1 .. o) = IF a + 1 > o THEN 0 ELSE o - (a + 1) + 1
    BY <1>0, FS_Interval
  <2>5. /\ IsFiniteSet(1 .. i)
        /\ Cardinality(1 .. i) = IF 1 > i THEN 0 ELSE i - 1 + 1
    BY FS_Interval
  <2>2. Cardinality(a + 1 .. o) = o - a /\ Cardinality(1 .. i) = i
    BY <1>0, <2>4, <2>5
  <2>3. Cardinality(1 .. i) <= Cardinality(a + 1 .. o)
    BY <2>1, <2>4, FS_Injection
  <2> QED
    BY <2>2, <2>3
<1>2. o <= a + i
  <2> DEFINE f == [k \in i .. b - a |-> s[k].offset]
  <2>1. f \in Injection(i .. b - a, o .. b)
    <3>1. \A k \in i .. b - a : i < k => o < s[k].offset
      OBVIOUS
    <3>2. f \in [i .. b - a -> o .. b]
      BY <1>0, <3>1
    <3>3. \A k, l \in i .. b - a : s[k].offset = s[l].offset => k = l
      <4> SUFFICES ASSUME NEW k \in i .. b - a, NEW l \in i .. b - a,
                          s[k].offset = s[l].offset
                   PROVE  ~(k < l) /\ ~(l < k)
        OBVIOUS
      <4> QED
        BY <1>0
    <3> QED
      BY <3>2, <3>3 DEF Injection, IsInjective
  <2> HIDE DEF o
  <2>4. /\ IsFiniteSet(o .. b)
        /\ Cardinality(o .. b) = IF o > b THEN 0 ELSE b - o + 1
    BY <1>0, FS_Interval
  <2>5. /\ IsFiniteSet(i .. b - a)
        /\ Cardinality(i .. b - a) = IF i > b - a THEN 0 ELSE (b - a) - i + 1
    BY FS_Interval
  <2>2. Cardinality(o .. b) = b - o + 1 /\ Cardinality(i .. b - a) = (b - a) - i + 1
    BY <1>0, <2>4, <2>5
  <2>3. Cardinality(i .. b - a) <= Cardinality(o .. b)
    BY <2>1, <2>4, FS_Injection
  <2> QED
    BY <1>0, <2>2, <2>3
<1>3. s[i] = [generation |-> g, offset |-> o]
  BY RunElements
<1> HIDE DEF o
<1>4. o = a + i
  BY <1>0, <1>1, <1>2
<1> QED
  BY <1>3, <1>4

LEMMA OrderedRun ==
    ASSUME NEW g, NEW a \in Nat, NEW b \in Nat
    PROVE  LET n == IF a < b THEN b - a ELSE 0
           IN  /\ ordered(Run(g, a, b)) \in [1 .. n -> Run(g, a, b)]
               /\ \A i \in 1 .. n :
                     ordered(Run(g, a, b))[i] = [generation |-> g, offset |-> a + i]
<1> DEFINE n == IF a < b THEN b - a ELSE 0
           S == Run(g, a, b)
           Sorted(s) == \A i, j \in DOMAIN s : i < j => s[i].offset < s[j].offset
<1>1. Cardinality(S) = n /\ n \in Nat
  BY RunSize
<1>2. \E s \in [1 .. n -> S] : Sorted(s)
  <2> DEFINE s == [i \in 1 .. n |-> [generation |-> g, offset |-> a + i]]
  <2>1. s \in [1 .. n -> S]
    BY RunMember
  <2>2. \A i \in 1 .. n : s[i].offset = a + i
    OBVIOUS
  <2>3. Sorted(s)
    BY <1>1, <2>2
  <2> QED
    BY <2>1, <2>3
<1>3. ordered(S) \in [1 .. n -> S] /\ Sorted(ordered(S))
  BY <1>1, <1>2 DEF ordered
<1>4. ASSUME NEW i \in 1 .. n PROVE ordered(S)[i] = [generation |-> g, offset |-> a + i]
  <2>1. a <= b /\ n = b - a
    BY <1>4
  <2> QED
    BY <1>3, <2>1, RunInOrder
<1> QED
  BY <1>3, <1>4

LEMMA StoredIsRun ==
    ASSUME meta \in Row, NEW a \in Nat, NEW cap \in Nat, meta # None
    PROVE  stored_messages(a, cap)
             = Run(meta.generation, a, IF meta.tail <= cap THEN meta.tail ELSE cap)
<1>1. meta.tail \in Nat
  BY BoundsAreNaturals DEF Row
<1>2. {n \in 1 .. meta.tail : a < n /\ n <= cap}
        = a + 1 .. (IF meta.tail <= cap THEN meta.tail ELSE cap)
  BY <1>1
<1> QED
  BY <1>2 DEF stored_messages, Run

-----------------------------------------------------------------------------
(* The invariant *)

(* Something was committed that the reader was not told of yet. *)
Unseen(r) == notifying \/ version # rd[r].seen

(* A row that was the meta row once: of the same generation there was       *)
(* nothing but appends since, and none after a close.                       *)
Past(row) ==
    /\ row.generation \in 1 .. gens
    /\ meta # None /\ meta.generation = row.generation =>
          row.tail <= meta.tail /\ (row.closed => meta.closed /\ row.tail = meta.tail)

(* A generation is never handed out again. *)
Newest == meta # None => meta.generation = gens

Going(r) == rd[r].pc \notin {"idle", "position", "now"}
Looking(r) == rd[r].pc \in {"lengths", "rows", "fresh", "touch"}

(* A client resumes behind every message it was sent of the stream.         *)
Received(r) ==
    \A i \in DOMAIN got[r] :
        /\ got[r][i].generation <= gens
        /\ meta # None /\ got[r][i].generation = meta.generation =>
              got[r][i].offset <= position[r] /\ got[r][i].offset <= meta.tail

(* ... and a request asks for what is behind them. *)
Resumes(r) ==
    /\ rd[r].seen <= version
    /\ Going(r) =>
        /\ rd[r].initial # None /\ Past(rd[r].initial)
        /\ \A i \in DOMAIN got[r] :
              /\ got[r][i].generation <= rd[r].initial.generation
              /\ got[r][i].generation = rd[r].initial.generation =>
                    got[r][i].offset <= rd[r].after
        /\ rd[r].pc = "wait" /\ rd[r].mode # "sse" => rd[r].after = rd[r].initial.tail

(* A look is at the generation of the request. *)
Looked(r) ==
    Looking(r) =>
        /\ rd[r].snapshot # None /\ Past(rd[r].snapshot)
        /\ rd[r].snapshot.generation = rd[r].initial.generation
        /\ rd[r].initial.tail <= rd[r].snapshot.tail
        /\ \A i \in DOMAIN got[r] :
              got[r][i].generation = rd[r].snapshot.generation =>
                  got[r][i].offset <= rd[r].snapshot.tail

(* A batch is a run of one generation, no older than the row that was       *)
(* looked at; once the row was looked at again it is of the same one.       *)
Fetched(r) ==
    rd[r].pc \in {"fresh", "touch"} =>
        \E g \in rd[r].snapshot.generation .. gens, b \in 0 .. MaxTail :
            /\ rd[r].batch = Run(g, rd[r].after, b)
            /\ meta # None /\ meta.generation = g => b <= meta.tail
            /\ rd[r].pc = "touch" /\ rd[r].batch # {} =>
                  g = rd[r].snapshot.generation /\ b <= rd[r].snapshot.tail

(* What a reader knows of the stream is true until the next commit. *)
Current(r) ==
    ~Unseen(r) =>
        /\ Looking(r) => meta # None /\ meta = rd[r].snapshot
        /\ rd[r].pc = "rows" =>
              /\ rd[r].after < meta.tail /\ rd[r].after < rd[r].upto
              /\ (rd[r].capped \/ rd[r].upto = meta.tail)
        /\ rd[r].pc \in {"fresh", "touch"} =>
              /\ rd[r].batch = {} => meta.tail <= rd[r].after
              /\ rd[r].batch # {} /\ ~rd[r].capped =>
                    rd[r].batch = Run(meta.generation, rd[r].after, meta.tail)
        /\ rd[r].pc = "wait" =>
              /\ meta # None /\ meta.generation = rd[r].initial.generation
              /\ meta.tail = rd[r].after /\ ~meta.closed

(* The end a client was told of is the end. *)
Ended(r) ==
    said[r] # None =>
        /\ said[r].generation <= gens
        /\ ClosedSaid(r) /\ said[r].via = "read" =>
              meta.closed /\ said[r].offset = meta.tail

(* The messages of one generation were sent in order. *)
Ascending(r) ==
    \A i, j \in DOMAIN got[r] :
        i < j /\ got[r][i].generation = got[r][j].generation
            => got[r][i].offset < got[r][j].offset

ReaderInv(r) ==
    /\ Received(r) /\ Resumes(r) /\ Looked(r) /\ Fetched(r) /\ Current(r) /\ Ended(r)
    /\ Ascending(r)

IInv == TypeOK /\ Newest /\ \A r \in Readers : ReaderInv(r)

(* The parts of the type that numbers come from. *)
LEMMA Numbers ==
    ASSUME TypeOK, NEW r \in Readers
    PROVE  /\ version \in Nat /\ gens \in Nat /\ MaxTail \in Nat /\ MaxGeneration \in Nat
           /\ MAX_READ_ROWS \in Nat \ {0}
           /\ rd[r] \in Request
           /\ rd[r].seen \in Nat /\ rd[r].after \in 0 .. MaxTail /\ rd[r].after \in Nat
           /\ rd[r].upto \in Nat
           /\ position[r] \in 0 .. MaxTail /\ position[r] \in Nat
           /\ got[r] \in Seq(Delivered)
           /\ \A i \in DOMAIN got[r] : /\ got[r][i].generation \in Nat
                                       /\ got[r][i].offset \in Nat
           /\ said[r] # None => said[r].generation \in Nat /\ said[r].offset \in Nat
           /\ meta # None => meta \in Row
           /\ rd[r].initial # None => rd[r].initial \in Row
           /\ rd[r].snapshot # None => rd[r].snapshot \in Row
           /\ rd[r].batch \subseteq Delivered
<1>1. /\ version \in Nat /\ gens \in Nat /\ MaxTail \in Nat /\ MaxGeneration \in Nat
      /\ MAX_READ_ROWS \in Nat \ {0}
      /\ rd[r] \in Request
      /\ position[r] \in 0 .. MaxTail /\ position[r] \in Nat
      /\ got[r] \in Seq(Delivered)
      /\ said[r] \in Answer \union {None} /\ meta \in Row \union {None}
  BY BoundsAreNaturals DEF TypeOK
<1>2. \A i \in DOMAIN got[r] : got[r][i] \in Delivered
  BY <1>1
<1>3. \A m \in Delivered : m.generation \in Nat /\ m.offset \in Nat
  BY <1>1 DEF Delivered
<1>4. \A m \in Answer : m.generation \in Nat /\ m.offset \in Nat
  BY <1>1 DEF Answer
<1>5. /\ rd[r].seen \in Nat /\ rd[r].after \in 0 .. MaxTail /\ rd[r].after \in Nat
      /\ rd[r].upto \in Nat
      /\ rd[r].initial \in Row \union {None} /\ rd[r].snapshot \in Row \union {None}
      /\ rd[r].batch \subseteq Delivered
  BY <1>1 DEF Request
<1> QED
  BY <1>1, <1>2, <1>3, <1>4, <1>5

LEMMA RowNumbers ==
    ASSUME NEW row \in Row
    PROVE  /\ row.generation \in 1 .. MaxGeneration /\ row.generation \in Nat
           /\ row.tail \in 0 .. MaxTail /\ row.tail \in Nat
           /\ row.closed \in BOOLEAN
           /\ row # None
BY BoundsAreNaturals, NoneIsNoRow DEF Row

-----------------------------------------------------------------------------
(* The writers *)

(* What a commit may do to the row: end the generation, begin a new one, or *)
(* append to the one there is, unless it is closed.                         *)
Grown ==
    \/ meta' = None /\ gens' = gens
    \/ /\ meta = None /\ gens' = gens + 1
       /\ meta' \in Row /\ meta'.generation = gens'
    \/ /\ meta # None /\ gens' = gens
       /\ meta' \in Row /\ meta'.generation = meta.generation
       /\ meta.tail <= meta'.tail
       /\ meta.closed => meta'.closed /\ meta'.tail = meta.tail

Committed ==
    /\ Grown
    /\ notifying' = TRUE /\ version' = version
    /\ commits' \in 0 .. MaxCommits /\ gens' \in 0 .. MaxGeneration
    /\ UNCHANGED <<rd, clients>>

LEMMA CommitGrows ==
    ASSUME TypeOK,
           handle_put \/ handle_post \/ handle_close_only \/ retire \/ fork_release
    PROVE  Committed
<1>0. gens \in 0 .. MaxGeneration /\ commits \in 0 .. MaxCommits /\ meta \in Row \union {None}
  BY DEF TypeOK
<1>2. CASE handle_put
  <2>1. PICK first \in {0, 1}, closed \in BOOLEAN :
           /\ meta = None /\ gens < MaxGeneration /\ first <= MaxTail
           /\ gens' = gens + 1
           /\ commit([generation |-> gens', tail |-> first, closed |-> closed,
                      soft_deleted |-> FALSE])
    BY <1>2 DEF handle_put
  <2>2. gens' \in 1 .. MaxGeneration /\ first \in 0 .. MaxTail
    BY <2>1, <1>0, BoundsAreNaturals
  <2>3. meta' = [generation |-> gens', tail |-> first, closed |-> closed,
                 soft_deleted |-> FALSE]
    BY <2>1 DEF commit
  <2>4. meta' \in Row /\ meta'.generation = gens'
    BY <2>2, <2>3 DEF Row
  <2>5. Grown
    BY <2>1, <2>4 DEF Grown
  <2>6. commits < MaxCommits /\ commits' = commits + 1 /\ notifying' = TRUE
        /\ UNCHANGED <<version, rd, clients>>
    BY <2>1 DEF commit
  <2> QED
    BY <1>0, <2>2, <2>5, <2>6, BoundsAreNaturals DEF Committed
<1>3. CASE handle_post
  <2>1. PICK close \in BOOLEAN :
           /\ meta # None /\ ~meta.soft_deleted /\ ~meta.closed /\ meta.tail < MaxTail
           /\ gens' = gens
           /\ commit([meta EXCEPT !.tail = @ + 1, !.closed = close])
    BY <1>3 DEF handle_post
  <2>2. meta \in Row
    BY <1>0, <2>1
  <2>3. meta' = [meta EXCEPT !.tail = meta.tail + 1, !.closed = close]
    BY <2>1, <2>2 DEF commit, Row
  <2>4. /\ meta'.generation = meta.generation /\ meta'.tail = meta.tail + 1
        /\ meta' \in Row
    <3>1. meta.tail + 1 \in 0 .. MaxTail
      BY <2>1, <2>2, RowNumbers, BoundsAreNaturals
    <3>2. meta'.generation = meta.generation /\ meta'.tail = meta.tail + 1
      BY <2>2, <2>3 DEF Row
    <3>3. meta' \in Row
      BY <2>2, <2>3, <3>1 DEF Row
    <3> QED
      BY <3>2, <3>3
  <2>5. Grown
    BY <2>1, <2>2, <2>4, RowNumbers DEF Grown
  <2>6. commits < MaxCommits /\ commits' = commits + 1 /\ notifying' = TRUE
        /\ UNCHANGED <<version, rd, clients>>
    BY <2>1 DEF commit
  <2> QED
    BY <1>0, <2>1, <2>5, <2>6, BoundsAreNaturals DEF Committed
<1>4. CASE handle_close_only
  <2>1. meta # None /\ gens' = gens /\ commit([meta EXCEPT !.closed = TRUE]) /\ meta \in Row
    BY <1>4, <1>0 DEF handle_close_only
  <2>2. meta' = [meta EXCEPT !.closed = TRUE]
    BY <2>1 DEF commit
  <2>3. /\ meta'.generation = meta.generation /\ meta'.tail = meta.tail /\ meta'.closed
        /\ meta' \in Row
    BY <2>1, <2>2 DEF Row
  <2>4. Grown
    BY <2>1, <2>3, RowNumbers DEF Grown
  <2>5. commits < MaxCommits /\ commits' = commits + 1 /\ notifying' = TRUE
        /\ UNCHANGED <<version, rd, clients>>
    BY <2>1 DEF commit
  <2> QED
    BY <1>0, <2>1, <2>4, <2>5, BoundsAreNaturals DEF Committed
<1>5. CASE retire
  <2>1. meta # None /\ gens' = gens /\ meta \in Row
        /\ (commit(None) \/ commit([meta EXCEPT !.soft_deleted = TRUE]))
    BY <1>5, <1>0 DEF retire
  <2>2. meta' = None \/ meta' = [meta EXCEPT !.soft_deleted = TRUE]
    BY <2>1 DEF commit
  <2>3. \/ meta' = None
        \/ /\ meta'.generation = meta.generation /\ meta'.tail = meta.tail
           /\ meta'.closed = meta.closed /\ meta' \in Row
    BY <2>1, <2>2 DEF Row
  <2>4. Grown
    BY <2>1, <2>3, RowNumbers DEF Grown
  <2>5. commits < MaxCommits /\ commits' = commits + 1 /\ notifying' = TRUE
        /\ UNCHANGED <<version, rd, clients>>
    BY <2>1 DEF commit
  <2> QED
    BY <1>0, <2>1, <2>4, <2>5, BoundsAreNaturals DEF Committed
<1>6. CASE fork_release
  <2>1. meta # None /\ gens' = gens /\ meta \in Row /\ (commit(meta) \/ commit(None))
    BY <1>6, <1>0 DEF fork_release
  <2>2. meta' = meta \/ meta' = None
    BY <2>1 DEF commit
  <2>3. Grown
    BY <2>1, <2>2, RowNumbers DEF Grown
  <2>4. commits < MaxCommits /\ commits' = commits + 1 /\ notifying' = TRUE
        /\ UNCHANGED <<version, rd, clients>>
    BY <2>1 DEF commit
  <2> QED
    BY <1>0, <2>1, <2>3, <2>4, BoundsAreNaturals DEF Committed
<1> QED
  BY <1>2, <1>3, <1>4, <1>5, <1>6

LEMMA PastStays ==
    ASSUME TypeOK, Newest, Grown, NEW row \in Row, Past(row)
    PROVE  Past(row)'
<1>1. row.generation \in Nat /\ row.tail \in Nat /\ gens \in Nat
  BY RowNumbers, BoundsAreNaturals DEF TypeOK
<1>2. meta # None => meta.tail \in Nat /\ meta.generation \in Nat
  BY RowNumbers DEF TypeOK
<1>3. meta' # None => meta' \in Row /\ meta'.tail \in Nat /\ meta'.generation \in Nat
  BY RowNumbers DEF Grown
<1> QED
  BY <1>1, <1>2, <1>3, NoneIsNoRow DEF Past, Newest, Grown

LEMMA CommitKeepsReader ==
    ASSUME TypeOK, Newest, Committed, NEW r \in Readers, ReaderInv(r)
    PROVE  ReaderInv(r)'
<1>1. /\ rd' = rd /\ position' = position /\ got' = got /\ said' = said
      /\ version' = version /\ notifying' = TRUE /\ Grown
  BY DEF Committed, clients
<1>2. meta # None => meta.tail \in Nat /\ meta.generation \in Nat /\ meta.generation = gens
  BY RowNumbers DEF TypeOK, Newest
<1>3. meta' # None => meta' \in Row /\ meta'.tail \in Nat /\ meta'.generation \in Nat
  BY <1>1, RowNumbers DEF Grown
<1>4. gens \in Nat /\ gens' \in Nat /\ gens <= gens'
  BY <1>1, BoundsAreNaturals DEF TypeOK, Grown
<1>5. Received(r)'
  <2> SUFFICES ASSUME NEW i \in DOMAIN got[r]
               PROVE  /\ got[r][i].generation <= gens'
                      /\ meta' # None /\ got[r][i].generation = meta'.generation =>
                            got[r][i].offset <= position[r] /\ got[r][i].offset <= meta'.tail
    BY <1>1 DEF Received
  <2>1. PICK g, o : g = got[r][i].generation /\ o = got[r][i].offset
    OBVIOUS
  <2>2. g \in Nat /\ o \in Nat
    BY <2>1, Numbers
  <2>3. /\ g <= gens
        /\ meta # None /\ g = meta.generation => o <= position[r] /\ o <= meta.tail
    BY <2>1 DEF ReaderInv, Received
  <2>4. g <= gens'
    BY <1>4, <2>2, <2>3
  <2>5. ASSUME meta' # None, g = meta'.generation
        PROVE  o <= position[r] /\ o <= meta'.tail
    <3>1. CASE meta = None /\ gens' = gens + 1 /\ meta'.generation = gens'
      BY <1>4, <2>2, <2>3, <2>5, <3>1
    <3>2. CASE /\ meta # None /\ meta'.generation = meta.generation
               /\ meta.tail <= meta'.tail
      BY <1>2, <1>3, <2>2, <2>3, <2>5, <3>2
    <3> QED
      BY <1>1, <2>5, <3>1, <3>2 DEF Grown
  <2> QED
    BY <2>1, <2>4, <2>5
<1>6. Resumes(r)'
  <2>1. Going(r) => Past(rd[r].initial)'
    BY <1>1, PastStays, Numbers DEF ReaderInv, Resumes
  <2> QED
    BY <1>1, <2>1 DEF Resumes, ReaderInv, Going, Past
<1>7. Looked(r)'
  <2>1. Looking(r) => Past(rd[r].snapshot)'
    BY <1>1, PastStays, Numbers DEF ReaderInv, Looked
  <2> QED
    BY <1>1, <2>1 DEF Looked, ReaderInv, Looking, Past
<1>8. Fetched(r)'
  <2> SUFFICES ASSUME rd[r].pc \in {"fresh", "touch"}
               PROVE \E g \in rd[r].snapshot.generation .. gens', b \in 0 .. MaxTail :
            /\ rd[r].batch = Run(g, rd[r].after, b)
            /\ meta' # None /\ meta'.generation = g => b <= meta'.tail
            /\ rd[r].pc = "touch" /\ rd[r].batch # {} =>
                  g = rd[r].snapshot.generation /\ b <= rd[r].snapshot.tail
    BY <1>1 DEF Fetched
  <2>1. PICK g \in rd[r].snapshot.generation .. gens, b \in 0 .. MaxTail :
            /\ rd[r].batch = Run(g, rd[r].after, b)
            /\ meta # None /\ meta.generation = g => b <= meta.tail
            /\ rd[r].pc = "touch" /\ rd[r].batch # {} =>
                  g = rd[r].snapshot.generation /\ b <= rd[r].snapshot.tail
    BY DEF ReaderInv, Fetched
  <2>2. rd[r].snapshot.generation \in Nat
    BY Numbers, RowNumbers DEF ReaderInv, Looked, Looking
  <2>3. g \in rd[r].snapshot.generation .. gens' /\ g <= gens /\ b \in Nat
    BY <2>1, <2>2, <1>4, BoundsAreNaturals
  <2>4. meta' # None /\ meta'.generation = g => b <= meta'.tail
    BY <1>1, <1>2, <1>3, <1>4, <2>1, <2>3 DEF Grown
  <2> QED
    BY <2>1, <2>3, <2>4
<1>9. Current(r)'
  BY <1>1 DEF Current, Unseen
<1>10. Ended(r)'
  BY <1>1, <1>2, <1>3, <1>4, Numbers DEF Ended, ReaderInv, ClosedSaid, Grown
<1>11. Ascending(r)'
  BY <1>1 DEF Ascending, ReaderInv
<1> QED
  BY <1>5, <1>6, <1>7, <1>8, <1>9, <1>10, <1>11 DEF ReaderInv

(* The notification of a commit changes nothing but what readers have seen. *)
LEMMA NotifyKeepsReader ==
    ASSUME TypeOK, notify_change, NEW r \in Readers, ReaderInv(r)
    PROVE  ReaderInv(r)'
<1>1. /\ rd' = rd /\ position' = position /\ got' = got /\ said' = said
      /\ version' = version + 1 /\ meta' = meta /\ gens' = gens
  BY DEF notify_change, clients
<1>2. version \in Nat /\ rd[r].seen \in Nat /\ rd[r].seen <= version
  BY Numbers DEF ReaderInv, Resumes
<1>3. Unseen(r)' /\ rd[r].seen <= version'
  BY <1>1, <1>2 DEF Unseen
<1>4. /\ Received(r)' /\ Looked(r)' /\ Ended(r)' /\ Ascending(r)'
  BY <1>1 DEF ReaderInv, Received, Looked, Ended, Ascending, ClosedSaid, Past, Looking
<1>5. Resumes(r)'
  BY <1>1, <1>3 DEF ReaderInv, Resumes, Past, Going
<1>6. Fetched(r)'
  BY <1>1 DEF ReaderInv, Fetched
<1>7. Current(r)'
  BY <1>3 DEF Current
<1> QED
  BY <1>4, <1>5, <1>6, <1>7 DEF ReaderInv

(* A restart ends every request; the clients keep what they were sent.      *)
LEMMA RestartKeepsReader ==
    ASSUME TypeOK, Restart, NEW r \in Readers, ReaderInv(r)
    PROVE  ReaderInv(r)'
<1>1. /\ position' = position /\ got' = got /\ said' = said
      /\ version' = 0 /\ meta' = meta /\ gens' = gens
      /\ rd'[r].pc = "idle" /\ rd'[r].seen = 0
  BY DEF Restart, clients, Idle
<1>2. Received(r)' /\ Ended(r)' /\ Ascending(r)'
  BY <1>1 DEF ReaderInv, Received, Ended, Ascending, ClosedSaid
<1>3. Resumes(r)' /\ Looked(r)' /\ Fetched(r)' /\ Current(r)'
  BY <1>1 DEF Resumes, Looked, Fetched, Current, Going, Looking
<1> QED
  BY <1>2, <1>3 DEF ReaderInv

-----------------------------------------------------------------------------
(* The readers: what each step makes of the request of its reader *)

Quiet == UNCHANGED <<meta, version, notifying, commits, gens>>

SameClient(r) == position'[r] = position[r] /\ got'[r] = got[r] /\ said'[r] = said[r]

(* Only the request of r changes, and it becomes q. *)
Becomes(r, q) == q \in Request /\ rd' = [rd EXCEPT ![r] = q]

LEMMA IdleIsRequest == Idle \in Request /\ Idle.pc = "idle" /\ Idle.seen = 0
BY BoundsAreNaturals DEF Idle, Request

(* A reader is not disturbed by the steps of another. *)
LEMMA Bystander ==
    ASSUME Quiet, NEW t \in Readers, rd'[t] = rd[t], SameClient(t), ReaderInv(t)
    PROVE  ReaderInv(t)'
BY DEF Quiet, SameClient, ReaderInv, Received, Resumes, Looked, Fetched, Current, Ended,
       Ascending, Past, Unseen, Going, Looking, ClosedSaid

(* What a client was sent and told stays right while it is told nothing. *)
LEMMA Untold ==
    ASSUME Quiet, NEW r \in Readers, SameClient(r), ReaderInv(r)
    PROVE  Received(r)' /\ Ended(r)' /\ Ascending(r)'
BY DEF Quiet, SameClient, ReaderInv, Received, Ended, Ascending, ClosedSaid

(* A request that has not looked at the stream yet, or not again, knows     *)
(* nothing that could be wrong.                                             *)
LEMMA NotGoing ==
    ASSUME NEW r \in Readers, ~Going(r)', rd'[r].seen <= version'
    PROVE  Resumes(r)' /\ Looked(r)' /\ Fetched(r)' /\ Current(r)'
BY DEF Going, Resumes, Looked, Looking, Fetched, Current

LEMMA NotLooking ==
    ASSUME NEW r \in Readers, rd'[r].pc \in {"subscribe", "permit", "visible"}
    PROVE  Looked(r)' /\ Fetched(r)' /\ Current(r)'
BY DEF Looked, Looking, Fetched, Current

LEMMA GiveUp ==
    ASSUME TypeOK, NEW r \in Readers, give_up(r)
    PROVE  Becomes(r, Idle) /\ UNCHANGED clients
BY IdleIsRequest DEF give_up, Becomes

LEMMA IdleInv ==
    ASSUME TypeOK, Quiet, NEW r \in Readers, Becomes(r, Idle)
    PROVE  Resumes(r)' /\ Looked(r)' /\ Fetched(r)' /\ Current(r)'
<1>1. rd'[r].pc = "idle" /\ rd'[r].seen = 0 /\ version' \in Nat
  BY IdleIsRequest DEF Becomes, TypeOK, Quiet
<1>2. ~Going(r)'
  BY <1>1 DEF Going
<1> QED
  BY <1>1, <1>2, NotGoing

(* The request goes on where it was, asking for the same. *)
LEMMA GoesOn ==
    ASSUME TypeOK, Quiet, NEW r \in Readers, SameClient(r), ReaderInv(r), Going(r),
           rd'[r].initial = rd[r].initial, rd'[r].after = rd[r].after,
           rd'[r].seen <= version, rd'[r].pc # "wait"
    PROVE  Resumes(r)'
BY DEF Quiet, SameClient, ReaderInv, Resumes, Past, Going

LEMMA StartStep ==
    ASSUME TypeOK, Quiet, NEW r \in Readers, ReaderInv(r), start(r)
    PROVE  (\E q : Becomes(r, q)) /\ UNCHANGED clients /\ ReaderInv(r)'
<1>1. PICK mode \in Modes, from \in Starts :
        rd' = [rd EXCEPT ![r] = [Idle EXCEPT !.pc = from, !.mode = mode, !.seen = version]]
  BY DEF start
<1>2. UNCHANGED clients /\ SameClient(r)
  BY DEF start, clients, SameClient
<1> DEFINE q == [Idle EXCEPT !.pc = from, !.mode = mode, !.seen = version]
<1>3. q \in Request /\ q.pc \in {"position", "now"} /\ q.seen = version
  BY RequestsAreReads, IdleIsRequest DEF Request, Idle, TypeOK
<1> HIDE DEF q
<1>4. Becomes(r, q) /\ rd'[r] = q
  BY <1>1, <1>3 DEF Becomes, q, TypeOK
<1>5. ~Going(r)' /\ rd'[r].seen <= version'
  BY <1>3, <1>4 DEF Going, Quiet, TypeOK
<1> QED
  BY <1>2, <1>4, <1>5, NotGoing, Untold DEF ReaderInv

LEMMA HangUpStep ==
    ASSUME TypeOK, Quiet, NEW r \in Readers, ReaderInv(r), give_up(r)
    PROVE  Becomes(r, Idle) /\ UNCHANGED clients /\ ReaderInv(r)'
<1>1. Becomes(r, Idle) /\ UNCHANGED clients
  BY GiveUp
<1>2. SameClient(r)
  BY <1>1 DEF clients, SameClient
<1> QED
  BY <1>1, <1>2, IdleInv, Untold DEF ReaderInv

LEMMA SubscribeStep ==
    ASSUME TypeOK, Quiet, NEW r \in Readers, ReaderInv(r),
           subscribe(r) \/ wake(r) \/ (timeout(r) /\ rd[r].mode = "sse")
    PROVE  (\E q : Becomes(r, q)) /\ UNCHANGED clients /\ ReaderInv(r)'
<1>0. /\ rd[r] \in Request /\ version \in Nat /\ rd[r].seen \in Nat
      /\ rd[r].seen <= version
  BY Numbers DEF ReaderInv, Resumes
<1>1. /\ UNCHANGED clients /\ rd[r].pc \in {"subscribe", "wait"}
      /\ \E seen \in {version, rd[r].seen}, woken \in {TRUE, rd[r].woken} :
            rd' = [rd EXCEPT ![r] = [rd[r] EXCEPT !.pc = "permit", !.seen = seen,
                                                  !.woken = woken]]
  <2>1. CASE subscribe(r)
    <3>1. rd' = [rd EXCEPT ![r] = [rd[r] EXCEPT !.pc = "permit", !.seen = version,
                                                !.woken = rd[r].woken]]
      BY <2>1, <1>0 DEF subscribe, TypeOK, Request
    <3> QED
      BY <2>1, <3>1 DEF subscribe
  <2>2. CASE wake(r)
    <3>1. rd' = [rd EXCEPT ![r] = [rd[r] EXCEPT !.pc = "permit", !.seen = version,
                                                !.woken = TRUE]]
      BY <2>2, <1>0 DEF wake, TypeOK, Request
    <3> QED
      BY <2>2, <3>1 DEF wake
  <2>3. CASE timeout(r) /\ rd[r].mode = "sse"
    <3>1. rd' = [rd EXCEPT ![r] = [rd[r] EXCEPT !.pc = "permit", !.seen = rd[r].seen,
                                                !.woken = rd[r].woken]]
      BY <2>3, <1>0 DEF timeout, TypeOK, Request
    <3> QED
      BY <2>3, <3>1 DEF timeout
  <2> QED
    BY <2>1, <2>2, <2>3
<1>2. PICK seen \in {version, rd[r].seen}, woken \in {TRUE, rd[r].woken} :
        rd' = [rd EXCEPT ![r] = [rd[r] EXCEPT !.pc = "permit", !.seen = seen,
                                              !.woken = woken]]
  BY <1>1
<1> DEFINE q == [rd[r] EXCEPT !.pc = "permit", !.seen = seen, !.woken = woken]
<1>3. /\ q \in Request /\ q.pc = "permit" /\ q.seen = seen
      /\ q.initial = rd[r].initial /\ q.after = rd[r].after
  BY <1>0 DEF Request
<1> HIDE DEF q
<1>4. Becomes(r, q) /\ rd'[r] = q
  BY <1>2, <1>3 DEF Becomes, q, TypeOK
<1>5. SameClient(r)
  BY <1>1 DEF clients, SameClient
<1>6. Resumes(r)'
  <2>1. Going(r) /\ rd'[r].seen <= version /\ rd'[r].pc # "wait"
    BY <1>0, <1>1, <1>3, <1>4 DEF Going
  <2> QED
    BY <1>3, <1>4, <1>5, <2>1, GoesOn
<1>7. Looked(r)' /\ Fetched(r)' /\ Current(r)'
  BY <1>3, <1>4, NotLooking
<1> QED
  BY <1>1, <1>4, <1>5, <1>6, <1>7, Untold DEF ReaderInv

(* A read that begins asks for what is behind the client's messages.        *)
LEMMA HandleGetStep ==
    ASSUME TypeOK, Newest, Quiet, NEW r \in Readers, ReaderInv(r), handle_get(r), ~give_up(r),
           ~(rd[r].pc = "now" /\ rd[r].mode = "get")
    PROVE  (\E q : Becomes(r, q)) /\ UNCHANGED clients /\ ReaderInv(r)'
<1>1. /\ rd[r] \in Request /\ rd[r].seen <= version /\ position[r] \in 0 .. MaxTail
      /\ rd[r].pc \in {"position", "now"}
  BY Numbers DEF ReaderInv, Resumes, handle_get
<1>2. PICK pc \in {"subscribe", "permit"}, offset \in {meta.tail, position[r]} :
        rd' = [rd EXCEPT ![r] = [rd[r] EXCEPT !.pc = pc, !.initial = meta, !.after = offset]]
  <2> DEFINE pc == IF rd[r].mode = "sse" THEN "subscribe" ELSE "permit"
             offset == IF rd[r].pc = "now" THEN meta.tail ELSE position[r]
  <2>1. rd' = [rd EXCEPT ![r].pc = pc, ![r].initial = meta, ![r].after = offset]
    BY DEF handle_get
  <2>2. rd' = [rd EXCEPT ![r] = [rd[r] EXCEPT !.pc = pc, !.initial = meta, !.after = offset]]
    BY <2>1, <1>1 DEF TypeOK, Request
  <2> QED
    BY <2>2
<1>3. meta # None /\ UNCHANGED clients
  BY DEF handle_get
<1>4. SameClient(r)
  BY <1>3 DEF clients, SameClient
<1>5. meta \in Row /\ meta.tail \in 0 .. MaxTail
  BY <1>3, Numbers, RowNumbers
<1> DEFINE q == [rd[r] EXCEPT !.pc = pc, !.initial = meta, !.after = offset]
<1>6. /\ q \in Request /\ q.pc = pc /\ q.seen = rd[r].seen
      /\ q.initial = meta /\ q.after = offset
  BY <1>1, <1>5 DEF Request
<1> HIDE DEF q
<1>7. Becomes(r, q) /\ rd'[r] = q
  BY <1>2, <1>6 DEF Becomes, q, TypeOK
<1>8. Resumes(r)'
  <2>1. Past(meta)
    BY <1>3, <1>5, RowNumbers DEF Past, Newest, TypeOK
  <2>2. \A i \in DOMAIN got[r] :
           /\ got[r][i].generation <= meta.generation
           /\ got[r][i].generation = meta.generation => got[r][i].offset <= offset
    BY <1>3 DEF ReaderInv, Received, Newest
  <2>3. Past(meta)'
    BY <2>1 DEF Past, Quiet
  <2>4. /\ rd'[r].initial = meta /\ rd'[r].after = offset /\ rd'[r].pc # "wait"
        /\ rd'[r].seen <= version /\ meta' = meta /\ version' = version /\ got'[r] = got[r]
    BY <1>1, <1>2, <1>4, <1>6, <1>7 DEF Quiet, SameClient
  <2> QED
    BY <1>3, <2>2, <2>3, <2>4 DEF Resumes
<1>9. Looked(r)' /\ Fetched(r)' /\ Current(r)'
  BY <1>2, <1>6, <1>7, NotLooking
<1> QED
  BY <1>3, <1>4, <1>7, <1>8, <1>9, Untold DEF ReaderInv

(* The permit: the request only goes on. *)
LEMMA AcquireStep ==
    ASSUME TypeOK, Quiet, NEW r \in Readers, ReaderInv(r), try_acquire(r), ~give_up(r)
    PROVE  (\E q : Becomes(r, q)) /\ UNCHANGED clients /\ ReaderInv(r)'
<1>1. /\ rd[r] \in Request /\ rd[r].pc = "permit" /\ UNCHANGED clients
      /\ rd' = [rd EXCEPT ![r] = [rd[r] EXCEPT !.pc = "visible"]]
  BY Numbers DEF try_acquire, TypeOK, Request
<1> DEFINE q == [rd[r] EXCEPT !.pc = "visible"]
<1>2. /\ q \in Request /\ q.pc = "visible" /\ q.seen = rd[r].seen
      /\ q.initial = rd[r].initial /\ q.after = rd[r].after
  BY <1>1 DEF Request
<1> HIDE DEF q
<1>3. Becomes(r, q) /\ rd'[r] = q
  BY <1>1, <1>2 DEF Becomes, q, TypeOK
<1>4. SameClient(r) /\ Going(r)
  BY <1>1 DEF clients, SameClient, Going
<1>5. Resumes(r)'
  BY <1>2, <1>3, <1>4, GoesOn DEF ReaderInv, Resumes
<1>6. Looked(r)' /\ Fetched(r)' /\ Current(r)'
  BY <1>2, <1>3, NotLooking
<1> QED
  BY <1>1, <1>3, <1>4, <1>5, <1>6, Untold DEF ReaderInv

(* The first look. *)
LEMMA VisibleStep ==
    ASSUME TypeOK, Newest, Quiet, NEW r \in Readers, ReaderInv(r), read_visible(r), ~give_up(r)
    PROVE  (\E q : Becomes(r, q)) /\ UNCHANGED clients /\ ReaderInv(r)'
<1>1. /\ rd[r] \in Request /\ rd[r].pc = "visible" /\ ~notifying
      /\ meta # None /\ meta.generation = rd[r].initial.generation
      /\ rd' = [rd EXCEPT ![r].pc = "lengths", ![r].snapshot = meta]
      /\ UNCHANGED clients
  BY Numbers DEF read_visible
<1>2. meta \in Row
  BY <1>1, Numbers
<1> DEFINE q == [rd[r] EXCEPT !.pc = "lengths", !.snapshot = meta]
<1>3. /\ q \in Request /\ q.pc = "lengths" /\ q.seen = rd[r].seen /\ q.snapshot = meta
      /\ q.initial = rd[r].initial /\ q.after = rd[r].after
  BY <1>1, <1>2 DEF Request
<1>4. rd' = [rd EXCEPT ![r] = q]
  BY <1>1 DEF TypeOK, Request
<1> HIDE DEF q
<1>5. Becomes(r, q) /\ rd'[r] = q
  BY <1>3, <1>4 DEF Becomes, TypeOK
<1>6. SameClient(r)
  BY <1>1 DEF clients, SameClient
<1>7. Going(r)
  BY <1>1 DEF Going
<1>8. Resumes(r)'
  BY <1>3, <1>5, <1>6, <1>7, GoesOn DEF ReaderInv, Resumes
<1>9. Looked(r)'
  <2>1. Past(meta)
    BY <1>1, <1>2, RowNumbers DEF Past, Newest, TypeOK
  <2>2. rd[r].initial # None /\ Past(rd[r].initial)
    BY <1>7 DEF ReaderInv, Resumes
  <2>3. rd[r].initial.tail <= meta.tail
    BY <1>1, <2>2 DEF Past
  <2>4. \A i \in DOMAIN got[r] :
           got[r][i].generation = meta.generation => got[r][i].offset <= meta.tail
    BY <1>1 DEF ReaderInv, Received
  <2> QED
    BY <1>1, <1>3, <1>5, <1>6, <2>1, <2>3, <2>4 DEF Looked, Quiet, SameClient, Past
<1>10. Fetched(r)'
  BY <1>3, <1>5 DEF Fetched
<1>11. Current(r)'
  BY <1>1, <1>3, <1>5 DEF Current, Quiet
<1> QED
  BY <1>1, <1>5, <1>6, <1>8, <1>9, <1>10, <1>11, Untold DEF ReaderInv

(* The step stays within the look: what was looked at is not disturbed.     *)
LEMMA LooksOn ==
    ASSUME Quiet, NEW r \in Readers, SameClient(r), ReaderInv(r), Looking(r),
           rd'[r].initial = rd[r].initial, rd'[r].snapshot = rd[r].snapshot
    PROVE  Looked(r)'
BY DEF Quiet, SameClient, ReaderInv, Looked, Past

LEMMA StoredSize ==
    ASSUME TypeOK, NEW a \in 0 .. MaxTail
    PROVE  LET found == stored_messages(a, MaxTail)
           IN  /\ Cardinality(found) \in Nat
               /\ meta # None => /\ found = {} <=> meta.tail <= a
                                 /\ a < meta.tail => Cardinality(found) = meta.tail - a
               /\ meta = None => found = {}
               /\ found = {} => Cardinality(found) = 0
<1>1. a \in Nat /\ MaxTail \in Nat /\ Cardinality({}) = 0
  BY BoundsAreNaturals, FS_EmptySet
<1>2. CASE meta = None
  BY <1>1, <1>2 DEF stored_messages
<1>3. CASE meta # None
  <2>1. meta \in Row /\ meta.tail \in Nat /\ meta.tail <= MaxTail
    BY <1>3, RowNumbers, BoundsAreNaturals DEF TypeOK
  <2>2. stored_messages(a, MaxTail) = Run(meta.generation, a, meta.tail)
    BY <1>1, <1>3, <2>1, StoredIsRun
  <2>3. /\ Run(meta.generation, a, meta.tail) = {} <=> meta.tail <= a
        /\ Cardinality(Run(meta.generation, a, meta.tail))
             = IF a < meta.tail THEN meta.tail - a ELSE 0
    BY <1>1, <2>1, RunEmpty, RunSize
  <2> QED
    BY <1>1, <1>3, <2>1, <2>2, <2>3
<1> QED
  BY <1>2, <1>3

(* The first query of the batch. *)
LEMMA LengthsStep ==
    ASSUME TypeOK, Newest, Quiet, NEW r \in Readers, ReaderInv(r), read_lengths(r)
    PROVE  (\E q : Becomes(r, q)) /\ UNCHANGED clients /\ ReaderInv(r)'
<1> DEFINE found == stored_messages(rd[r].after, MaxTail)
           n == Cardinality(found)
           capped == n > MAX_READ_ROWS
           selected == IF capped THEN MAX_READ_ROWS ELSE n
           pc == IF found = {} THEN "fresh" ELSE "rows"
           q == [rd[r] EXCEPT !.pc = pc, !.upto = rd[r].after + selected,
                              !.capped = capped, !.batch = {}]
<1>0. /\ rd[r].after \in 0 .. MaxTail /\ rd[r].after \in Nat /\ 0 <= rd[r].after
      /\ MAX_READ_ROWS \in Nat \ {0} /\ MaxTail \in Nat
  BY Numbers
<1>1. /\ rd[r] \in Request /\ rd[r].pc = "lengths" /\ UNCHANGED clients
      /\ rd' = [rd EXCEPT ![r].pc = pc, ![r].upto = rd[r].after + selected,
                          ![r].capped = capped, ![r].batch = {}]
  BY Numbers DEF read_lengths
<1>2. /\ n \in Nat
      /\ meta # None => (found = {} <=> meta.tail <= rd[r].after)
      /\ meta # None => (rd[r].after < meta.tail => n = meta.tail - rd[r].after)
      /\ found = {} => n = 0
  BY <1>0, StoredSize
<1>3. rd' = [rd EXCEPT ![r] = q]
  BY <1>1 DEF TypeOK, Request
<1> HIDE DEF found, n
<1>4. selected \in Nat /\ rd[r].after + selected \in Nat /\ capped \in BOOLEAN
  <2>1. capped \in BOOLEAN
    OBVIOUS
  <2>2. selected \in Nat
    BY <1>0, <1>2
  <2> QED
    BY <1>0, <2>1, <2>2
<1>5. /\ q \in Request /\ q.pc = pc /\ q.seen = rd[r].seen /\ q.snapshot = rd[r].snapshot
      /\ q.initial = rd[r].initial /\ q.after = rd[r].after
      /\ q.upto = rd[r].after + selected /\ q.capped = capped /\ q.batch = {}
  BY <1>1, <1>4 DEF Request
<1> HIDE DEF q
<1>6. Becomes(r, q) /\ rd'[r] = q
  BY <1>3, <1>5 DEF Becomes, TypeOK
<1>7. SameClient(r)
  BY <1>1 DEF clients, SameClient
<1>8. Going(r) /\ Looking(r)
  BY <1>1 DEF Going, Looking
<1>9. Resumes(r)'
  BY <1>5, <1>6, <1>7, <1>8, GoesOn DEF ReaderInv, Resumes
<1>10. Looked(r)'
  BY <1>5, <1>6, <1>7, <1>8, LooksOn
<1>11. Fetched(r)'
  <2>1. /\ rd[r].snapshot # None /\ rd[r].snapshot \in Row
        /\ rd[r].snapshot.generation \in 1 .. gens
    BY <1>8, Numbers DEF ReaderInv, Looked, Past
  <2>2. /\ rd[r].snapshot.generation \in Nat /\ gens \in Nat
        /\ rd[r].snapshot.tail \in Nat /\ (meta # None => meta.tail \in Nat)
    BY <2>1, Numbers, RowNumbers
  <2>3. Run(rd[r].snapshot.generation, rd[r].after, 0) = {}
    <3>1. 0 \in Nat
      OBVIOUS
    <3> QED
      BY <1>0, <3>1, RunEmpty
  <2>4. rd[r].snapshot.generation \in rd[r].snapshot.generation .. gens /\ 0 \in 0 .. MaxTail
    BY <1>0, <2>1, <2>2
  <2> QED
    BY <1>5, <1>6, <2>2, <2>3, <2>4 DEF Fetched, Quiet
<1>12. Current(r)'
  <2> SUFFICES ASSUME ~Unseen(r) PROVE Current(r)'
    BY <1>5, <1>6 DEF Current, Unseen, Quiet
  <2>1. meta # None /\ meta = rd[r].snapshot
    BY <1>8 DEF ReaderInv, Current
  <2>2. meta.tail \in Nat
    BY <2>1, Numbers, RowNumbers
  <2>3. found = {} => meta.tail <= rd[r].after
    BY <1>2, <2>1
  <2>4. found # {} =>
          /\ rd[r].after < meta.tail
          /\ n = meta.tail - rd[r].after
    BY <1>0, <1>2, <2>1, <2>2
  <2>5. found # {} =>
          /\ rd[r].after < rd[r].after + selected
          /\ (capped \/ rd[r].after + selected = meta.tail)
    BY <1>0, <2>2, <2>4
  <2>6. found = {} => q.pc = "fresh"
    BY <1>5
  <2>7. found # {} => q.pc = "rows"
    BY <1>5
  <2>8. meta' = meta
    BY DEF Quiet
  <2>9. CASE found = {}
    BY <1>5, <1>6, <2>1, <2>3, <2>6, <2>8, <2>9 DEF Current
  <2>10. CASE found # {}
    BY <1>5, <1>6, <2>1, <2>4, <2>5, <2>7, <2>8, <2>10 DEF Current
  <2> QED
    BY <2>9, <2>10
<1> QED
  BY <1>1, <1>6, <1>7, <1>9, <1>10, <1>11, <1>12, Untold DEF ReaderInv

(* The second query: the rows, of whatever generation there is by now.      *)
LEMMA RowsStep ==
    ASSUME TypeOK, Newest, Quiet, NEW r \in Readers, ReaderInv(r), read_rows(r)
    PROVE  (\E q : Becomes(r, q)) /\ UNCHANGED clients /\ ReaderInv(r)'
<1> DEFINE batch == stored_messages(rd[r].after, rd[r].upto)
           last == IF meta.tail <= rd[r].upto THEN meta.tail ELSE rd[r].upto
           q == [rd[r] EXCEPT !.pc = "fresh", !.batch = batch]
<1>0. /\ rd[r].after \in Nat /\ rd[r].upto \in Nat /\ MaxTail \in Nat /\ gens \in Nat
      /\ (meta # None =>
            /\ meta \in Row /\ meta.tail \in Nat /\ meta.tail \in 0 .. MaxTail
            /\ meta.generation = gens /\ meta.generation \in 1 .. MaxGeneration)
  BY Numbers, RowNumbers DEF Newest
<1>1. /\ rd[r] \in Request /\ rd[r].pc = "rows" /\ UNCHANGED clients
      /\ rd' = [rd EXCEPT ![r].pc = "fresh", ![r].batch = batch]
  BY Numbers DEF read_rows
<1>2. rd' = [rd EXCEPT ![r] = q]
  BY <1>1 DEF TypeOK, Request
<1>3. meta = None => batch = {}
  BY DEF stored_messages
<1>4. meta # None => batch = Run(meta.generation, rd[r].after, last)
  BY <1>0, StoredIsRun
<1> HIDE DEF batch
<1>5. meta # None => last \in Nat /\ last \in 0 .. MaxTail /\ last <= meta.tail
  BY <1>0
<1>6. batch \subseteq Delivered
  BY <1>0, <1>3, <1>4, <1>5, RunDelivered
<1>7. /\ q \in Request /\ q.pc = "fresh" /\ q.seen = rd[r].seen /\ q.batch = batch
      /\ q.initial = rd[r].initial /\ q.after = rd[r].after /\ q.capped = rd[r].capped
      /\ q.snapshot = rd[r].snapshot /\ q.upto = rd[r].upto
  BY <1>1, <1>6 DEF Request
<1> HIDE DEF q
<1>8. Becomes(r, q) /\ rd'[r] = q
  BY <1>2, <1>7 DEF Becomes, TypeOK
<1>9. SameClient(r)
  BY <1>1 DEF clients, SameClient
<1>10. Going(r) /\ Looking(r)
  BY <1>1 DEF Going, Looking
<1>11. Resumes(r)'
  BY <1>7, <1>8, <1>9, <1>10, GoesOn DEF ReaderInv, Resumes
<1>12. Looked(r)'
  BY <1>7, <1>8, <1>9, <1>10, LooksOn
<1>13. rd[r].snapshot.generation \in 1 .. gens /\ rd[r].snapshot.generation \in Nat
  BY <1>10, <1>0 DEF ReaderInv, Looked, Past
<1>14. Fetched(r)'
  <2>1. CASE meta = None
    <3>1. 0 \in Nat /\ 0 <= rd[r].after /\ 0 \in 0 .. MaxTail
      BY <1>0
    <3>2. Run(rd[r].snapshot.generation, rd[r].after, 0) = {}
      BY <1>0, <3>1, RunEmpty
    <3>3. rd[r].snapshot.generation \in rd[r].snapshot.generation .. gens
      BY <1>0, <1>13
    <3> QED
      BY <1>3, <1>7, <1>8, <2>1, <3>1, <3>2, <3>3 DEF Fetched, Quiet
  <2>2. CASE meta # None
    <3>1. gens \in rd[r].snapshot.generation .. gens
      BY <1>0, <1>13
    <3> QED
      BY <1>0, <1>4, <1>5, <1>7, <1>8, <2>2, <3>1 DEF Fetched, Quiet
  <2> QED
    BY <2>1, <2>2
<1>15. Current(r)'
  <2> SUFFICES ASSUME ~Unseen(r) PROVE Current(r)'
    BY <1>7, <1>8 DEF Current, Unseen, Quiet
  <2>1. /\ meta # None /\ meta = rd[r].snapshot
        /\ rd[r].after < meta.tail /\ rd[r].after < rd[r].upto
        /\ (rd[r].capped \/ rd[r].upto = meta.tail)
    BY <1>1, <1>10 DEF ReaderInv, Current
  <2>2. batch = Run(meta.generation, rd[r].after, last) /\ rd[r].after < last
    BY <1>0, <1>4, <2>1
  <2>3. batch # {}
    <3>1. last \in Nat /\ ~(last <= rd[r].after)
      BY <1>0, <1>5, <2>1, <2>2
    <3> HIDE DEF last
    <3> QED
      BY <1>0, <2>2, <3>1, RunEmpty
  <2>4. ~rd[r].capped => last = meta.tail
    BY <1>0, <2>1
  <2>5. meta' = meta
    BY DEF Quiet
  <2> HIDE DEF last
  <2> QED
    BY <1>7, <1>8, <2>1, <2>2, <2>3, <2>4, <2>5 DEF Current
<1> QED
  BY <1>1, <1>8, <1>9, <1>11, <1>12, <1>14, <1>15, Untold DEF ReaderInv

(* The second look: of the same generation, or the read is given up.        *)
LEMMA FreshStep ==
    ASSUME TypeOK, Newest, Quiet, NEW r \in Readers, ReaderInv(r), read_fresh(r), ~give_up(r)
    PROVE  (\E q : Becomes(r, q)) /\ UNCHANGED clients /\ ReaderInv(r)'
<1> DEFINE q == [rd[r] EXCEPT !.pc = "touch", !.snapshot = meta]
<1>1. /\ rd[r] \in Request /\ rd[r].pc = "fresh" /\ UNCHANGED clients
      /\ meta # None /\ meta.generation = rd[r].snapshot.generation
      /\ rd' = [rd EXCEPT ![r].pc = "touch", ![r].snapshot = meta]
  BY Numbers DEF read_fresh
<1>2. meta \in Row
  BY <1>1, Numbers
<1>3. rd' = [rd EXCEPT ![r] = q]
  BY <1>1 DEF TypeOK, Request
<1>4. /\ q \in Request /\ q.pc = "touch" /\ q.seen = rd[r].seen /\ q.batch = rd[r].batch
      /\ q.initial = rd[r].initial /\ q.after = rd[r].after /\ q.capped = rd[r].capped
      /\ q.snapshot = meta
  BY <1>1, <1>2 DEF Request
<1> HIDE DEF q
<1>5. Becomes(r, q) /\ rd'[r] = q
  BY <1>3, <1>4 DEF Becomes, TypeOK
<1>6. SameClient(r)
  BY <1>1 DEF clients, SameClient
<1>7. Going(r) /\ Looking(r)
  BY <1>1 DEF Going, Looking
<1>8. Resumes(r)'
  BY <1>4, <1>5, <1>6, <1>7, GoesOn DEF ReaderInv, Resumes
<1>9. Looked(r)'
  <2>1. Past(meta)
    BY <1>1, <1>2, RowNumbers DEF Past, Newest, TypeOK
  <2>2. rd[r].snapshot.generation = rd[r].initial.generation
    BY <1>7 DEF ReaderInv, Looked
  <2>3. rd[r].initial # None /\ Past(rd[r].initial)
    BY <1>7 DEF ReaderInv, Resumes
  <2>4. rd[r].initial.tail <= meta.tail
    BY <1>1, <2>2, <2>3 DEF Past
  <2>5. \A i \in DOMAIN got[r] :
           got[r][i].generation = meta.generation => got[r][i].offset <= meta.tail
    BY <1>1 DEF ReaderInv, Received
  <2> QED
    BY <1>1, <1>4, <1>5, <1>6, <2>1, <2>2, <2>4, <2>5 DEF Looked, Quiet, SameClient, Past
<1>10. Fetched(r)'
  <2>1. PICK g \in rd[r].snapshot.generation .. gens, b \in 0 .. MaxTail :
            /\ rd[r].batch = Run(g, rd[r].after, b)
            /\ meta # None /\ meta.generation = g => b <= meta.tail
    BY <1>1 DEF ReaderInv, Fetched
  <2>2. gens \in Nat /\ meta.generation \in Nat /\ meta.generation = gens
    BY <1>1, <1>2, Numbers, RowNumbers DEF Newest
  <2>3. g = meta.generation /\ b <= meta.tail
    BY <1>1, <2>1, <2>2
  <2>4. meta.generation \in meta.generation .. gens
    BY <2>2
  <2> QED
    BY <1>4, <1>5, <2>1, <2>3, <2>4 DEF Fetched, Quiet
<1>11. Current(r)'
  <2> SUFFICES ASSUME ~Unseen(r) PROVE Current(r)'
    BY <1>4, <1>5 DEF Current, Unseen, Quiet
  <2>1. /\ rd[r].batch = {} => meta.tail <= rd[r].after
        /\ rd[r].batch # {} /\ ~rd[r].capped =>
              rd[r].batch = Run(meta.generation, rd[r].after, meta.tail)
    BY <1>1 DEF ReaderInv, Current
  <2>2. meta' = meta
    BY DEF Quiet
  <2> QED
    BY <1>1, <1>4, <1>5, <2>1, <2>2 DEF Current
<1> QED
  BY <1>1, <1>5, <1>6, <1>8, <1>9, <1>10, <1>11, Untold DEF ReaderInv

-----------------------------------------------------------------------------
(* The answers *)

(* What an answer sends, and where it says to go on. *)
LEMMA AnswerFacts ==
    ASSUME TypeOK, Newest, NEW r \in Readers, ReaderInv(r), rd[r].pc = "touch"
    PROVE  LET q == rd[r]
               sent == ordered(q.batch)
               next == next_offset(q)
           IN  /\ q.snapshot # None /\ q.snapshot \in Row
               /\ next \in 0 .. MaxTail /\ next \in Nat /\ next <= q.snapshot.tail
               /\ q.batch = {} => next = q.snapshot.tail
               /\ q.batch # {} => /\ q.after < next
                                  /\ q.batch = Run(q.snapshot.generation, q.after, next)
               /\ sent \in Seq(Delivered)
               /\ Len(sent) = IF q.batch = {} THEN 0 ELSE next - q.after
               /\ \A i \in 1 .. Len(sent) :
                     sent[i] = [generation |-> q.snapshot.generation, offset |-> q.after + i]
<1> DEFINE q == rd[r]
           sent == ordered(q.batch)
           next == next_offset(q)
<1>0. /\ q.after \in Nat /\ MaxTail \in Nat /\ q.batch \subseteq Delivered
      /\ q.snapshot # None /\ q.snapshot \in Row
      /\ q.snapshot.tail \in Nat /\ q.snapshot.tail \in 0 .. MaxTail
  BY Numbers, RowNumbers DEF ReaderInv, Looked, Looking
<1>1. PICK g \in q.snapshot.generation .. gens, b \in 0 .. MaxTail :
          /\ q.batch = Run(g, q.after, b)
          /\ q.batch # {} => g = q.snapshot.generation /\ b <= q.snapshot.tail
  BY DEF ReaderInv, Fetched
<1>2. b \in Nat
  BY <1>0, <1>1
<1>3. CASE q.batch = {}
  <2>1. next = q.snapshot.tail
    BY <1>3 DEF next_offset
  <2>2. ~(q.after < b)
    <3>1. Run(g, q.after, b) = {}
      BY <1>1, <1>3
    <3>2. q.after \in Nat
      BY <1>0
    <3>3. b <= q.after
      BY <1>2, <3>1, <3>2, RunEmpty
    <3> QED
      BY <1>2, <3>2, <3>3
  <2>3. ordered(Run(g, q.after, b)) \in [1 .. 0 -> Run(g, q.after, b)]
    BY <1>0, <1>2, <2>2, OrderedRun
  <2>4. sent \in [1 .. 0 -> Delivered]
    BY <1>0, <1>1, <2>3
  <2>5. sent \in Seq(Delivered) /\ Len(sent) = 0
    BY <2>4
  <2>6. \A i \in 1 .. Len(sent) :
           sent[i] = [generation |-> q.snapshot.generation, offset |-> q.after + i]
    BY <2>5
  <2> HIDE DEF sent, next
  <2> QED
    BY <1>0, <1>3, <2>1, <2>5, <2>6 DEF sent, next
<1>4. CASE q.batch # {}
  <2>1. g = q.snapshot.generation /\ b <= q.snapshot.tail
    BY <1>1, <1>4
  <2>2. q.after < b
    BY <1>0, <1>1, <1>2, <1>4, RunEmpty
  <2>3. next = b
    BY <1>0, <1>1, <1>2, <1>4, <2>2, RunEnd DEF next_offset
  <2>4. /\ ordered(Run(g, q.after, b)) \in [1 .. b - q.after -> Run(g, q.after, b)]
        /\ \A i \in 1 .. b - q.after :
              ordered(Run(g, q.after, b))[i] = [generation |-> g, offset |-> q.after + i]
    BY <1>0, <1>2, <2>2, OrderedRun
  <2>5. /\ sent \in [1 .. b - q.after -> Delivered]
        /\ \A i \in 1 .. b - q.after :
              sent[i] = [generation |-> q.snapshot.generation, offset |-> q.after + i]
    BY <1>0, <1>1, <2>1, <2>4
  <2>6. sent \in Seq(Delivered) /\ Len(sent) = b - q.after
    BY <1>0, <1>2, <2>2, <2>5
  <2> HIDE DEF sent, next
  <2> QED
    BY <1>0, <1>1, <1>2, <1>4, <2>1, <2>2, <2>3, <2>5, <2>6 DEF sent, next
<1> QED
  BY <1>3, <1>4

(* The messages a client has after an answer: what it had, then the batch.  *)
LEMMA SendFacts ==
    ASSUME TypeOK, Newest, NEW r \in Readers, ReaderInv(r), rd[r].pc = "touch", Send(r)
    PROVE  /\ got' = [got EXCEPT ![r] = got'[r]] /\ got'[r] \in Seq(Delivered)
           /\ \A i \in DOMAIN got'[r] :
                \/ i \in DOMAIN got[r] /\ got'[r][i] = got[r][i]
                \/ /\ i \in Len(got[r]) + 1 .. Len(got'[r])
                   /\ rd[r].batch # {}
                   /\ got'[r][i] = [generation |-> rd[r].snapshot.generation,
                                    offset |-> rd[r].after + i - Len(got[r])]
                   /\ rd[r].after < rd[r].after + i - Len(got[r])
                   /\ rd[r].after + i - Len(got[r]) <= next_offset(rd[r])
<1> DEFINE q == rd[r]
           sent == ordered(q.batch)
           next == next_offset(q)
<1>1. /\ got \in [Readers -> Seq(Delivered)]
      /\ got' = [got EXCEPT ![r] = @ \o sent]
      /\ got[r] \in Seq(Delivered)
  BY Numbers DEF TypeOK, Send
<1>2. /\ next \in Nat
      /\ q.batch # {} => q.after < next
      /\ sent \in Seq(Delivered)
      /\ Len(sent) = IF q.batch = {} THEN 0 ELSE next - q.after
      /\ \A i \in 1 .. Len(sent) :
            sent[i] = [generation |-> q.snapshot.generation, offset |-> q.after + i]
  BY AnswerFacts
<1>3. q.after \in Nat
  BY Numbers
<1> HIDE DEF sent, next
<1>4. got'[r] = got[r] \o sent
  BY <1>1
<1>5. /\ got'[r] \in Seq(Delivered)
      /\ Len(got'[r]) = Len(got[r]) + Len(sent)
      /\ \A i \in 1 .. Len(got[r]) + Len(sent) :
            got'[r][i] = IF i <= Len(got[r]) THEN got[r][i] ELSE sent[i - Len(got[r])]
  BY <1>1, <1>2, <1>4, ConcatProperties
<1>6. /\ DOMAIN got[r] = 1 .. Len(got[r]) /\ DOMAIN got'[r] = 1 .. Len(got'[r])
      /\ Len(got[r]) \in Nat /\ Len(sent) \in Nat
  BY <1>1, <1>2, <1>5, LenProperties
<1>7. ASSUME NEW i \in DOMAIN got'[r]
      PROVE  \/ i \in DOMAIN got[r] /\ got'[r][i] = got[r][i]
             \/ /\ i \in Len(got[r]) + 1 .. Len(got'[r])
                /\ q.batch # {}
                /\ got'[r][i] = [generation |-> q.snapshot.generation,
                                 offset |-> q.after + i - Len(got[r])]
                /\ q.after < q.after + i - Len(got[r])
                /\ q.after + i - Len(got[r]) <= next
  <2>1. i \in Nat /\ 1 <= i /\ i <= Len(got[r]) + Len(sent)
    BY <1>5, <1>6, <1>7
  <2>2. CASE i <= Len(got[r])
    BY <1>5, <1>6, <2>1, <2>2
  <2>3. CASE ~(i <= Len(got[r]))
    <3>1. i - Len(got[r]) \in 1 .. Len(sent)
      BY <1>6, <2>1, <2>3
    <3>2. got'[r][i] = sent[i - Len(got[r])]
      BY <1>5, <1>6, <2>1, <2>3
    <3>3. q.after + (i - Len(got[r])) = q.after + i - Len(got[r])
      BY <1>3, <1>6, <2>1
    <3>4. q.batch # {} /\ Len(sent) = next - q.after
      BY <1>2, <3>1
    <3>5. got'[r][i] = [generation |-> q.snapshot.generation,
                        offset |-> q.after + i - Len(got[r])]
      BY <1>2, <3>1, <3>2, <3>3
    <3>6. /\ q.after < q.after + i - Len(got[r])
          /\ q.after + i - Len(got[r]) <= next
      <4>1. PICK a, n, k : a = q.after /\ n = Len(got[r]) /\ k = Len(sent)
        OBVIOUS
      <4>2. /\ a \in Nat /\ n \in Nat /\ k \in Nat /\ i \in Nat /\ next \in Nat
            /\ i - n \in 1 .. k /\ k = next - a
        BY <1>2, <1>3, <1>6, <2>1, <3>1, <3>4, <4>1
      <4>3. a < a + i - n /\ a + i - n <= next
        BY <4>2
      <4> QED
        BY <4>1, <4>3
    <3>7. i \in Len(got[r]) + 1 .. Len(got'[r])
      BY <1>5, <1>6, <2>1, <2>3
    <3> QED
      BY <3>4, <3>5, <3>6, <3>7
  <2> QED
    BY <2>2, <2>3
<1>8. got' = [got EXCEPT ![r] = got'[r]]
  BY <1>1, <1>4
<1> QED
  BY <1>5, <1>7, <1>8 DEF next

(* An answer is right about the client it goes to: what it sends is new and *)
(* in order, the client resumes behind it, and the end it tells is the end. *)
LEMMA SendKeeps ==
    ASSUME TypeOK, Newest, Quiet, NEW r \in Readers, ReaderInv(r), rd[r].pc = "touch", Send(r)
    PROVE  /\ Received(r)' /\ Ended(r)' /\ Ascending(r)'
           /\ \A i \in DOMAIN got'[r] :
                /\ got'[r][i].generation <= rd[r].initial.generation
                /\ got'[r][i].generation = rd[r].initial.generation =>
                      got'[r][i].offset <= next_offset(rd[r])
           /\ position'[r] = next_offset(rd[r])
<1> DEFINE q == rd[r]
           next == next_offset(q)
           new(i) == q.after + i - Len(got[r])
<1>0. /\ q.after \in Nat /\ Len(got[r]) \in Nat /\ gens \in Nat
      /\ q.snapshot # None /\ q.snapshot.generation \in Nat /\ q.snapshot.tail \in Nat
      /\ next \in Nat /\ next <= q.snapshot.tail
      /\ q.batch = {} => next = q.snapshot.tail
      /\ q.batch # {} => q.after < next
      /\ (meta # None => meta.generation \in Nat /\ meta.tail \in Nat)
      /\ DOMAIN got[r] = 1 .. Len(got[r])
  BY AnswerFacts, Numbers, RowNumbers, LenProperties
<1>1. /\ got'[r] \in Seq(Delivered)
      /\ \A i \in DOMAIN got'[r] :
                \/ i \in DOMAIN got[r] /\ got'[r][i] = got[r][i]
                \/ /\ i \in Len(got[r]) + 1 .. Len(got'[r])
                   /\ q.batch # {}
                   /\ got'[r][i] = [generation |-> q.snapshot.generation,
                                    offset |-> new(i)]
                   /\ q.after < new(i) /\ new(i) <= next
  BY SendFacts
<1>2. /\ DOMAIN got'[r] = 1 .. Len(got'[r]) /\ Len(got'[r]) \in Nat
  BY <1>1, LenProperties
<1>3. \A i \in DOMAIN got[r] : got[r][i].generation \in Nat /\ got[r][i].offset \in Nat
  BY Numbers
<1>4. /\ Past(q.snapshot) /\ q.snapshot.generation = q.initial.generation
      /\ \A i \in DOMAIN got[r] :
            /\ got[r][i].generation <= q.snapshot.generation
            /\ got[r][i].generation = q.snapshot.generation =>
                  got[r][i].offset <= q.after /\ got[r][i].offset <= q.snapshot.tail
  BY DEF ReaderInv, Looked, Looking, Resumes, Going
<1>5. /\ position'[r] = next
      /\ said'[r] = [generation |-> q.snapshot.generation, offset |-> next,
                     closed |-> answer_closed(q), via |-> "read"]
  BY DEF Send, Tell, TypeOK
<1> HIDE DEF next
<1>6. ASSUME NEW i \in DOMAIN got'[r]
      PROVE  /\ got'[r][i].generation \in Nat /\ got'[r][i].offset \in Nat
             /\ got'[r][i].generation <= q.snapshot.generation
             /\ got'[r][i].generation = q.snapshot.generation => got'[r][i].offset <= next
  <2>1. CASE i \in DOMAIN got[r] /\ got'[r][i] = got[r][i]
    <3>1. /\ got[r][i].generation <= q.snapshot.generation
          /\ got[r][i].generation = q.snapshot.generation =>
                got[r][i].offset <= q.after /\ got[r][i].offset <= q.snapshot.tail
          /\ got[r][i].generation \in Nat /\ got[r][i].offset \in Nat
      BY <1>3, <1>4, <2>1
    <3>2. got[r][i].offset <= q.after /\ got[r][i].offset <= q.snapshot.tail
             => got[r][i].offset <= next
      BY <1>0, <3>1
    <3> QED
      BY <2>1, <3>1, <3>2
  <2>2. CASE /\ i \in Len(got[r]) + 1 .. Len(got'[r])
             /\ got'[r][i] = [generation |-> q.snapshot.generation, offset |-> new(i)]
             /\ q.after < new(i) /\ new(i) <= next
    <3>1. new(i) \in Nat
      BY <1>0, <1>2, <2>2
    <3>2. got'[r][i].generation = q.snapshot.generation /\ got'[r][i].offset = new(i)
      BY <2>2
    <3> QED
      BY <1>0, <2>2, <3>1, <3>2
  <2> QED
    BY <1>1, <2>1, <2>2
<1>7. Received(r)'
  <2> SUFFICES ASSUME NEW i \in DOMAIN got'[r]
               PROVE  /\ got'[r][i].generation <= gens
                      /\ meta # None /\ got'[r][i].generation = meta.generation =>
                            /\ got'[r][i].offset <= next
                            /\ got'[r][i].offset <= meta.tail
    BY <1>5 DEF Received, Quiet
  <2>1. q.snapshot.generation \in 1 .. gens
    BY <1>4 DEF Past
  <2>2. got'[r][i].generation <= gens
    BY <1>0, <1>6, <2>1
  <2>3. ASSUME meta # None, got'[r][i].generation = meta.generation
        PROVE  meta.generation = q.snapshot.generation
    BY <1>0, <1>6, <2>1, <2>3 DEF Newest
  <2>4. meta # None /\ meta.generation = q.snapshot.generation => q.snapshot.tail <= meta.tail
    BY <1>4 DEF Past
  <2> QED
    BY <1>0, <1>6, <2>2, <2>3, <2>4
<1>8. Ended(r)'
  <2>1. q.snapshot.generation \in 1 .. gens
    BY <1>4 DEF Past
  <2>2. answer_closed(q) => q.snapshot.closed /\ next = q.snapshot.tail
    BY DEF answer_closed, at_tail, next
  <2>3. /\ said'[r].generation = q.snapshot.generation /\ said'[r].offset = next
        /\ said'[r].closed = answer_closed(q)
    BY <1>5
  <2>4. meta # None /\ meta.generation = q.snapshot.generation /\ q.snapshot.closed
          => meta.closed /\ q.snapshot.tail = meta.tail
    BY <1>4 DEF Past
  <2> QED
    BY <1>0, <2>1, <2>2, <2>3, <2>4 DEF Ended, ClosedSaid, Quiet
<1>9. Ascending(r)'
  <2> SUFFICES ASSUME NEW i \in DOMAIN got'[r], NEW j \in DOMAIN got'[r], i < j,
                      got'[r][i].generation = got'[r][j].generation
               PROVE  got'[r][i].offset < got'[r][j].offset
    BY DEF Ascending
  <2>1. CASE j \in DOMAIN got[r] /\ got'[r][j] = got[r][j]
    <3>1. i \in DOMAIN got[r] /\ ~(i \in Len(got[r]) + 1 .. Len(got'[r]))
      BY <1>0, <1>2, <2>1
    <3>2. got'[r][i] = got[r][i]
      BY <1>1, <3>1
    <3> QED
      BY <2>1, <3>1, <3>2 DEF ReaderInv, Ascending
  <2>2. CASE /\ j \in Len(got[r]) + 1 .. Len(got'[r])
             /\ got'[r][j] = [generation |-> q.snapshot.generation, offset |-> new(j)]
             /\ q.after < new(j) /\ new(j) <= next
    <3>0. new(j) \in Int
      BY <1>0, <1>2
    <3>1. CASE i \in DOMAIN got[r] /\ got'[r][i] = got[r][i]
      <4>1. got[r][i].generation = q.snapshot.generation
        BY <2>2, <3>1
      <4>2. got[r][i].offset <= q.after /\ got[r][i].offset \in Nat
        BY <1>3, <1>4, <3>1, <4>1
      <4>3. PICK x, n : x = got[r][i].offset /\ n = new(j)
        OBVIOUS
      <4>4. x < n
        BY <1>0, <2>2, <3>0, <4>2, <4>3
      <4>5. got'[r][j].offset = n /\ got'[r][i].offset = x
        BY <2>2, <3>1, <4>3
      <4> QED
        BY <4>4, <4>5
    <3>2. CASE got'[r][i] = [generation |-> q.snapshot.generation, offset |-> new(i)]
      BY <1>0, <1>2, <2>2, <3>2
    <3> QED
      BY <1>1, <3>1, <3>2
  <2> QED
    BY <1>1, <2>1, <2>2
<1> QED
  BY <1>4, <1>5, <1>6, <1>7, <1>8, <1>9 DEF next

(* Nobody but the client of r is told something, and that is well typed.    *)
Tells(r) ==
    /\ position' = [position EXCEPT ![r] = position'[r]] /\ position'[r] \in 0 .. MaxTail
    /\ got' = [got EXCEPT ![r] = got'[r]] /\ got'[r] \in Seq(Delivered)
    /\ said' = [said EXCEPT ![r] = said'[r]] /\ said'[r] \in Answer \union {None}

LEMMA SilentTells ==
    ASSUME TypeOK, NEW r \in Readers, UNCHANGED clients
    PROVE  Tells(r) /\ SameClient(r)
BY DEF TypeOK, clients, Tells, SameClient

LEMMA AnswerIsAnswer ==
    ASSUME NEW row \in Row, NEW offset \in 0 .. MaxTail, NEW closed \in BOOLEAN,
           NEW via \in {"read", "timeout"}
    PROVE  LET a == [generation |-> row.generation, offset |-> offset, closed |-> closed,
                     via |-> via]
           IN  a \in Answer /\ a # None
<1>1. [generation |-> row.generation, offset |-> offset, closed |-> closed, via |-> via]
        \in Answer
  BY RowNumbers DEF Answer
<1> QED
  BY <1>1, NoneIsNoRow

LEMMA SendTells ==
    ASSUME TypeOK, Newest, NEW r \in Readers, ReaderInv(r), rd[r].pc = "touch", Send(r)
    PROVE  Tells(r)
<1> DEFINE q == rd[r]
           next == next_offset(q)
           a == [generation |-> q.snapshot.generation, offset |-> next,
                 closed |-> answer_closed(q), via |-> "read"]
<1>1. next \in 0 .. MaxTail /\ q.snapshot \in Row
  BY AnswerFacts
<1>2. answer_closed(q) \in BOOLEAN
  BY DEF answer_closed
<1>3. a \in Answer
  BY <1>1, <1>2, AnswerIsAnswer
<1>4. got' = [got EXCEPT ![r] = got'[r]] /\ got'[r] \in Seq(Delivered)
  BY SendFacts
<1>5. position' = [position EXCEPT ![r] = next] /\ said' = [said EXCEPT ![r] = a]
  BY DEF Send, Tell
<1> HIDE DEF next, a
<1>6. position'[r] = next /\ said'[r] = a
  BY <1>5 DEF TypeOK
<1> QED
  BY <1>1, <1>3, <1>4, <1>5, <1>6 DEF Tells

(* A request that waits now knows that there is nothing more. *)
LEMMA Waits ==
    ASSUME TypeOK, Newest, Quiet, NEW r \in Readers, ReaderInv(r), rd[r].pc = "touch",
           NEW after \in 0 .. MaxTail, await(r, after)
    PROVE  /\ \E q : Becomes(r, q)
           /\ rd'[r].pc = "wait" /\ rd'[r].after = after /\ rd'[r].mode = rd[r].mode
           /\ rd'[r].initial = rd[r].initial /\ rd'[r].seen = rd[r].seen
           /\ Looked(r)' /\ Fetched(r)'
           /\ ~Unseen(r) => /\ meta # None /\ meta = rd[r].snapshot
                            /\ meta.generation = rd[r].initial.generation
                            /\ rd[r].batch = {} => meta.tail <= rd[r].after
                            /\ rd[r].batch # {} /\ ~rd[r].capped =>
                                  next_offset(rd[r]) = meta.tail
<1> DEFINE q == [rd[r] EXCEPT !.pc = "wait", !.after = after]
<1>1. rd[r] \in Request
  BY Numbers
<1>2. rd' = [rd EXCEPT ![r] = q]
  BY <1>1 DEF await, TypeOK, Request
<1>3. /\ q \in Request /\ q.pc = "wait" /\ q.after = after /\ q.mode = rd[r].mode
      /\ q.initial = rd[r].initial /\ q.seen = rd[r].seen
  BY <1>1 DEF Request
<1> HIDE DEF q
<1>4. Becomes(r, q) /\ rd'[r] = q
  BY <1>2, <1>3 DEF Becomes, TypeOK
<1>5. Looked(r)' /\ Fetched(r)'
  BY <1>3, <1>4 DEF Looked, Looking, Fetched
<1>6. ASSUME ~Unseen(r)
      PROVE  /\ meta # None /\ meta = rd[r].snapshot
             /\ meta.generation = rd[r].initial.generation
             /\ rd[r].batch = {} => meta.tail <= rd[r].after
             /\ rd[r].batch # {} /\ ~rd[r].capped => next_offset(rd[r]) = meta.tail
  <2>1. /\ meta # None /\ meta = rd[r].snapshot
        /\ rd[r].batch = {} => meta.tail <= rd[r].after
        /\ rd[r].batch # {} /\ ~rd[r].capped =>
              rd[r].batch = Run(meta.generation, rd[r].after, meta.tail)
    BY <1>6 DEF ReaderInv, Current, Looking
  <2>2. meta.generation = rd[r].initial.generation
    BY <2>1 DEF ReaderInv, Looked, Looking
  <2>3. meta.tail \in Nat /\ rd[r].after \in Nat
    BY <2>1, Numbers, RowNumbers
  <2>4. ASSUME rd[r].batch # {}, ~rd[r].capped PROVE next_offset(rd[r]) = meta.tail
    <3>1. rd[r].batch = Run(meta.generation, rd[r].after, meta.tail)
      BY <2>1, <2>4
    <3>2. rd[r].after < meta.tail
      BY <2>3, <2>4, <3>1, RunEmpty
    <3> QED
      BY <2>3, <2>4, <3>1, <3>2, RunEnd DEF next_offset
  <2> QED
    BY <2>1, <2>2, <2>4
<1> QED
  BY <1>3, <1>4, <1>5, <1>6

LEMMA AnswerGetStep ==
    ASSUME TypeOK, Newest, Quiet, NEW r \in Readers, ReaderInv(r), answer_get(r)
    PROVE  (\E q : Becomes(r, q)) /\ Tells(r) /\ ReaderInv(r)'
<1>0. rd[r].pc = "touch" /\ rd[r].mode # "sse"
  BY DEF answer_get
<1>1. CASE rd' = [rd EXCEPT ![r] = Idle] /\ Send(r)
  <2>1. Becomes(r, Idle)
    BY <1>1, IdleIsRequest DEF Becomes
  <2> QED
    BY <1>0, <1>1, <2>1, IdleInv, SendKeeps, SendTells DEF ReaderInv
<1>2. CASE /\ rd[r].after = rd[r].initial.tail /\ rd[r].batch = {} /\ ~rd[r].snapshot.closed
           /\ await(r, rd[r].after) /\ UNCHANGED clients
  <2>1. SameClient(r) /\ Tells(r)
    BY <1>2, SilentTells
  <2>2. rd[r].after \in 0 .. MaxTail /\ rd[r].after \in Nat /\ rd[r].seen <= version
    BY Numbers DEF ReaderInv, Resumes
  <2>3. /\ \E q : Becomes(r, q)
        /\ rd'[r].pc = "wait" /\ rd'[r].after = rd[r].after /\ rd'[r].mode = rd[r].mode
        /\ rd'[r].initial = rd[r].initial /\ rd'[r].seen = rd[r].seen
        /\ Looked(r)' /\ Fetched(r)'
        /\ ~Unseen(r) => /\ meta # None /\ meta = rd[r].snapshot
                         /\ meta.generation = rd[r].initial.generation
                         /\ meta.tail <= rd[r].after
    BY <1>0, <1>2, <2>2, Waits
  <2>4. Resumes(r)'
    <3>1. Going(r)
      BY <1>0 DEF Going
    <3>2. /\ meta' = meta /\ gens' = gens /\ version' = version /\ got'[r] = got[r]
      BY <2>1 DEF Quiet, SameClient
    <3> QED
      BY <1>2, <2>2, <2>3, <3>1, <3>2 DEF ReaderInv, Resumes, Past
  <2>5. Current(r)'
    <3> SUFFICES ASSUME ~Unseen(r) PROVE Current(r)'
      BY <2>3 DEF Current, Unseen, Quiet
    <3>1. rd[r].initial.tail <= rd[r].snapshot.tail
      BY <1>0 DEF ReaderInv, Looked, Looking
    <3>2. meta.tail \in Nat
      BY <2>3, Numbers, RowNumbers
    <3>3. meta.tail = rd[r].after /\ ~meta.closed
      BY <1>2, <2>2, <2>3, <3>1, <3>2
    <3> QED
      BY <2>3, <3>3 DEF Current, Quiet, Looking
  <2> QED
    BY <2>1, <2>3, <2>4, <2>5, Untold DEF ReaderInv
<1> QED
  BY <1>1, <1>2 DEF answer_get

LEMMA AnswerSseStep ==
    ASSUME TypeOK, Newest, Quiet, NEW r \in Readers, ReaderInv(r), answer_sse(r)
    PROVE  (\E q : Becomes(r, q)) /\ Tells(r) /\ ReaderInv(r)'
<1>0. rd[r].pc = "touch" /\ rd[r].mode = "sse" /\ Send(r)
  BY DEF answer_sse
<1> DEFINE next == next_offset(rd[r])
<1>1. /\ Tells(r)
      /\ Received(r)' /\ Ended(r)' /\ Ascending(r)'
      /\ \A i \in DOMAIN got'[r] :
            /\ got'[r][i].generation <= rd[r].initial.generation
            /\ got'[r][i].generation = rd[r].initial.generation => got'[r][i].offset <= next
      /\ position'[r] = next
  BY <1>0, SendKeeps, SendTells
<1>2. /\ next \in 0 .. MaxTail /\ next \in Nat
      /\ rd[r].batch = {} => next = rd[r].snapshot.tail
  BY <1>0, AnswerFacts
<1>3. /\ rd[r].seen <= version /\ rd[r].initial # None /\ Past(rd[r].initial)
      /\ rd[r] \in Request
  BY <1>0, Numbers DEF ReaderInv, Resumes, Going
<1> HIDE DEF next
<1>4. CASE rd' = [rd EXCEPT ![r] = Idle]
  <2>1. Becomes(r, Idle)
    BY <1>4, IdleIsRequest DEF Becomes
  <2> QED
    BY <1>1, <2>1, IdleInv DEF ReaderInv
<1>5. CASE rd' = [rd EXCEPT ![r].pc = "permit", ![r].after = next]
  <2> DEFINE q == [rd[r] EXCEPT !.pc = "permit", !.after = next]
  <2>1. rd' = [rd EXCEPT ![r] = q]
    BY <1>3, <1>5 DEF TypeOK, Request
  <2>2. /\ q \in Request /\ q.pc = "permit" /\ q.after = next
        /\ q.initial = rd[r].initial /\ q.seen = rd[r].seen
    BY <1>2, <1>3 DEF Request
  <2> HIDE DEF q
  <2>3. Becomes(r, q) /\ rd'[r] = q
    BY <2>1, <2>2 DEF Becomes, TypeOK
  <2>4. Resumes(r)'
    BY <1>1, <1>3, <2>2, <2>3 DEF Resumes, Past, Quiet
  <2>5. Looked(r)' /\ Fetched(r)' /\ Current(r)'
    BY <2>2, <2>3, NotLooking
  <2> QED
    BY <1>1, <2>3, <2>4, <2>5 DEF ReaderInv
<1>6. CASE ~answer_closed(rd[r]) /\ ~rd[r].capped /\ await(r, next)
  <2>1. /\ \E q : Becomes(r, q)
        /\ rd'[r].pc = "wait" /\ rd'[r].after = next /\ rd'[r].mode = rd[r].mode
        /\ rd'[r].initial = rd[r].initial /\ rd'[r].seen = rd[r].seen
        /\ Looked(r)' /\ Fetched(r)'
        /\ ~Unseen(r) => /\ meta # None /\ meta = rd[r].snapshot
                         /\ meta.generation = rd[r].initial.generation
                         /\ rd[r].batch # {} => next = meta.tail
    BY <1>0, <1>2, <1>6, Waits DEF next
  <2>2. Resumes(r)'
    BY <1>0, <1>1, <1>3, <2>1 DEF Resumes, Past, Quiet
  <2>3. Current(r)'
    <3> SUFFICES ASSUME ~Unseen(r) PROVE Current(r)'
      BY <2>1 DEF Current, Unseen, Quiet
    <3>1. next = meta.tail
      BY <1>2, <2>1
    <3>2. ~meta.closed
      BY <1>6, <2>1, <3>1 DEF answer_closed, at_tail, next
    <3> QED
      BY <2>1, <3>1, <3>2 DEF Current, Quiet, Looking
  <2> QED
    BY <1>1, <2>1, <2>2, <2>3 DEF ReaderInv
<1> QED
  BY <1>4, <1>5, <1>6 DEF answer_sse, resume_from, next

(* A 204: the client is told the tail its request began with. *)
LEMMA TimeoutStep ==
    ASSUME TypeOK, Newest, Quiet, NEW r \in Readers, ReaderInv(r), timeout(r),
           rd[r].mode # "sse"
    PROVE  (\E q : Becomes(r, q)) /\ Tells(r) /\ ReaderInv(r)'
<1> DEFINE a == [generation |-> rd[r].initial.generation, offset |-> rd[r].initial.tail,
                 closed |-> meta # None /\ meta.closed, via |-> "timeout"]
<1>1. /\ rd[r].pc = "wait" /\ rd' = [rd EXCEPT ![r] = Idle] /\ got' = got
      /\ position' = [position EXCEPT ![r] = rd[r].initial.tail]
      /\ said' = [said EXCEPT ![r] = a]
  BY DEF timeout, Tell
<1>2. /\ rd[r].initial # None /\ Past(rd[r].initial) /\ rd[r].after = rd[r].initial.tail
      /\ \A i \in DOMAIN got[r] :
            /\ got[r][i].generation <= rd[r].initial.generation
            /\ got[r][i].generation = rd[r].initial.generation =>
                  got[r][i].offset <= rd[r].after
  BY <1>1 DEF ReaderInv, Resumes, Going
<1>3. /\ rd[r].initial \in Row /\ rd[r].initial.tail \in 0 .. MaxTail
      /\ rd[r].initial.generation \in Nat /\ gens \in Nat
      /\ \A i \in DOMAIN got[r] : got[r][i].generation \in Nat
  BY <1>2, Numbers, RowNumbers
<1>4. (meta # None /\ meta.closed) \in BOOLEAN
  <2>1. meta # None => meta.closed \in BOOLEAN
    BY Numbers, RowNumbers
  <2> QED
    BY <2>1
<1>5. a \in Answer
  BY <1>3, <1>4, AnswerIsAnswer
<1>6. a.generation = rd[r].initial.generation /\ a.via = "timeout"
  OBVIOUS
<1> HIDE DEF a
<1>7. position'[r] = rd[r].initial.tail /\ said'[r] = a /\ got'[r] = got[r]
  BY <1>1 DEF TypeOK
<1>8. Tells(r)
  BY <1>1, <1>3, <1>5, <1>7 DEF Tells, TypeOK
<1>9. Becomes(r, Idle)
  BY <1>1, IdleIsRequest DEF Becomes
<1>10. Received(r)'
  <2>1. meta # None => meta.generation = gens /\ rd[r].initial.generation <= gens
    BY <1>2, <1>3 DEF Newest, Past
  <2> QED
    BY <1>2, <1>3, <1>7, <2>1 DEF ReaderInv, Received, Quiet
<1>11. Ended(r)'
  <2>1. a.generation <= gens
    BY <1>2, <1>3, <1>6 DEF Past
  <2> QED
    BY <1>6, <1>7, <2>1 DEF Ended, Quiet
<1>12. Ascending(r)'
  BY <1>7 DEF ReaderInv, Ascending
<1> QED
  BY <1>8, <1>9, <1>10, <1>11, <1>12, IdleInv DEF ReaderInv

(* A catch-up read from "now": there is nothing to send. *)
LEMMA NowStep ==
    ASSUME TypeOK, Newest, Quiet, NEW r \in Readers, ReaderInv(r), handle_get(r), ~give_up(r),
           rd[r].pc = "now", rd[r].mode = "get"
    PROVE  (\E q : Becomes(r, q)) /\ Tells(r) /\ ReaderInv(r)'
<1> DEFINE a == [generation |-> meta.generation, offset |-> meta.tail,
                 closed |-> meta.closed, via |-> "read"]
<1>1. /\ meta # None /\ rd' = [rd EXCEPT ![r] = Idle] /\ got' = got
      /\ position' = [position EXCEPT ![r] = meta.tail]
      /\ said' = [said EXCEPT ![r] = a]
  BY DEF handle_get, Tell
<1>2. /\ meta \in Row /\ meta.tail \in 0 .. MaxTail /\ meta.closed \in BOOLEAN
      /\ meta.generation = gens /\ gens \in Nat
  BY <1>1, Numbers, RowNumbers DEF Newest
<1>3. a \in Answer
  BY <1>2, AnswerIsAnswer
<1>4. /\ a.generation = meta.generation /\ a.offset = meta.tail
      /\ a.closed = meta.closed
  OBVIOUS
<1> HIDE DEF a
<1>5. position'[r] = meta.tail /\ said'[r] = a /\ got'[r] = got[r]
  BY <1>1 DEF TypeOK
<1>6. Tells(r)
  BY <1>1, <1>2, <1>3, <1>5 DEF Tells, TypeOK
<1>7. Becomes(r, Idle)
  BY <1>1, IdleIsRequest DEF Becomes
<1>8. Received(r)'
  BY <1>2, <1>5 DEF ReaderInv, Received, Quiet
<1>9. Ended(r)'
  BY <1>2, <1>4, <1>5 DEF Ended, ClosedSaid, Quiet
<1>10. Ascending(r)'
  BY <1>5 DEF ReaderInv, Ascending
<1> QED
  BY <1>6, <1>7, <1>8, <1>9, <1>10, IdleInv DEF ReaderInv

-----------------------------------------------------------------------------
(* Every step *)

LEMMA ReaderStep ==
    ASSUME TypeOK, Newest, NEW r \in Readers, ReaderInv(r), Read(r) \/ Outside(r)
    PROVE  /\ Quiet /\ (\E q : Becomes(r, q)) /\ Tells(r) /\ ReaderInv(r)'
           /\ got' = got \/ (rd[r].pc = "touch" /\ Send(r))
<1>0. Quiet
  BY DEF Read, Outside, Quiet
<1>1. CASE give_up(r)
  BY <1>0, <1>1, HangUpStep, SilentTells DEF clients
<1>2. CASE ~give_up(r) /\ handle_get(r)
  <2>1. CASE rd[r].pc = "now" /\ rd[r].mode = "get"
    <3>1. got' = got
      BY <1>2, <2>1 DEF handle_get
    <3> QED
      BY <1>0, <1>2, <2>1, <3>1, NowStep
  <2>2. CASE ~(rd[r].pc = "now" /\ rd[r].mode = "get")
    BY <1>0, <1>2, <2>2, HandleGetStep, SilentTells DEF clients
  <2> QED
    BY <2>1, <2>2
<1>3. CASE subscribe(r) \/ wake(r) \/ (timeout(r) /\ rd[r].mode = "sse")
  BY <1>0, <1>3, SubscribeStep, SilentTells DEF clients
<1>4. CASE ~give_up(r) /\ try_acquire(r)
  BY <1>0, <1>4, AcquireStep, SilentTells DEF clients
<1>5. CASE ~give_up(r) /\ read_visible(r)
  BY <1>0, <1>5, VisibleStep, SilentTells DEF clients
<1>6. CASE read_lengths(r)
  BY <1>0, <1>6, LengthsStep, SilentTells DEF clients
<1>7. CASE read_rows(r)
  BY <1>0, <1>7, RowsStep, SilentTells DEF clients
<1>8. CASE ~give_up(r) /\ read_fresh(r)
  BY <1>0, <1>8, FreshStep, SilentTells DEF clients
<1>9. CASE answer_get(r)
  <2>1. got' = got \/ (rd[r].pc = "touch" /\ Send(r))
    BY <1>9 DEF answer_get, clients
  <2> QED
    BY <1>0, <1>9, <2>1, AnswerGetStep
<1>10. CASE answer_sse(r)
  <2>1. rd[r].pc = "touch" /\ Send(r)
    BY <1>10 DEF answer_sse
  <2> QED
    BY <1>0, <1>10, <2>1, AnswerSseStep
<1>11. CASE start(r)
  BY <1>0, <1>11, StartStep, SilentTells DEF clients
<1>12. CASE timeout(r) /\ rd[r].mode # "sse"
  <2>1. got' = got
    BY <1>12 DEF timeout
  <2> QED
    BY <1>0, <1>12, <2>1, TimeoutStep
<1> QED
  BY <1>1, <1>2, <1>3, <1>4, <1>5, <1>6, <1>7, <1>8, <1>9, <1>10, <1>11, <1>12
     DEF Read, Outside, hang_up

LEMMA ReaderKeepsAll ==
    ASSUME IInv, NEW r \in Readers, Read(r) \/ Outside(r)
    PROVE  IInv'
<1>1. /\ Quiet /\ (\E q : Becomes(r, q)) /\ Tells(r) /\ ReaderInv(r)'
  BY ReaderStep DEF IInv
<1>2. TypeOK'
  <2>1. rd' \in [Readers -> Request]
    BY <1>1 DEF Becomes, IInv, TypeOK
  <2>2. /\ position' \in [Readers -> 0 .. MaxTail]
        /\ got' \in [Readers -> Seq(Delivered)]
        /\ said' \in [Readers -> Answer \union {None}]
    BY <1>1 DEF Tells, IInv, TypeOK
  <2> QED
    BY <1>1, <2>1, <2>2 DEF Quiet, IInv, TypeOK
<1>3. Newest'
  BY <1>1 DEF Quiet, IInv, Newest
<1>4. ASSUME NEW t \in Readers, t # r PROVE ReaderInv(t)'
  <2>1. rd'[t] = rd[t]
    BY <1>1, <1>4 DEF Becomes, IInv, TypeOK
  <2>2. SameClient(t)
    BY <1>1, <1>4 DEF Tells, SameClient, IInv, TypeOK
  <2> QED
    BY <1>1, <1>4, <2>1, <2>2, Bystander DEF IInv
<1> QED
  BY <1>1, <1>2, <1>3, <1>4 DEF IInv

LEMMA InitInv == Init => IInv
<1> SUFFICES ASSUME Init PROVE IInv
  OBVIOUS
<1>1. TypeOK
  <2>1. Idle \in Request /\ <<>> \in Seq(Delivered)
    BY IdleIsRequest
  <2>2. rd \in [Readers -> Request]
    BY <2>1 DEF Init
  <2>3. got \in [Readers -> Seq(Delivered)]
    BY <2>1 DEF Init
  <2>4. position \in [Readers -> 0 .. MaxTail] /\ said \in [Readers -> Answer \union {None}]
    BY BoundsAreNaturals DEF Init
  <2>5. /\ meta \in Row \union {None} /\ version \in Nat
        /\ commits \in 0 .. MaxCommits /\ gens \in 0 .. MaxGeneration
    BY BoundsAreNaturals DEF Init
  <2>6. notifying \in BOOLEAN
    BY Zenon DEF Init
  <2> QED
    BY <2>2, <2>3, <2>4, <2>5, <2>6 DEF TypeOK
<1>2. Newest
  BY DEF Init, Newest
<1>3. ASSUME NEW r \in Readers PROVE ReaderInv(r)
  <2>1. rd[r].pc = "idle" /\ rd[r].seen = 0 /\ got[r] = <<>> /\ said[r] = None /\ version = 0
    BY <1>3, IdleIsRequest DEF Init
  <2>2. DOMAIN got[r] = {}
    BY <2>1
  <2> QED
    BY <2>1, <2>2 DEF ReaderInv, Received, Resumes, Looked, Fetched, Current, Ended,
                      Ascending, Going, Looking
<1> QED
  BY <1>1, <1>2, <1>3 DEF IInv

LEMMA NextInv == IInv /\ [Next]_vars => IInv'
<1> SUFFICES ASSUME IInv, [Next]_vars PROVE IInv'
  OBVIOUS
<1>1. CASE handle_put \/ handle_post \/ handle_close_only \/ retire \/ fork_release
  <2>1. Committed
    BY <1>1, CommitGrows DEF IInv
  <2>2. TypeOK'
    <3>1. meta' \in Row \union {None} /\ version' \in Nat /\ notifying' \in BOOLEAN
      BY <2>1 DEF Committed, Grown, IInv, TypeOK
    <3> QED
      BY <2>1, <3>1 DEF Committed, clients, IInv, TypeOK
  <2>3. Newest'
    BY <2>1 DEF Committed, Grown, IInv, Newest
  <2>4. \A r \in Readers : ReaderInv(r)'
    BY <2>1, CommitKeepsReader DEF IInv
  <2> QED
    BY <2>2, <2>3, <2>4 DEF IInv
<1>2. CASE notify_change
  <2>0. version' \in Nat
    BY <1>2 DEF notify_change, IInv, TypeOK
  <2>3. notifying' \in BOOLEAN
    BY <1>2, Zenon DEF notify_change
  <2>1. TypeOK' /\ Newest'
    BY <1>2, <2>0, <2>3 DEF notify_change, clients, IInv, TypeOK, Newest
  <2>2. \A r \in Readers : ReaderInv(r)'
    BY <1>2, NotifyKeepsReader DEF IInv
  <2> QED
    BY <2>1, <2>2 DEF IInv
<1>3. CASE Restart
  <2>0. rd' \in [Readers -> Request]
    BY <1>3, IdleIsRequest DEF Restart
  <2>1. TypeOK' /\ Newest'
    BY <1>3, <2>0 DEF Restart, clients, IInv, TypeOK, Newest
  <2>2. \A r \in Readers : ReaderInv(r)'
    BY <1>3, RestartKeepsReader DEF IInv
  <2> QED
    BY <2>1, <2>2 DEF IInv
<1>4. CASE \E r \in Readers : Read(r) \/ Outside(r)
  BY <1>4, ReaderKeepsAll
<1>5. CASE UNCHANGED vars
  <2>1. Quiet /\ rd' = rd /\ \A r \in Readers : SameClient(r)
    BY <1>5 DEF vars, Quiet, SameClient
  <2>2. \A r \in Readers : ReaderInv(r)'
    BY <2>1, Bystander DEF IInv
  <2>3. TypeOK' /\ Newest'
    BY <1>5 DEF vars, IInv, TypeOK, Newest
  <2> QED
    BY <2>2, <2>3 DEF IInv
<1> QED
  BY <1>1, <1>2, <1>3, <1>4, <1>5 DEF Next

LEMMA InvHolds == Spec => []IInv
BY InitInv, NextInv, PTL DEF Spec

-----------------------------------------------------------------------------
(* Theorems *)

(* Every request, row and answer has the type it is declared with; an       *)
(* offset that a client is told is never beyond what the log can hold.      *)
THEOREM ReadsTypeCorrect == Spec => []TypeOK
<1>1. IInv => TypeOK
  BY DEF IInv
<1> QED
  BY <1>1, InvHolds, PTL

(* No commit falls unseen between a reader's subscription, its two queries, *)
(* its second look and its sleep (handle_get, read_snapshot, pump_sse): for *)
(* any number of readers, permits and writers.                              *)
THEOREM NoWakeupIsLost == Spec => []NoLostWakeup
<1>1. IInv => NoLostWakeup
  BY DEF IInv, ReaderInv, Current, Unseen, NoLostWakeup
<1> QED
  BY <1>1, InvHolds, PTL

(* A client gets the messages of a generation in order and once, over any   *)
(* mix of catch-up reads, long-polls, sessions, deletes and restarts, if it *)
(* asks from the offset it was told.                                        *)
THEOREM ClientsReadInOrder == Spec => []InOrder
<1>1. IInv => InOrder
  BY DEF IInv, ReaderInv, Ascending, InOrder
<1> QED
  BY <1>1, InvHolds, PTL

(* An answer that read the stream and says that it is closed names its end, *)
(* although the batch and the closed flag come from different queries.      *)
THEOREM ClosedAnswersNameTheEnd == Spec => []ClosedReadIsTheEnd
<1>1. IInv => ClosedReadIsTheEnd
  <2> SUFFICES ASSUME IInv, NEW r \in Readers, ClosedSaid(r), said[r].via = "read"
               PROVE  meta.closed /\ said[r].offset = meta.tail
    BY DEF ClosedReadIsTheEnd
  <2> QED
    BY DEF IInv, ReaderInv, Ended, ClosedSaid
<1> QED
  BY <1>1, InvHolds, PTL

(* What an answer sends is a gapless run of the generation its request      *)
(* began with, whatever was deleted and created again between its queries.  *)
THEOREM BatchesAreWhole == Spec => WholeBatches
<1> DEFINE Whole(r) ==
      \A i \in Len(got[r]) + 1 .. Len(got'[r]) :
          got'[r][i] = [generation |-> rd[r].initial.generation,
                        offset |-> rd[r].after + i - Len(got[r])]
<1>1. ASSUME IInv, [Next]_vars PROVE [\A r \in Readers : Whole(r)]_vars
  <2> SUFFICES ASSUME NEW r \in Readers, Next PROVE Whole(r)
    BY <1>1
  <2>1. got[r] \in Seq(Delivered) /\ Len(got[r]) \in Nat
    BY <1>1, Numbers, LenProperties DEF IInv
  <2>2. CASE got'[r] = got[r]
    BY <2>1, <2>2
  <2>3. CASE rd[r].pc = "touch" /\ Send(r)
    <3>1. /\ got'[r] \in Seq(Delivered)
          /\ \A i \in DOMAIN got'[r] :
                \/ i \in DOMAIN got[r] /\ got'[r][i] = got[r][i]
                \/ got'[r][i] = [generation |-> rd[r].snapshot.generation,
                                 offset |-> rd[r].after + i - Len(got[r])]
      BY <1>1, <2>3, SendFacts DEF IInv
    <3>2. DOMAIN got'[r] = 1 .. Len(got'[r]) /\ DOMAIN got[r] = 1 .. Len(got[r])
      BY <2>1, <3>1, LenProperties
    <3>3. rd[r].snapshot.generation = rd[r].initial.generation
      BY <1>1, <2>3 DEF IInv, ReaderInv, Looked, Looking
    <3>4. ASSUME NEW i \in Len(got[r]) + 1 .. Len(got'[r])
          PROVE  i \in DOMAIN got'[r] /\ i \notin DOMAIN got[r]
      BY <2>1, <3>2
    <3> QED
      BY <3>1, <3>3, <3>4
  <2>4. CASE handle_put \/ handle_post \/ handle_close_only \/ retire \/ fork_release
    BY <1>1, <2>2, <2>4, CommitGrows DEF IInv, Committed, clients
  <2>5. CASE notify_change \/ Restart
    BY <2>2, <2>5 DEF notify_change, Restart, clients
  <2>6. CASE \E t \in Readers : Read(t) \/ Outside(t)
    <3>1. PICK t \in Readers : Read(t) \/ Outside(t)
      BY <2>6
    <3>2. Tells(t) /\ (got' = got \/ (rd[t].pc = "touch" /\ Send(t)))
      BY <1>1, <3>1, ReaderStep DEF IInv
    <3>3. t # r => got'[r] = got[r]
      BY <1>1, <3>2 DEF Tells, IInv, TypeOK
    <3> QED
      BY <2>2, <2>3, <3>2, <3>3
  <2> QED
    BY <2>4, <2>5, <2>6 DEF Next
<1>2. Spec => [][\A r \in Readers : Whole(r)]_vars
  BY <1>1, InvHolds, PTL DEF Spec
<1> QED
  BY <1>2 DEF WholeBatches
=============================================================================
