------------------------- MODULE StitchedReadsProofs -------------------------
(***************************************************************************)
(* Theorems about StitchedReads, for every value of its constants: chains  *)
(* of any depth, any limit and budget, any number of streams, messages and *)
(* steps of streams between the queries of one read.                       *)
(*                                                                         *)
(* The inductive invariant IInv has four parts.  StoreInv says what the    *)
(* rows of the streams mean: the messages of a row are those of its        *)
(* generation's history beyond the fork offset, and up to there the        *)
(* history is that of the source, which is still the generation it was     *)
(* forked from.  Reading says what the calls of a read are about: each has *)
(* been asked for the messages of one generation in one range of offsets,  *)
(* within a limit and a budget (Held, Serves), has the inherited part of   *)
(* it before it queries its own rows (Begun), and has chosen the rows it   *)
(* will take before it queries them again (Chosen).  A call asks its       *)
(* source for exactly the inherited part of what it was asked for          *)
(* (SourceAsked), and what a call returns is good for whoever asked        *)
(* (Good), so the answer is good for the request (Answered).  RequestInv   *)
(* and Nested keep the request and the stack in shape.                     *)
(*                                                                         *)
(* A step of a stream disturbs no call, because a stream that is read is   *)
(* pinned by the row of the level above it (LevelsKept), and an append     *)
(* comes after everything a call may have been asked for (WithinGrows).    *)
(* The stream of the request itself is not pinned: all of this is said     *)
(* only while it is the generation the request began with (Fresh), which   *)
(* read_snapshot looks at before it answers.                               *)
(*                                                                         *)
(* Forks at a sub-offset have an invariant of their own, PrefixInv, beside *)
(* IInv: the first message of such a fork is the beginning of the first    *)
(* message of its source beyond the fork offset, which stays the first as  *)
(* long as the fork pins its source.  It also says that all data alternate *)
(* between values and commas (AllAlternate); what that makes of a body is  *)
(* said of fragments and their values side by side (Pairs).                *)
(***************************************************************************)
EXTENDS StitchedReads, FiniteSetTheorems, SequenceTheorems, WellFoundedInduction, TLAPS

-----------------------------------------------------------------------------
(* Numbers.  What holds of every number is proved by looking at the least   *)
(* one it does not hold of.                                                 *)

LEMMA Least ==
    ASSUME NEW S \in SUBSET Nat, S # {}
    PROVE  \E n \in S : \A m \in S : n <= m
<1> DEFINE R == {p \in Nat \X Nat : p[1] < p[2]}
<1>1. IsWellFoundedOn(R, Nat)
  BY NatLessThanWellFounded DEF OpToRel
<1>2. PICK n \in S : \A m \in S : ~(<<m, n>> \in R)
  BY <1>1, WFMin
<1>3. \A m \in S : ~(m < n)
  BY <1>2
<1> QED
  BY <1>3

LEMMA Upward ==
    ASSUME NEW S, 0 \in S, \A n \in Nat : n \in S => n + 1 \in S
    PROVE  Nat \subseteq S
<1>1. SUFFICES ASSUME Nat \ S # {} PROVE FALSE
  OBVIOUS
<1>2. PICK n \in Nat \ S : \A m \in Nat \ S : n <= m
  BY <1>1, Least
<1>3. n # 0 /\ n - 1 \in Nat
  BY <1>2
<1>4. n - 1 \in S
  BY <1>2, <1>3
<1> QED
  BY <1>2, <1>3, <1>4

LEMMA Greatest ==
    ASSUME NEW S \in SUBSET Nat, S # {}, NEW b \in Nat, \A k \in S : k <= b
    PROVE  /\ Max(S) \in S
           /\ \A k \in S : k <= Max(S)
<1> DEFINE T == {b - k : k \in S}
<1>1. T \in SUBSET Nat /\ T # {}
  <2>1. \A k \in S : b - k \in Nat
    OBVIOUS
  <2>2. PICK k \in S : TRUE
    OBVIOUS
  <2>3. b - k \in T
    BY <2>2
  <2> QED
    BY <2>1, <2>3
<1>2. PICK n \in T : \A m \in T : n <= m
  BY <1>1, Least
<1>3. PICK k \in S : n = b - k
  BY <1>2
<1>4. \A j \in S : b - j \in T
  OBVIOUS
<1>5. \A j \in S : k >= j
  <2> HIDE DEF T
  <2> QED BY <1>2, <1>3, <1>4
<1>6. Max(S) \in S /\ \A j \in S : Max(S) >= j
  BY <1>5 DEF Max
<1> QED
  BY <1>6

LEMMA MaxOfTwo ==
    ASSUME NEW a \in Int, NEW b \in Int
    PROVE  Max({a, b}) = IF a <= b THEN b ELSE a
<1> DEFINE c == IF a <= b THEN b ELSE a
<1>1. c \in {a, b} /\ \A y \in {a, b} : c >= y
  OBVIOUS
<1>2. \A x \in {a, b} : (\A y \in {a, b} : x >= y) => x = c
  OBVIOUS
<1> QED
  BY <1>1, <1>2 DEF Max

LEMMA MinOfTwo ==
    ASSUME NEW a \in Int, NEW b \in Int
    PROVE  Min({a, b}) = IF a <= b THEN a ELSE b
<1> DEFINE c == IF a <= b THEN a ELSE b
<1>1. c \in {a, b} /\ \A y \in {a, b} : c =< y
  OBVIOUS
<1>2. \A x \in {a, b} : (\A y \in {a, b} : x =< y) => x = c
  OBVIOUS
<1> QED
  BY <1>1, <1>2 DEF Min

-----------------------------------------------------------------------------
(* The bytes of a batch. *)

Sums(t, batch, n) ==
    /\ t \in [0 .. n -> Nat] /\ t[0] = 0
    /\ \A i \in 1 .. n : t[i] = t[i - 1] + Len(batch[i].data)

LEMMA DataLength ==
    ASSUME NEW batch \in Seq(Message), NEW i \in 1 .. Len(batch)
    PROVE  batch[i] \in Message /\ Len(batch[i].data) \in Nat
<1>1. batch[i] \in Message
  OBVIOUS
<1>2. batch[i].data \in Seq(Token)
  BY <1>1 DEF Message
<1> QED
  BY <1>1, <1>2, LenProperties

LEMMA SumsExist ==
    ASSUME NEW batch \in Seq(Message), NEW n \in 0 .. Len(batch)
    PROVE  \E t : Sums(t, batch, n)
<1> DEFINE S == {k \in Nat : k <= Len(batch) => \E t : Sums(t, batch, k)}
<1>0. Len(batch) \in Nat
  BY LenProperties
<1>1. 0 \in S
  <2>1. Sums([i \in 0 .. 0 |-> 0], batch, 0)
    <3> DEFINE t == [i \in 0 .. 0 |-> 0]
    <3>1. t \in [0 .. 0 -> Nat] /\ t[0] = 0
      OBVIOUS
    <3>2. \A i \in 1 .. 0 : FALSE
      OBVIOUS
    <3> HIDE DEF t
    <3>3. Sums(t, batch, 0)
      BY <3>1, <3>2 DEF Sums
    <3> QED
      BY <3>3 DEF t
  <2> QED
    BY <2>1
<1>2. ASSUME NEW k \in Nat, k \in S PROVE k + 1 \in S
  <2> SUFFICES ASSUME k + 1 <= Len(batch) PROVE \E t : Sums(t, batch, k + 1)
    OBVIOUS
  <2>1. PICK t : Sums(t, batch, k)
    BY <1>0, <1>2
  <2> DEFINE u == [i \in 0 .. k + 1 |->
                      IF i = k + 1 THEN t[k] + Len(batch[k + 1].data) ELSE t[i]]
  <2>2. Len(batch[k + 1].data) \in Nat
    BY <1>0, DataLength
  <2>3. u \in [0 .. k + 1 -> Nat]
    <3>1. t \in [0 .. k -> Nat] /\ k \in Nat
      BY <2>1, <1>2 DEF Sums
    <3>2. t[k] \in Nat /\ t[k] + Len(batch[k + 1].data) \in Nat
      BY <3>1, <2>2
    <3>3. \A i \in 0 .. k + 1 : i # k + 1 => t[i] \in Nat
      BY <3>1
    <3> QED
      BY <3>2, <3>3
  <2>4. u[0] = 0
    BY <2>1 DEF Sums
  <2>5. ASSUME NEW i \in 1 .. k + 1 PROVE u[i] = u[i - 1] + Len(batch[i].data)
    <3>1. CASE i = k + 1
      <4>1. u[i] = t[k] + Len(batch[k + 1].data) /\ u[i - 1] = t[k]
        BY <3>1
      <4> QED
        BY <3>1, <4>1
    <3>2. CASE i # k + 1
      <4>1. i \in 1 .. k /\ u[i] = t[i] /\ u[i - 1] = t[i - 1]
        BY <3>2
      <4> QED
        BY <4>1, <2>1 DEF Sums
    <3> QED
      BY <3>1, <3>2
  <2>6. Sums(u, batch, k + 1)
    <3> HIDE DEF u
    <3> QED BY <2>3, <2>4, <2>5 DEF Sums
  <2> QED
    BY <2>6
<1>3. Nat \subseteq S
  <2> HIDE DEF S
  <2> QED BY <1>1, <1>2, Upward
<1> QED
  BY <1>0, <1>3

LEMMA SumsUnique ==
    ASSUME NEW batch, NEW n \in Nat, NEW t, NEW u,
           Sums(t, batch, n), Sums(u, batch, n)
    PROVE  \A i \in 0 .. n : t[i] = u[i]
<1> DEFINE S == {i \in Nat : i <= n => t[i] = u[i]}
<1>1. 0 \in S
  BY DEF Sums
<1>2. ASSUME NEW i \in Nat, i \in S PROVE i + 1 \in S
  <2> SUFFICES ASSUME i + 1 <= n PROVE t[i + 1] = u[i + 1]
    OBVIOUS
  <2>1. i + 1 \in 1 .. n /\ (i + 1) - 1 = i /\ t[i] = u[i]
    BY <1>2
  <2>2. t[i + 1] = t[i] + Len(batch[i + 1].data)
    BY <2>1 DEF Sums
  <2>3. u[i + 1] = u[i] + Len(batch[i + 1].data)
    BY <2>1 DEF Sums
  <2> QED
    BY <2>1, <2>2, <2>3
<1>3. Nat \subseteq S
  <2> HIDE DEF S
  <2> QED BY <1>1, <1>2, Upward
<1> QED
  BY <1>3

LEMMA BytesAreSums ==
    ASSUME NEW batch \in Seq(Message)
    PROVE  \E t : Sums(t, batch, Len(batch)) /\ bytes(batch) = t[Len(batch)]
<1> DEFINE n == Len(batch)
           Rec(f) == [i \in 0 .. n |-> IF i = 0 THEN 0 ELSE f[i - 1] + Len(batch[i].data)]
           total == CHOOSE f : f = Rec(f)
<1>0. n \in Nat
  BY LenProperties
<1>1. PICK t : Sums(t, batch, n)
  BY <1>0, SumsExist
<1>2. t = Rec(t)
  BY <1>0, <1>1 DEF Sums
<1>3. total = Rec(total)
  BY <1>2
<1>4. \A i \in 1 .. n : Len(batch[i].data) \in Nat
  BY DataLength
<1>5. Sums(total, batch, n)
  <2> DEFINE S == {i \in Nat : i <= n => total[i] \in Nat}
  <2> HIDE DEF total
  <2>1. DOMAIN total = 0 .. n /\ total[0] = 0
    BY <1>0, <1>3
  <2>2. ASSUME NEW i \in 1 .. n PROVE total[i] = total[i - 1] + Len(batch[i].data)
    BY <1>0, <1>3
  <2>3. 0 \in S
    BY <2>1
  <2>4. ASSUME NEW i \in Nat, i \in S PROVE i + 1 \in S
    <3> SUFFICES ASSUME i + 1 <= n PROVE total[i + 1] \in Nat
      OBVIOUS
    <3>1. i + 1 \in 1 .. n /\ (i + 1) - 1 = i /\ total[i] \in Nat
      BY <1>0, <2>4
    <3> QED
      BY <3>1, <2>2, <1>4
  <2>5. Nat \subseteq S
    <3> HIDE DEF S
    <3> QED BY <2>3, <2>4, Upward
  <2>6. \A i \in 0 .. n : total[i] \in Nat
    BY <1>0, <2>5
  <2>7. total \in [0 .. n -> Nat]
    BY <1>3, <2>1, <2>6
  <2> QED
    BY <2>1, <2>2, <2>7 DEF Sums
<1>6. bytes(batch) = total[n]
  BY DEF bytes
<1> QED
  BY <1>5, <1>6

LEMMA BytesOfBatch ==
    ASSUME NEW s \in Seq(Message)
    PROVE  bytes(s) \in Nat /\ (s = <<>> => bytes(s) = 0)
<1>1. PICK t : Sums(t, s, Len(s)) /\ bytes(s) = t[Len(s)]
  BY BytesAreSums
<1>2. Len(s) \in Nat /\ (s = <<>> => Len(s) = 0)
  BY LenProperties
<1> QED
  BY <1>1, <1>2 DEF Sums

LEMMA BytesOfParts ==
    ASSUME NEW s \in Seq(Message), NEW t \in Seq(Message)
    PROVE  bytes(s \o t) = bytes(s) + bytes(t)
<1> DEFINE n == Len(s)
           m == Len(t)
<1>1. PICK a : Sums(a, s, n) /\ bytes(s) = a[n]
  BY BytesAreSums
<1>2. PICK b : Sums(b, t, m) /\ bytes(t) = b[m]
  BY BytesAreSums
<1>3. n \in Nat /\ m \in Nat
  BY LenProperties
<1>4. /\ s \o t \in Seq(Message) /\ Len(s \o t) = n + m
      /\ \A i \in 1 .. n + m : (s \o t)[i] = IF i <= n THEN s[i] ELSE t[i - n]
  BY ConcatProperties
<1>5. PICK c : Sums(c, s \o t, n + m) /\ bytes(s \o t) = c[n + m]
  BY <1>4, BytesAreSums
<1> DEFINE d == [i \in 0 .. n + m |-> IF i <= n THEN a[i] ELSE a[n] + b[i - n]]
<1> HIDE DEF n, m
<1>6. Sums(d, s \o t, n + m)
  <2>1. \A i \in 0 .. n + m : (IF i <= n THEN a[i] ELSE a[n] + b[i - n]) \in Nat
    <3> SUFFICES ASSUME NEW i \in 0 .. n + m
                 PROVE  (IF i <= n THEN a[i] ELSE a[n] + b[i - n]) \in Nat
      OBVIOUS
    <3>1. i <= n => a[i] \in Nat
      BY <1>1, <1>3 DEF Sums
    <3>2. ~(i <= n) => i - n \in 0 .. m
      BY <1>3
    <3>3. a[n] \in Nat
      BY <1>1, <1>3 DEF Sums
    <3>4. ~(i <= n) => b[i - n] \in Nat
      BY <1>2, <3>2 DEF Sums
    <3> QED
      BY <3>1, <3>3, <3>4
  <2>2. d \in [0 .. n + m -> Nat]
    BY <2>1
  <2>3. d[0] = 0
    BY <1>1, <1>3 DEF Sums
  <2>4. ASSUME NEW i \in 1 .. n + m PROVE d[i] = d[i - 1] + Len((s \o t)[i].data)
    <3>1. CASE i <= n
      <4>1. d[i] = a[i] /\ d[i - 1] = a[i - 1] /\ (s \o t)[i] = s[i] /\ i \in 1 .. n
        BY <3>1, <1>3, <1>4
      <4> QED
        BY <4>1, <1>1 DEF Sums
    <3>2. CASE i = n + 1
      <4>0. /\ ~(i <= n) /\ i - n = 1 /\ i - 1 = n /\ n <= n /\ 1 \in 1 .. m
            /\ i \in 0 .. n + m /\ n \in 0 .. n + m
        BY <3>2, <1>3
      <4>1. d[i] = a[n] + b[1] /\ d[i - 1] = a[n] /\ (s \o t)[i] = t[1] /\ 1 \in 1 .. m
        BY <4>0, <1>4
      <4>2. b[1] = b[1 - 1] + Len(t[1].data)
        BY <4>1, <1>2 DEF Sums
      <4>3. b[1 - 1] = 0 /\ b[1] \in Nat /\ a[n] \in Nat
        BY <4>1, <1>1, <1>2, <1>3 DEF Sums
      <4>4. b[1] = 0 + Len(t[1].data)
        BY <4>2, <4>3
      <4>5. Len(t[1].data) \in Nat
        BY <4>1, DataLength DEF m
      <4> QED
        BY <4>1, <4>3, <4>4, <4>5
    <3>3. CASE i > n + 1
      <4>1. /\ d[i] = a[n] + b[i - n] /\ d[i - 1] = a[n] + b[(i - 1) - n]
            /\ (s \o t)[i] = t[i - n] /\ i - n \in 1 .. m /\ (i - 1) - n = (i - n) - 1
        BY <3>3, <1>3, <1>4
      <4>2. b[i - n] = b[(i - n) - 1] + Len(t[i - n].data)
        BY <4>1, <1>2 DEF Sums
      <4>3. b[(i - n) - 1] \in Nat /\ a[n] \in Nat
        BY <4>1, <1>1, <1>2, <1>3 DEF Sums
      <4>4. Len(t[i - n].data) \in Nat
        BY <4>1, DataLength DEF m
      <4>5. d[i - 1] = a[n] + b[(i - n) - 1]
        BY <4>1
      <4>6. d[i] = a[n] + (b[(i - n) - 1] + Len(t[i - n].data))
        BY <4>1, <4>2
      <4>7. \A x, y, z \in Nat : x + (y + z) = (x + y) + z
        OBVIOUS
      <4>8. d[i] = (a[n] + b[(i - n) - 1]) + Len(t[i - n].data)
        BY <4>3, <4>4, <4>6, <4>7
      <4> HIDE DEF d
      <4> QED
        BY <4>1, <4>5, <4>8
    <3>4. i <= n \/ i = n + 1 \/ i > n + 1
      BY <1>3
    <3> HIDE DEF d
    <3> QED
      BY <3>1, <3>2, <3>3, <3>4
  <2> HIDE DEF d
  <2> QED
    BY <2>2, <2>3, <2>4 DEF Sums
<1>7. c[n + m] = d[n + m]
  <2> HIDE DEF d
  <2>0. n + m \in Nat /\ Sums(c, s \o t, n + m)
    BY <1>3, <1>5
  <2>1. \A i \in 0 .. n + m : c[i] = d[i]
    <3> DEFINE k == n + m
               st == s \o t
    <3>1. k \in Nat /\ Sums(c, st, k) /\ Sums(d, st, k)
      BY <2>0, <1>6
    <3>2. \A i \in 1 .. k : st[i] = st[i]
      OBVIOUS
    <3> HIDE DEF k, st
    <3>3. \A i \in 0 .. k : c[i] = d[i]
      <4>1. PICK x, y : x = c /\ y = d
        OBVIOUS
      <4>2. Sums(x, st, k) /\ Sums(y, st, k)
        BY <3>1, <4>1
      <4>3. \A i \in 0 .. k : x[i] = y[i]
        BY <3>1, <4>2, SumsUnique
      <4> QED
        BY <4>1, <4>3
    <3> QED
      BY <3>3 DEF k
  <2> QED
    BY <2>1, <1>3
<1>8. d[n + m] = a[n] + b[m]
  <2>1. CASE m = 0
    BY <2>1, <1>1, <1>2, <1>3 DEF Sums
  <2>2. CASE m # 0
    <3>1. n + m \in 0 .. n + m /\ ~(n + m <= n) /\ (n + m) - n = m
      BY <2>2, <1>3
    <3> QED
      BY <3>1
  <2> QED
    BY <2>1, <2>2
<1> QED
  BY <1>1, <1>2, <1>5, <1>7, <1>8

-----------------------------------------------------------------------------
(* Sequences that list a set of messages in the order of their offsets. *)

Lists(s, S) == s \in Seq(Message) /\ ascending(s) /\ ToSet(s) = S

Distinct(S) == \A m, n \in S : m.offset = n.offset => m = n

LEMMA Listed ==
    ASSUME NEW s, NEW S, Lists(s, S)
    PROVE  /\ Len(s) \in Nat /\ DOMAIN s = 1 .. Len(s) /\ S \subseteq Message
           /\ \A i \in 1 .. Len(s) : s[i] \in S /\ s[i].offset \in Nat
           /\ \A m \in S : \E i \in 1 .. Len(s) : s[i] = m
           /\ \A i, j \in 1 .. Len(s) : i < j => s[i].offset < s[j].offset
<1>1. Len(s) \in Nat /\ DOMAIN s = 1 .. Len(s) /\ \A i \in 1 .. Len(s) : s[i] \in Message
  BY LenProperties DEF Lists
<1>2. \A i \in 1 .. Len(s) : s[i] \in S
  BY <1>1 DEF Lists, ToSet
<1>3. \A m \in S : \E i \in 1 .. Len(s) : s[i] = m
  BY <1>1 DEF Lists, ToSet
<1>4. \A m \in Message : m.offset \in Nat
  BY DEF Message
<1> QED
  BY <1>1, <1>2, <1>3, <1>4 DEF Lists, ascending

LEMMA ListsIf ==
    ASSUME NEW s \in Seq(Message), NEW S,
           \A i \in 1 .. Len(s) : s[i] \in S,
           \A m \in S : \E i \in 1 .. Len(s) : s[i] = m,
           \A i, j \in 1 .. Len(s) : i < j => s[i].offset < s[j].offset
    PROVE  Lists(s, S)
<1>1. DOMAIN s = 1 .. Len(s)
  BY LenProperties
<1>2. ToSet(s) = S
  BY <1>1 DEF ToSet
<1> QED
  BY <1>1, <1>2 DEF Lists, ascending

LEMMA NothingLists ==
    ASSUME NEW s, NEW S, Lists(s, S)
    PROVE  S = {} <=> s = <<>>
<1>1. S = {} => Len(s) = 0
  BY Listed
<1>2. Len(s) = 0 => s = <<>>
  BY DEF Lists
<1>3. s = <<>> => Len(s) = 0
  OBVIOUS
<1> QED
  BY <1>1, <1>2, <1>3, Listed

LEMMA EmptyLists == Lists(<<>>, {})
<1>1. <<>> \in Seq(Message) /\ DOMAIN <<>> = {}
  BY EmptySeq
<1> QED
  BY <1>1 DEF Lists, ascending, ToSet

(* The order of the offsets leaves no choice. *)
LEMMA ListsAgree ==
    ASSUME NEW s, NEW t, NEW S, Lists(s, S), Lists(t, S)
    PROVE  Len(s) <= Len(t) /\ \A i \in 1 .. Len(s) : s[i] = t[i]
<1> DEFINE D == {i \in 1 .. Len(s) : i > Len(t) \/ s[i] # t[i]}
<1>1. SUFFICES ASSUME D # {} PROVE FALSE
  <2>1. Len(s) \in Nat /\ Len(t) \in Nat
    BY Listed
  <2>2. D = {} => \A i \in 1 .. Len(s) : ~(i > Len(t)) /\ s[i] = t[i]
    OBVIOUS
  <2>3. D = {} /\ Len(s) # 0 => ~(Len(s) > Len(t))
    BY <2>1, <2>2
  <2> QED
    BY <2>1, <2>2, <2>3
<1>2. D \in SUBSET Nat
  BY Listed
<1>3. PICK i \in D : \A j \in D : i <= j
  BY <1>1, <1>2, Least
<1>4. i \in 1 .. Len(s) /\ (i > Len(t) \/ s[i] # t[i])
  OBVIOUS
<1>5. \A j \in 1 .. Len(s) : j < i => j \in 1 .. Len(t) /\ s[j] = t[j]
  <2> SUFFICES ASSUME NEW j \in 1 .. Len(s), j < i PROVE j \in 1 .. Len(t) /\ s[j] = t[j]
    OBVIOUS
  <2>1. j \notin D
    BY <1>3, Listed
  <2> QED
    BY <2>1, Listed
<1>6. PICK k \in 1 .. Len(t) : t[k] = s[i]
  BY <1>4, Listed
<1>7. Len(s) \in Nat /\ Len(t) \in Nat
  BY Listed
<1> HIDE DEF D
<1>8. ~(k < i)
  <2> SUFFICES ASSUME k < i PROVE FALSE
    OBVIOUS
  <2>1. k \in 1 .. Len(s)
    BY <1>4, <1>7
  <2>2. s[k] = t[k] /\ s[k].offset < s[i].offset
    BY <1>4, <1>5, <2>1, Listed
  <2>3. s[i].offset \in Nat
    BY <1>4, Listed
  <2> QED
    BY <1>6, <2>2, <2>3
<1>9. k # i
  BY <1>4, <1>6, <1>7
<1>10. i \in 1 .. Len(t) /\ i < k
  BY <1>4, <1>6, <1>7, <1>8, <1>9
<1>11. t[i].offset < s[i].offset
  BY <1>6, <1>10, Listed
<1>12. PICK l \in 1 .. Len(s) : s[l] = t[i]
  BY <1>10, Listed
<1>13. s[l].offset \in Nat /\ s[i].offset \in Nat /\ t[i].offset \in Nat
  BY <1>4, <1>10, <1>12, Listed
<1>14. l < i
  <2>1. ~(i < l)
    BY <1>4, <1>11, <1>12, <1>13, Listed
  <2>2. l # i
    BY <1>11, <1>12, <1>13
  <2> QED
    BY <1>4, <1>7, <1>12, <2>1, <2>2
<1>15. l \in 1 .. Len(t) /\ t[l] = t[i]
  BY <1>5, <1>12, <1>14
<1>16. t[l].offset < t[i].offset
  BY <1>10, <1>14, <1>15, Listed
<1> QED
  BY <1>13, <1>15, <1>16

LEMMA OneList ==
    ASSUME NEW s, NEW t, NEW S, Lists(s, S), Lists(t, S)
    PROVE  s = t
<1>1. Len(s) <= Len(t) /\ \A i \in 1 .. Len(s) : s[i] = t[i]
  BY ListsAgree
<1>2. Len(t) <= Len(s)
  BY ListsAgree
<1>3. Len(s) = Len(t)
  BY <1>1, <1>2, Listed
<1>4. s \in Seq(Message) /\ t \in Seq(Message)
  BY DEF Lists
<1> QED
  BY <1>1, <1>3, <1>4, SeqEqual

LEMMA ListsConcat ==
    ASSUME NEW s, NEW S, NEW t, NEW T, Lists(s, S), Lists(t, T),
           \A m \in S, n \in T : m.offset < n.offset
    PROVE  Lists(s \o t, S \union T)
<1> DEFINE u == s \o t
<1>1. s \in Seq(Message) /\ t \in Seq(Message) /\ Len(s) \in Nat /\ Len(t) \in Nat
  BY Listed DEF Lists
<1>2. /\ u \in Seq(Message) /\ Len(u) = Len(s) + Len(t)
      /\ \A i \in 1 .. Len(s) + Len(t) : u[i] = IF i <= Len(s) THEN s[i] ELSE t[i - Len(s)]
  BY <1>1, ConcatProperties
<1> HIDE DEF u
<1>3. \A i \in 1 .. Len(s) : i \in 1 .. Len(u) /\ u[i] = s[i]
  BY <1>1, <1>2
<1>4. \A i \in 1 .. Len(t) : Len(s) + i \in 1 .. Len(u) /\ u[Len(s) + i] = t[i]
  <2> SUFFICES ASSUME NEW i \in 1 .. Len(t)
               PROVE  Len(s) + i \in 1 .. Len(u) /\ u[Len(s) + i] = t[i]
    OBVIOUS
  <2>1. /\ Len(s) + i \in 1 .. Len(s) + Len(t) /\ ~(Len(s) + i <= Len(s))
        /\ (Len(s) + i) - Len(s) = i
    BY <1>1
  <2> QED
    BY <1>2, <2>1
<1>5. \A i \in 1 .. Len(u) :
          \/ i \in 1 .. Len(s)
          \/ i > Len(s) /\ i - Len(s) \in 1 .. Len(t) /\ u[i] = t[i - Len(s)]
  BY <1>1, <1>2
<1>6. \A i \in 1 .. Len(u) : u[i] \in S \union T
  <2> SUFFICES ASSUME NEW i \in 1 .. Len(u) PROVE u[i] \in S \union T
    OBVIOUS
  <2>1. i \in 1 .. Len(s) => u[i] \in S
    BY <1>3, Listed
  <2>2. i - Len(s) \in 1 .. Len(t) /\ u[i] = t[i - Len(s)] => u[i] \in T
    BY Listed
  <2> QED
    BY <1>5, <2>1, <2>2
<1>7. \A m \in S \union T : \E i \in 1 .. Len(u) : u[i] = m
  <2>1. ASSUME NEW m \in S PROVE \E i \in 1 .. Len(u) : u[i] = m
    BY <1>3, Listed
  <2>2. ASSUME NEW m \in T PROVE \E i \in 1 .. Len(u) : u[i] = m
    <3>1. PICK j \in 1 .. Len(t) : t[j] = m
      BY Listed
    <3> QED
      BY <3>1, <1>4
  <2> QED
    BY <2>1, <2>2
<1>8. ASSUME NEW i \in 1 .. Len(u), NEW j \in 1 .. Len(u), i < j
      PROVE  u[i].offset < u[j].offset
  <2>1. CASE j \in 1 .. Len(s)
    <3>1. i \in 1 .. Len(s)
      BY <1>1, <1>2, <1>8, <2>1
    <3> QED
      BY <2>1, <3>1, <1>3, <1>8, Listed
  <2>2. CASE i \in 1 .. Len(s) /\ j \notin 1 .. Len(s)
    <3>1. u[i] \in S /\ u[j] \in T
      BY <2>2, <1>3, <1>5, Listed
    <3> QED
      BY <3>1
  <2>3. CASE i \notin 1 .. Len(s) /\ j \notin 1 .. Len(s)
    <3>1. /\ i - Len(s) \in 1 .. Len(t) /\ u[i] = t[i - Len(s)]
          /\ j - Len(s) \in 1 .. Len(t) /\ u[j] = t[j - Len(s)]
      BY <2>3, <1>5
    <3>2. i - Len(s) < j - Len(s)
      BY <1>1, <1>2, <1>8
    <3>3. PICK p \in 1 .. Len(t), q \in 1 .. Len(t) :
               p = i - Len(s) /\ q = j - Len(s)
      BY <3>1
    <3>4. t[p].offset < t[q].offset
      BY <3>2, <3>3, Listed
    <3> QED
      BY <3>1, <3>3, <3>4
  <2>4. i \in 1 .. Len(s) \/ j \notin 1 .. Len(s) \/ j \in 1 .. Len(s)
    OBVIOUS
  <2> QED
    BY <2>1, <2>2, <2>3
<1>9. Lists(u, S \union T)
  BY <1>2, <1>6, <1>7, <1>8, ListsIf
<1> QED
  BY <1>9 DEF u

LEMMA ListsOne ==
    ASSUME NEW m \in Message
    PROVE  Lists(<<m>>, {m})
<1>1. <<m>> \in Seq(Message) /\ Len(<<m>>) = 1 /\ <<m>>[1] = m
  OBVIOUS
<1> DEFINE s == <<m>>
<1> HIDE DEF s
<1>2. s \in Seq(Message) /\ Len(s) = 1 /\ s[1] = m
  BY <1>1 DEF s
<1>3. Lists(s, {m})
  <2>1. /\ \A i \in 1 .. Len(s) : s[i] \in {m}
        /\ \A x \in {m} : \E i \in 1 .. Len(s) : x = s[i]
        /\ \A i, j \in 1 .. Len(s) : ~(i < j)
    BY <1>2
  <2> QED
    <3>1. \A x \in {m} : \E i \in 1 .. Len(s) : s[i] = x
      BY <2>1
    <3>2. \A i, j \in 1 .. Len(s) : i < j => s[i].offset < s[j].offset
      BY <2>1
    <3>3. \A i \in 1 .. Len(s) : s[i] \in {m}
      BY <2>1
    <3>4. PICK S : S = {m}
      OBVIOUS
    <3>5. /\ \A i \in 1 .. Len(s) : s[i] \in S
          /\ \A x \in S : \E i \in 1 .. Len(s) : s[i] = x
      BY <3>1, <3>3, <3>4
    <3>6. Lists(s, S)
      BY <1>2, <3>2, <3>5, ListsIf
    <3> QED
      BY <3>4, <3>6
<1> QED
  BY <1>3 DEF s

(* The first messages of a list are those up to the last of them. *)
LEMMA ListsPrefix ==
    ASSUME NEW s, NEW S, Lists(s, S), NEW k \in 1 .. Len(s)
    PROVE  /\ Lists(SubSeq(s, 1, k), {m \in S : m.offset <= s[k].offset})
           /\ Len(SubSeq(s, 1, k)) = k
<1> DEFINE u == SubSeq(s, 1, k)
           U == {m \in S : m.offset <= s[k].offset}
<1>1. Len(s) \in Nat /\ s \in Seq(Message)
  BY Listed DEF Lists
<1>2. \A i \in 1 .. k : s[i] \in Message
  BY <1>1
<1>3. u \in Seq(Message) /\ Len(u) = k /\ \A i \in 1 .. k : u[i] = s[i]
  <2>1. u \in Seq(Message) /\ Len(u) = (IF 1 <= k THEN k - 1 + 1 ELSE 0)
        /\ \A i \in 1 .. k - 1 + 1 : u[i] = s[1 + i - 1]
    BY <1>2, SubSeqProperties
  <2>2. k - 1 + 1 = k /\ 1 <= k /\ \A i \in 1 .. k : 1 + i - 1 = i
    BY <1>1
  <2> HIDE DEF u
  <2> QED
    BY <2>1, <2>2
<1> HIDE DEF u
<1>4. \A i \in 1 .. k : i \in 1 .. Len(s)
  BY <1>1
<1>5. \A i \in 1 .. Len(s) : s[i].offset \in Nat
  BY Listed
<1>6. ASSUME NEW i \in 1 .. Len(s) PROVE s[i].offset <= s[k].offset <=> i <= k
  <2>1. i < k => s[i].offset < s[k].offset
    BY Listed
  <2>2. k < i => s[k].offset < s[i].offset
    BY Listed
  <2>3. s[i].offset \in Nat /\ s[k].offset \in Nat
    BY <1>5
  <2>4. i = k => s[i].offset = s[k].offset
    OBVIOUS
  <2>5. i < k \/ i = k \/ k < i
    BY <1>1
  <2> QED
    BY <1>1, <2>1, <2>2, <2>3, <2>4, <2>5
<1>7. \A i \in 1 .. Len(u) : u[i] \in U
  <2> SUFFICES ASSUME NEW i \in 1 .. k PROVE s[i] \in U
    BY <1>3
  <2>1. i \in 1 .. Len(s) /\ i <= k
    BY <1>4
  <2> QED
    BY <2>1, <1>6, Listed
<1>8. \A m \in U : \E i \in 1 .. Len(u) : u[i] = m
  <2> SUFFICES ASSUME NEW m \in S, m.offset <= s[k].offset
               PROVE  \E i \in 1 .. k : u[i] = m
    BY <1>3
  <2>1. PICK i \in 1 .. Len(s) : s[i] = m
    BY Listed
  <2>2. i \in 1 .. k
    BY <1>1, <1>6, <2>1
  <2> QED
    BY <1>3, <2>1, <2>2
<1>9. \A i, j \in 1 .. Len(u) : i < j => u[i].offset < u[j].offset
  BY <1>3, <1>4, Listed
<1> HIDE DEF U
<1>10. Lists(u, U)
  BY <1>3, <1>7, <1>8, <1>9, ListsIf
<1> QED
  BY <1>3, <1>10 DEF u, U

LEMMA ListedIsFinite ==
    ASSUME NEW s, NEW S, Lists(s, S)
    PROVE  IsFiniteSet(S) /\ Cardinality(S) = Len(s)
<1>1. s \in [1 .. Len(s) -> S]
  <2>1. s \in Seq(Message)
    BY DEF Lists
  <2>2. DOMAIN s = 1 .. Len(s) /\ s = [i \in 1 .. Len(s) |-> s[i]]
    BY <2>1, LenProperties
  <2> QED
    BY <2>2, Listed
<1>2. \A i, j \in 1 .. Len(s) : s[i] = s[j] => i = j
  <2> SUFFICES ASSUME NEW i \in 1 .. Len(s), NEW j \in 1 .. Len(s), s[i] = s[j], i < j
               PROVE  FALSE
    BY Listed
  <2> QED
    BY Listed
<1>3. \A m \in S : \E i \in 1 .. Len(s) : s[i] = m
  BY Listed
<1>4. s \in Bijection(1 .. Len(s), S)
  BY <1>1, <1>2, <1>3 DEF Bijection, Injection, Surjection, IsInjective
<1>5. ExistsBijection(1 .. Len(s), S)
  BY <1>4 DEF ExistsBijection
<1>6. /\ IsFiniteSet(1 .. Len(s))
      /\ Cardinality(1 .. Len(s)) = IF 1 > Len(s) THEN 0 ELSE Len(s) - 1 + 1
  BY Listed, FS_Interval
<1>7. IsFiniteSet(S) /\ Cardinality(S) = Cardinality(1 .. Len(s))
  BY <1>5, <1>6, FS_Bijection
<1> QED
  BY <1>6, <1>7, Listed

LEMMA ListExists ==
    ASSUME NEW S \in SUBSET Message, IsFiniteSet(S), Distinct(S)
    PROVE  \E s : Lists(s, S)
<1> DEFINE K == {k \in Nat : \A T \in SUBSET Message :
                    IsFiniteSet(T) /\ Cardinality(T) = k /\ Distinct(T)
                        => \E t : Lists(t, T)}
<1>1. 0 \in K
  BY FS_EmptySet, EmptyLists
<1>2. ASSUME NEW k \in Nat, k \in K PROVE k + 1 \in K
  <2> SUFFICES ASSUME NEW T \in SUBSET Message,
                      IsFiniteSet(T), Cardinality(T) = k + 1, Distinct(T)
               PROVE  \E t : Lists(t, T)
    OBVIOUS
  <2>1. T # {}
    BY FS_EmptySet
  <2>2. \A m \in T : m.offset \in Nat
    BY DEF Message
  <2>3. PICK m \in T : \A n \in T : m.offset <= n.offset
    <3> DEFINE O == {n.offset : n \in T}
    <3>1. O \in SUBSET Nat /\ O # {}
      BY <2>1, <2>2
    <3> HIDE DEF O
    <3>2. PICK o \in O : \A p \in O : o <= p
      BY <3>1, Least
    <3> QED
      BY <3>2 DEF O
  <2> DEFINE U == T \ {m}
  <2>4. IsFiniteSet(U) /\ Cardinality(U) = k
    <3>1. IsFiniteSet(U) /\ Cardinality(U) = Cardinality(T) - 1
      BY FS_RemoveElement
    <3> QED
      BY <3>1
  <2>5. U \in SUBSET Message /\ Distinct(U)
    BY DEF Distinct
  <2> HIDE DEF U
  <2>6. PICK u : Lists(u, U)
    BY <1>2, <2>4, <2>5
  <2>7. Lists(<<m>>, {m})
    BY ListsOne
  <2>8. \A a \in {m}, n \in U : a.offset < n.offset
    <3> SUFFICES ASSUME NEW n \in T, n # m PROVE m.offset < n.offset
      BY DEF U
    <3>1. m.offset # n.offset
      BY DEF Distinct
    <3> QED
      BY <2>2, <2>3, <3>1
  <2>9. Lists(<<m>> \o u, {m} \union U)
    BY <2>6, <2>7, <2>8, ListsConcat
  <2>10. {m} \union U = T
    BY DEF U
  <2> QED
    BY <2>9, <2>10
<1>3. Nat \subseteq K
  <2> HIDE DEF K
  <2> QED BY <1>1, <1>2, Upward
<1>4. Cardinality(S) \in K
  BY <1>3, FS_CardinalityType
<1> QED
  BY <1>4

LEMMA OrderedLists ==
    ASSUME NEW S \in SUBSET Message, IsFiniteSet(S), Distinct(S)
    PROVE  /\ Lists(ordered(S), S)
           /\ Len(ordered(S)) = Cardinality(S)
<1> DEFINE c == Cardinality(S)
           b == ordered(S)
<1>1. c \in Nat
  BY FS_CardinalityType
<1>2. PICK s : Lists(s, S)
  BY ListExists
<1>3. s \in [1 .. c -> S] /\ ascending(s)
  <2>1. c = Len(s) /\ s \in Seq(Message)
    BY <1>2, ListedIsFinite DEF Lists
  <2>2. DOMAIN s = 1 .. c /\ s = [i \in 1 .. c |-> s[i]]
    BY <2>1, LenProperties
  <2>3. \A i \in 1 .. c : s[i] \in S
    BY <1>2, <2>1, Listed
  <2> QED
    BY <1>2, <2>2, <2>3 DEF Lists
<1>4. b \in [1 .. c -> S] /\ ascending(b)
  BY <1>3 DEF ordered
<1> HIDE DEF c, b
<1>5. b \in Seq(Message) /\ Len(b) = c
  BY <1>1, <1>4
<1>6. \A i \in 1 .. c : b[i].offset \in Nat
  BY <1>4 DEF Message
<1>7. \A i, j \in 1 .. c : i < j => b[i].offset < b[j].offset
  BY <1>4 DEF ascending
<1>8. \A i, j \in 1 .. c : b[i] = b[j] => i = j
  <2> SUFFICES ASSUME NEW i \in 1 .. c, NEW j \in 1 .. c, b[i] = b[j], i < j
               PROVE  FALSE
    BY <1>1
  <2> QED
    BY <1>6, <1>7
<1>9. b \in Injection(1 .. c, S)
  BY <1>4, <1>8 DEF Injection, IsInjective
<1>10. Cardinality(1 .. c) = c
  <2>1. Cardinality(1 .. c) = IF 1 > c THEN 0 ELSE c - 1 + 1
    BY <1>1, FS_Interval
  <2> QED
    BY <1>1, <2>1
<1>11. b \in Surjection(1 .. c, S)
  BY <1>9, <1>10, FS_Injection DEF c
<1>12. Lists(b, S)
  <2>1. \A m \in S : \E i \in 1 .. Len(b) : b[i] = m
    BY <1>5, <1>11 DEF Surjection
  <2>2. \A i \in 1 .. Len(b) : b[i] \in S
    BY <1>4, <1>5
  <2>3. \A i, j \in 1 .. Len(b) : i < j => b[i].offset < b[j].offset
    BY <1>5, <1>7
  <2> QED
    BY <1>5, <2>1, <2>2, <2>3, ListsIf
<1> QED
  BY <1>5, <1>12 DEF b, c

-----------------------------------------------------------------------------
(* What the query for the lengths selects: a prefix of the rows, within the *)
(* limit and the budget, and all of them unless it says that there are more.*)

LEMMA FirstOnes ==
    ASSUME NEW s \in Seq(Message), NEW k \in 0 .. Len(s)
    PROVE  /\ SubSeq(s, 1, k) \in Seq(Message) /\ Len(SubSeq(s, 1, k)) = k
           /\ \A i \in 1 .. k : SubSeq(s, 1, k)[i] = s[i]
<1>1. Len(s) \in Nat
  BY LenProperties
<1>2. \A i \in 1 .. k : s[i] \in Message
  BY <1>1
<1> DEFINE u == SubSeq(s, 1, k)
<1>3. /\ u \in Seq(Message) /\ Len(u) = (IF 1 <= k THEN k - 1 + 1 ELSE 0)
      /\ \A i \in 1 .. k - 1 + 1 : u[i] = s[1 + i - 1]
  BY <1>2, SubSeqProperties
<1>4. k - 1 + 1 = k /\ (1 <= k \/ k = 0) /\ \A i \in 1 .. k : 1 + i - 1 = i
  BY <1>1
<1> HIDE DEF u
<1>5. u \in Seq(Message) /\ Len(u) = k /\ \A i \in 1 .. k : u[i] = s[i]
  BY <1>3, <1>4
<1> QED
  BY <1>5 DEF u

ScannedOf(found, limit) == SubSeq(found, 1, Min({Len(found), scan_limit(limit)}))
TakenOf(scanned, limit, budget, batch) == selected(scanned, limit, budget, batch = <<>>)

Selects(found, limit, budget, batch, scanned, k) ==
    /\ k \in 0 .. Len(found) /\ k <= limit
    /\ k = 0 => Len(found) = 0 \/ batch # <<>>
    /\ k # 0 => (k = 1 /\ batch = <<>>) \/ bytes(SubSeq(found, 1, k)) <= budget
    /\ k # 0 => scanned[k] = found[k]
    /\ Len(scanned) > k => Len(found) > k
    /\ ~(Len(scanned) > k) => k = Len(found)

LEMMA Selection ==
    ASSUME NEW found \in Seq(Message), NEW limit \in 1 .. MAX_READ_ROWS,
           NEW budget \in Nat, NEW batch,
           NEW scanned, scanned = ScannedOf(found, limit),
           NEW k, k = TakenOf(scanned, limit, budget, batch)
    PROVE  Selects(found, limit, budget, batch, scanned, k)
<1> DEFINE n == Len(found)
           l == Min({n, limit + 1})
<1>1. n \in Nat /\ limit \in Nat /\ limit >= 1
  BY LenProperties, LimitsArePositive
<1>2. scan_limit(limit) = limit + 1
  <2>1. Min({limit, MAX_READ_ROWS}) = limit
    BY LimitsArePositive, MinOfTwo
  <2> QED
    BY <2>1 DEF scan_limit
<1>3. l = (IF n <= limit + 1 THEN n ELSE limit + 1)
  BY <1>1, MinOfTwo
<1>4. scanned = SubSeq(found, 1, l)
  BY <1>2 DEF ScannedOf
<1> HIDE DEF l, n
<1>5. l \in 0 .. n
  BY <1>1, <1>3
<1>6. scanned \in Seq(Message) /\ Len(scanned) = l /\ \A i \in 1 .. l : scanned[i] = found[i]
  BY <1>4, <1>5, FirstOnes DEF n
<1>7. \A j \in 0 .. l : SubSeq(scanned, 1, j) = SubSeq(found, 1, j)
  <2> SUFFICES ASSUME NEW j \in 0 .. l PROVE SubSeq(scanned, 1, j) = SubSeq(found, 1, j)
    OBVIOUS
  <2>1. j \in 0 .. Len(found) /\ j \in 0 .. Len(scanned)
    BY <1>1, <1>5, <1>6 DEF n
  <2> DEFINE u == SubSeq(scanned, 1, j)
             v == SubSeq(found, 1, j)
  <2>2. u \in Seq(Message) /\ Len(u) = j /\ \A i \in 1 .. j : u[i] = scanned[i]
    BY <1>6, <2>1, FirstOnes
  <2>3. v \in Seq(Message) /\ Len(v) = j /\ \A i \in 1 .. j : v[i] = found[i]
    BY <2>1, FirstOnes
  <2> HIDE DEF u, v
  <2>4. \A i \in 1 .. j : i \in 1 .. l
    BY <1>5, <1>1
  <2>5. u = v
    BY <2>2, <2>3, <2>4, <1>6, SeqEqual
  <2> QED
    BY <2>5 DEF u, v
<1> DEFINE Fits(i) == (i = 1 /\ batch = <<>>) \/ bytes(SubSeq(scanned, 1, i)) <= budget
           top_k == Min({limit, Len(scanned)})
           K == {i \in 0 .. top_k : \A j \in 1 .. i : Fits(j)}
<1>8. k = Max(K)
  BY DEF selected, TakenOf
<1>9. top_k = (IF limit <= l THEN limit ELSE l)
  <2>1. limit \in Int /\ l \in Int
    BY <1>1, <1>5
  <2> QED
    BY <1>6, <2>1, MinOfTwo
<1> HIDE DEF top_k
<1>10. top_k \in Nat /\ top_k <= limit /\ top_k <= l /\ (l >= 1 => top_k >= 1)
       /\ (l < n => l > top_k)
       /\ (l >= limit + 1 => top_k = limit)
  BY <1>1, <1>3, <1>5, <1>9
<1>11. 0 \in K /\ K \in SUBSET Nat /\ \A i \in K : i <= top_k
  BY <1>10
<1>12. k \in K /\ \A i \in K : i <= k
  <2> HIDE DEF K
  <2>1. K # {}
    BY <1>11
  <2> QED
    BY <1>8, <1>10, <1>11, <2>1, Greatest
<1>13. k \in 0 .. top_k /\ \A j \in 1 .. k : Fits(j)
  BY <1>12
<1>14. k \in 0 .. n /\ k <= limit /\ k <= l
  <2> HIDE DEF K, Fits
  <2> QED BY <1>1, <1>5, <1>10, <1>13
<1>15. k = 0 => n = 0 \/ batch # <<>>
  <2> SUFFICES ASSUME k = 0, n # 0, batch = <<>> PROVE FALSE
    OBVIOUS
  <2>1. l >= 1
    BY <1>1, <1>3
  <2>2. 1 \in 0 .. top_k
    BY <1>10, <2>1
  <2>3. \A j \in 1 .. 1 : Fits(j)
    OBVIOUS
  <2>4. 1 \in K
    BY <2>2, <2>3
  <2> HIDE DEF K, Fits
  <2>6. \A x \in Nat : 1 <= x => x # 0
    OBVIOUS
  <2>5. 1 <= k
    BY <1>12, <2>4
  <2> QED
    BY <2>5, <2>6, <1>1, <1>14
<1>16. ASSUME k # 0 PROVE (k = 1 /\ batch = <<>>) \/ bytes(SubSeq(found, 1, k)) <= budget
  <2>1. k \in 1 .. k /\ k \in 0 .. l
    BY <1>14, <1>16, <1>1, <1>5
  <2>2. Fits(k)
    BY <1>13, <2>1
  <2>3. SubSeq(scanned, 1, k) = SubSeq(found, 1, k)
    BY <1>7, <2>1
  <2> QED
    BY <2>2, <2>3
<1>17. k # 0 => scanned[k] = found[k]
  <2> HIDE DEF K, Fits
  <2> QED BY <1>6, <1>14, <1>1, <1>5
<1>18. (l > k => n > k) /\ (~(l > k) => k = n)
  <2> HIDE DEF K, Fits
  <2> QED BY <1>1, <1>3, <1>5, <1>14
<1> HIDE DEF K, Fits
<1> QED
  BY <1>6, <1>14, <1>15, <1>16, <1>17, <1>18 DEF n, Selects

-----------------------------------------------------------------------------
(* Good batches: of the messages W that a call is asked for, those up to    *)
(* some offset, in order, within a limit and a budget; all of them up to    *)
(* the tail T unless the batch says that it was cut short.                  *)

GoodFor(W, T, limit, budget, batch) ==
    LET got == ToSet(batch.messages)
    IN  /\ Lists(batch.messages, got) /\ got \subseteq W
        /\ \A m \in W, b \in got : m.offset <= b.offset => m \in got
        /\ batch.capped => batch.messages # <<>>
        /\ ~batch.capped => \A m \in W : m.offset <= T => m \in got
        /\ Len(batch.messages) <= limit
        /\ Len(batch.messages) > 1 => bytes(batch.messages) <= budget

(* A message appended meanwhile changes nothing. *)
LEMMA GoodGrows ==
    ASSUME NEW W, NEW V, NEW T \in Nat, NEW limit, NEW budget, NEW batch,
           GoodFor(W, T, limit, budget, batch), W \subseteq V, V \subseteq Message,
           NEW end \in Nat, T <= end, \A m \in W : m.offset <= end,
           \A m \in V \ W : m.offset > end
    PROVE  GoodFor(V, T, limit, budget, batch)
<1> DEFINE got == ToSet(batch.messages)
<1> HIDE DEF got
<1>1. got \subseteq W /\ \A m \in W, b \in got : m.offset <= b.offset => m \in got
  BY DEF GoodFor, got
<1>2. \A m \in V : m.offset \in Nat
  BY DEF Message
<1>3. \A m \in V, b \in got : m.offset <= b.offset => m \in got
  BY <1>1, <1>2
<1>4. (\A m \in W : m.offset <= T => m \in got) => \A m \in V : m.offset <= T => m \in got
  BY <1>2
<1>5. got \subseteq V
  BY <1>1
<1> QED
  BY <1>3, <1>4, <1>5 DEF GoodFor, got

(* What a source has found is handed up by a fork that adds nothing to it.  *)
LEMMA GoodHandedUp ==
    ASSUME NEW W, W \subseteq Message, NEW T, NEW limit, NEW budget, NEW batch, NEW F \in Nat,
           GoodFor({m \in W : m.offset <= F}, T, limit, budget, batch),
           batch.messages # <<>>
    PROVE  GoodFor(W, T, limit, budget, [messages |-> batch.messages, capped |-> TRUE])
<1> DEFINE got == ToSet(batch.messages)
           W0 == {m \in W : m.offset <= F}
<1>1. \A m \in W : m.offset \in Nat
  BY DEF Message
<1>2. got \subseteq W0 /\ \A m \in W0, b \in got : m.offset <= b.offset => m \in got
  BY DEF GoodFor
<1>3. \A m \in W, b \in got : m.offset <= b.offset => m \in got
  <2> SUFFICES ASSUME NEW m \in W, NEW b \in got, m.offset <= b.offset PROVE m \in W0
    BY <1>2
  <2>1. b \in W /\ b.offset <= F
    BY <1>2
  <2> QED
    BY <1>1, <2>1
<1>4. got \subseteq W
  BY <1>2
<1>5. /\ Lists(batch.messages, got) /\ Len(batch.messages) <= limit
      /\ Len(batch.messages) > 1 => bytes(batch.messages) <= budget
  BY DEF GoodFor
<1> HIDE DEF got
<1> QED
  BY <1>3, <1>4, <1>5 DEF GoodFor, got

(* A whole reply is the inherited part. *)
LEMMA WholeReply ==
    ASSUME NEW W, NEW T, NEW limit, NEW budget, NEW batch,
           GoodFor(W, T, limit, budget, batch), ~batch.capped, \A m \in W : m.offset <= T
    PROVE  Lists(batch.messages, W)
<1>1. ToSet(batch.messages) = W
  BY DEF GoodFor
<1> QED
  BY <1>1 DEF GoodFor

(* A list of the messages up to an offset is a good batch if it is within   *)
(* its limits and says truly whether it was cut short.                      *)
LEMMA GoodList ==
    ASSUME NEW W, W \subseteq Message, NEW T, NEW limit, NEW budget, NEW s, NEW capped,
           NEW end \in Nat, Lists(s, {m \in W : m.offset <= end}),
           capped => s # <<>>,
           ~capped => \A m \in W : m.offset <= T => m.offset <= end,
           Len(s) <= limit, Len(s) > 1 => bytes(s) <= budget
    PROVE  GoodFor(W, T, limit, budget, [messages |-> s, capped |-> capped])
<1> DEFINE S == {m \in W : m.offset <= end}
<1>1. ToSet(s) = S
  BY DEF Lists
<1>2. \A m \in W : m.offset \in Nat
  BY DEF Message
<1>3. \A m \in W, b \in S : m.offset <= b.offset => m \in S
  BY <1>2
<1>4. S \subseteq W /\ Lists(s, S)
  OBVIOUS
<1>5. ~capped => \A m \in W : m.offset <= T => m \in S
  OBVIOUS
<1> HIDE DEF S
<1> QED
  BY <1>1, <1>3, <1>4, <1>5 DEF GoodFor

-----------------------------------------------------------------------------
(* The invariant *)

StoreType ==
    /\ gens \in 0 .. MaxGeneration
    /\ meta \in [Streams -> MetaRow \union {None}]
    /\ messages \in [Streams -> SUBSET Message]
    /\ log \in [1 .. MaxGeneration -> SUBSET Message]
    /\ \A s \in Streams :
          IF meta[s] = None THEN messages[s] = {}
          ELSE \A m \in messages[s] :
                  /\ m.generation = meta[s].generation
                  /\ m.offset \in meta[s].fork_offset + 1 .. meta[s].current_offset

ReadType ==
    /\ changes \in 0 .. MaxChanges
    /\ request \in Request \union {None} /\ stack \in Seq(Frame)
    /\ reply \in Batch \union {None}
    /\ answer \in [request : Request, batch : Batch] \union {None}

LEMMA TypeParts == TypeOK <=> StoreType /\ ReadType
BY DEF TypeOK, StoreType, ReadType

(* The history of a living generation: its own rows are those beyond its    *)
(* fork offset, and up to there it is the history of its source, which is   *)
(* there in the generation it was forked from.                              *)
Source_of(s) ==
    LET row == meta[s]
        source == meta[row.forked_from]
    IN  /\ source # None /\ source.generation = row.source_generation
        /\ row.fork_offset <= source.current_offset
        /\ upto(row.generation, row.fork_offset) = upto(row.source_generation, row.fork_offset)

History(s) ==
    meta[s] # None =>
        LET row == meta[s]
            own == log[row.generation]
        IN  /\ row.generation <= gens
            /\ \A t \in Streams :
                  meta[t] # None /\ meta[t].generation = row.generation => t = s
            /\ row.fork_offset <= row.current_offset
            /\ IsFiniteSet(own) /\ Distinct(own)
            /\ \A m \in own : m.offset <= row.current_offset
            /\ messages[s] = beyond(row.generation, row.fork_offset)
            /\ row.forked_from = None => upto(row.generation, row.fork_offset) = {}
            /\ row.forked_from # None => Source_of(s)

StoreInv == \A s \in Streams : History(s)

(* A read is only good for something while its stream is the one it began   *)
(* with; the source of a fork to come is pinned.                            *)
Fresh ==
    /\ meta[request.stream] # None
    /\ meta[request.stream].generation = request.generation

RequestInv ==
    request # None =>
        /\ request.generation <= gens
        /\ request.kind = "fork" =>
              /\ Fresh /\ request.child \in Streams /\ meta[request.child] = None
              /\ request.after \in Nat
              /\ request.after <= meta[request.stream].current_offset

(* What the call at depth i + 1 is asked for: by the request, or by the     *)
(* level above it.                                                          *)
Ask == [stream : Streams, generation : 1 .. MaxGeneration, after : Int,
        cap : Nat \union {None}, limit : 1 .. MAX_READ_ROWS, budget : 0 .. MAX_READ_BYTES]

first_ask(r) ==
    [stream |-> r.stream, generation |-> r.generation, after |-> r.after, cap |-> None,
     limit |-> r.limit, budget |-> MAX_READ_BYTES]
next_ask(f) ==
    [stream |-> f.meta.forked_from, generation |-> meta[f.stream].source_generation,
     after |-> f.after, cap |-> inherited_cap(f), limit |-> f.limit,
     budget |-> f.remaining]
asked(i) == IF i = 0 THEN first_ask(request) ELSE next_ask(stack[i])

(* The messages asked for. *)
Within(a) == {m \in log[a.generation] : in_range(m, a.after, a.cap)}

(* The stream that is asked is there and reaches as far as it is asked to.  *)
Held(a) ==
    /\ a \in Ask
    /\ meta[a.stream] # None /\ meta[a.stream].generation = a.generation
    /\ a.cap # None => a.cap <= meta[a.stream].current_offset /\ a.cap <= request.tail
    /\ a.cap = None => /\ meta[a.stream].fork_offset <= request.tail
                       /\ request.tail <= meta[a.stream].current_offset

(* A call is about what it was asked for. *)
Serves(f, a) ==
    /\ f.stream = a.stream /\ f.after = a.after /\ f.cap = a.cap
    /\ f.limit = a.limit /\ f.budget = a.budget
    /\ f.meta.generation = a.generation
    /\ f.meta.forked_from = meta[a.stream].forked_from
    /\ f.meta.fork_offset = meta[a.stream].fork_offset

Inherited(f, a) == {m \in Within(a) : m.offset <= f.meta.fork_offset}
Own(f, a) == {m \in Within(a) : m.offset > f.meta.fork_offset}

(* It has not begun, or it has the inherited part. *)
Beginning(f) ==
    /\ f.messages = <<>> /\ f.remaining = f.budget
    /\ f.meta.forked_from # None /\ f.after < f.meta.fork_offset

Begun(f, a) ==
    /\ Lists(f.messages, Inherited(f, a))
    /\ Len(f.messages) < f.limit
    /\ bytes(f.messages) + f.remaining = f.budget

(* The rows it will take of its own. *)
Taken(f, a) == {m \in Own(f, a) : m.offset <= f.last}
Chosen(f, a) ==
    /\ f.last \in Nat /\ f.last <= meta[a.stream].current_offset
    /\ f.last > f.meta.fork_offset
    /\ LET s == ordered(Taken(f, a))
       IN  /\ s # <<>> /\ Len(f.messages) + Len(s) <= f.limit
           /\ bytes(s) <= f.remaining \/ (f.messages = <<>> /\ Len(s) = 1)
    /\ ~f.capped => \A m \in Own(f, a) : m.offset <= request.tail => m.offset <= f.last

FrameInv(f, a) ==
    /\ Held(a) /\ Serves(f, a)
    /\ f.pc \in {"inherit", "inherited"} => Beginning(f)
    /\ f.pc \in {"lengths", "rows"} => Begun(f, a)
    /\ f.pc = "rows" => Chosen(f, a)

Good(a, batch) == GoodFor(Within(a), request.tail, a.limit, a.budget, batch)

(* Only a call that has called is not the innermost one. *)
Nested ==
    /\ \A i \in 1 .. Len(stack) :
          /\ i # Len(stack) => stack[i].pc = "inherited"
          /\ stack[i].pc \in {"inherit", "inherited"} => stack[i].meta.forked_from # None
    /\ stack # <<>> => request # None

Reading ==
    request # None /\ Fresh =>
        /\ \A i \in 1 .. Len(stack) : FrameInv(stack[i], asked(i - 1))
        /\ reply # None /\ (stack = <<>> \/ at("inherited")) =>
              Held(asked(Len(stack))) /\ Good(asked(Len(stack)), reply)

(* What was answered was good when it was.  *)
Answered ==
    answer # None =>
        LET r == answer.request
        IN  GoodFor(Within(first_ask(r)), r.tail, r.limit, MAX_READ_BYTES, answer.batch)

IInv == TypeOK /\ StoreInv /\ RequestInv /\ Nested /\ Reading /\ Answered

-----------------------------------------------------------------------------
(* Payloads are sequences of tokens. *)

LEMMA AppendedTokens ==
    ASSUME NEW values \in Seq(Token)
    PROVE  process_json_append(values) \in Seq(Token)
<1>1. Len(values) \in Nat
  BY LenProperties
<1>2. Comma \in Token
  BY DEF Token
<1>3. \A i \in 1 .. 2 * Len(values) :
         (IF i % 2 = 1 THEN values[(i + 1) \div 2] ELSE Comma) \in Token
  <2> SUFFICES ASSUME NEW i \in 1 .. 2 * Len(values), i % 2 = 1
               PROVE  values[(i + 1) \div 2] \in Token
    BY <1>2
  <2>1. (i + 1) \div 2 \in 1 .. Len(values)
    BY <1>1
  <2> QED
    BY <2>1
<1>4. 2 * Len(values) \in Nat
  BY <1>1
<1> QED
  BY <1>3, <1>4 DEF process_json_append

LEMMA PrefixTokens ==
    ASSUME NEW first \in Seq(Token), NEW n \in Nat,
           sub_offset_prefix(first, n) # Refused
    PROVE  sub_offset_prefix(first, n) \in Seq(Token)
<1> DEFINE rest == without_last_comma(first)
           tokens == <<Open>> \o rest \o <<Close>>
           inner == SubSeq(tokens, 2, Len(tokens) - 1)
           w == wrapped(first)
<1>1. Len(first) \in Nat
  BY LenProperties
<1>2. rest \in Seq(Token)
  <2>1. ASSUME first # <<>> PROVE Front(first) \in Seq(Token)
    <3>1. \A i \in 1 .. Len(first) - 1 : first[i] \in Token
      BY <1>1
    <3>2. SubSeq(first, 1, Len(first) - 1) \in Seq(Token)
      BY <1>1, <3>1, SubSeqProperties
    <3> QED
      BY <3>2 DEF Front
  <2> QED
    BY <2>1 DEF without_last_comma
<1>3. Open \in Token /\ Close \in Token
  BY DEF Token
<1>4. tokens \in Seq(Token) /\ Len(tokens) = Len(rest) + 2
  <2> HIDE DEF rest
  <2> QED BY <1>2, <1>3
<1>5. Len(rest) \in Nat
  BY <1>2, LenProperties
<1> HIDE DEF rest, tokens
<1>6. inner \in Seq(Token) /\ Len(inner) = Len(rest)
  <2>1. \A i \in 2 .. Len(tokens) - 1 : tokens[i] \in Token
    BY <1>4, <1>5
  <2>2. /\ inner \in Seq(Token)
        /\ Len(inner) = IF 2 <= Len(tokens) - 1 THEN Len(tokens) - 1 - 2 + 1 ELSE 0
    BY <1>4, <1>5, <2>1, SubSeqProperties
  <2> HIDE DEF inner
  <2> QED
    BY <1>4, <1>5, <2>2
<1>7. w # Refused /\ ~(n > Len(w))
  BY DEF sub_offset_prefix
<1>8. w = array_of(tokens)
  BY DEF wrapped, tokens, rest
<1> HIDE DEF w
<1>9. /\ inner = <<>> \/ Len(inner) % 2 = 1
      /\ w = [i \in 1 .. (Len(inner) + 1) \div 2 |-> inner[2 * i - 1]]
  BY <1>7, <1>8 DEF array_of
<1> HIDE DEF inner
<1>10. /\ w \in Seq(Token) /\ (Len(inner) + 1) \div 2 \in Nat
  <2>1. Len(inner) = 0 \/ Len(inner) % 2 = 1
    BY <1>9
  <2>2. \A i \in 1 .. (Len(inner) + 1) \div 2 : 2 * i - 1 \in 1 .. Len(inner)
    BY <1>5, <1>6, <2>1
  <2>3. \A i \in 1 .. (Len(inner) + 1) \div 2 : inner[2 * i - 1] \in Token
    BY <1>6, <2>2
  <2>4. (Len(inner) + 1) \div 2 \in Nat
    BY <1>5, <1>6
  <2> QED
    BY <1>9, <2>3, <2>4
<1>11. [i \in 1 .. n |-> w[i]] \in Seq(Token)
  <2>1. Len(w) \in Nat
    BY <1>10, LenProperties
  <2>2. \A i \in 1 .. n : w[i] \in Token
    BY <1>7, <1>10, <2>1
  <2> QED
    BY <2>2
<1>12. sub_offset_prefix(first, n) = process_json_append([i \in 1 .. n |-> w[i]])
  BY <1>7 DEF sub_offset_prefix, w
<1> QED
  BY <1>11, <1>12, AppendedTokens

LEMMA Advances ==
    ASSUME NEW offset \in Nat, NEW data \in Seq(Token)
    PROVE  /\ advance_offset(offset, data) \in Nat \ {0}
           /\ advance_offset(offset, data) > offset
<1>1. Len(data) \in Nat
  BY LenProperties
<1> QED
  BY <1>1 DEF advance_offset

-----------------------------------------------------------------------------
(* What a step of a stream does to the others, and to those who read them:  *)
(* a stream is kept, with what was appended beyond its tail, unless it is   *)
(* purged, and a pinned one is kept; a new one is of a new generation.      *)

Kept(s) ==
    /\ meta[s] # None /\ meta'[s] # None
    /\ meta'[s].generation = meta[s].generation
    /\ meta'[s].forked_from = meta[s].forked_from
    /\ meta'[s].fork_offset = meta[s].fork_offset
    /\ meta'[s].source_generation = meta[s].source_generation
    /\ meta'[s].current_offset \in Nat
    /\ meta[s].current_offset <= meta'[s].current_offset
    /\ log'[meta[s].generation] \subseteq Message
    /\ log[meta[s].generation] \subseteq log'[meta[s].generation]
    /\ \A m \in log'[meta[s].generation] :
          m \notin log[meta[s].generation] => m.offset > meta[s].current_offset

StoreStep ==
    /\ gens' >= gens
    /\ \A s \in Streams :
          /\ meta'[s] = None \/ Kept(s)
                \/ (meta[s] = None /\ meta'[s] # None /\ meta'[s].generation > gens)
          /\ meta[s] # None /\ pinned(s) => Kept(s)

(* The facts about a row that all of this needs. *)
LEMMA RowFacts ==
    ASSUME StoreType, NEW s \in Streams, meta[s] # None
    PROVE  /\ meta[s] \in MetaRow
           /\ meta[s].generation \in 1 .. MaxGeneration
           /\ meta[s].forked_from \in Streams \union {None}
           /\ meta[s].fork_offset \in Nat /\ meta[s].current_offset \in Nat
           /\ log[meta[s].generation] \subseteq Message
           /\ \A m \in log[meta[s].generation] : m.offset \in Nat
           /\ \A m \in messages[s] : m.offset \in Nat
           /\ gens \in Nat
<1>1. meta[s] \in MetaRow
  BY DEF StoreType
<1>2. /\ meta[s].generation \in 1 .. MaxGeneration
      /\ meta[s].forked_from \in Streams \union {None}
      /\ meta[s].fork_offset \in Nat /\ meta[s].current_offset \in Nat
  BY <1>1 DEF MetaRow
<1>3. log[meta[s].generation] \subseteq Message /\ messages[s] \subseteq Message
  BY <1>2 DEF StoreType
<1>4. \A m \in Message : m.offset \in Nat
  BY DEF Message
<1>5. gens \in Nat
  BY LimitsArePositive DEF StoreType
<1> QED
  BY <1>1, <1>2, <1>3, <1>4, <1>5

LEMMA StreamsAreNamed ==
    None \notin Streams /\ None \notin Nat /\ None \notin MetaRow /\ None \notin Request
BY NoneIsNoValue

(* A row that is left alone stays typed. *)
RowType(s) ==
    IF meta[s] = None THEN messages[s] = {}
    ELSE \A m \in messages[s] :
            /\ m.generation = meta[s].generation
            /\ m.offset \in meta[s].fork_offset + 1 .. meta[s].current_offset

(* Where neither the row, nor its messages, nor the histories it is about   *)
(* change, and its source is kept, a history stays what it is.              *)
LEMMA HistoryKept ==
    ASSUME StoreType, StoreInv, NEW t \in Streams, meta'[t] = meta[t],
           messages'[t] = messages[t], gens' >= gens, gens' \in Nat,
           meta[t] # None => log'[meta[t].generation] = log[meta[t].generation],
           meta[t] # None /\ meta[t].forked_from # None => Kept(meta[t].forked_from),
           meta[t] # None => \A u \in Streams :
               meta'[u] # None /\ meta'[u].generation = meta[t].generation => u = t
    PROVE  History(t)' /\ RowType(t)'
<1>1. RowType(t)'
  BY DEF StoreType, RowType
<1>2. SUFFICES ASSUME meta[t] # None PROVE History(t)'
  BY <1>1 DEF History
<1> DEFINE row == meta[t]
           g == row.generation
           F == row.fork_offset
<1>3. History(t)
  BY DEF StoreInv
<1>4. /\ g \in 1 .. MaxGeneration /\ gens \in Nat /\ F \in Nat
      /\ row.current_offset \in Nat /\ \A m \in log[g] : m.offset \in Nat
  BY <1>2, RowFacts
<1>5. log'[g] = log[g] /\ meta'[t] = row
  BY <1>2
<1>6. g <= gens'
  BY <1>2, <1>3, <1>4 DEF History
<1>7. /\ F <= row.current_offset /\ IsFiniteSet(log[g]) /\ Distinct(log[g])
      /\ \A m \in log[g] : m.offset <= row.current_offset
      /\ messages[t] = {m \in log[g] : m.offset > F}
  BY <1>2, <1>3 DEF History, beyond
<1>8. row.forked_from = None => {m \in log[g] : m.offset <= F} = {}
  BY <1>2, <1>3 DEF History, upto
<1>9. ASSUME row.forked_from # None PROVE Source_of(t)'
  <2> DEFINE u == row.forked_from
             h == row.source_generation
  <2>1. Source_of(t)
    BY <1>2, <1>3, <1>9 DEF History
  <2>2. Kept(u)
    BY <1>2, <1>9
  <2>3. u \in Streams
    BY <1>2, <1>9, RowFacts
  <2>4. /\ meta[u] # None /\ meta[u].generation = h /\ F <= meta[u].current_offset
        /\ {m \in log[g] : m.offset <= F} = {m \in log[h] : m.offset <= F}
    BY <2>1 DEF Source_of, upto
  <2>5. meta[u].current_offset \in Nat
    BY <2>3, <2>4, RowFacts
  <2>6. /\ meta'[u] # None /\ meta'[u].generation = h
        /\ meta[u].current_offset <= meta'[u].current_offset
        /\ meta'[u].current_offset \in Nat
        /\ log[h] \subseteq log'[h] /\ log'[h] \subseteq Message
        /\ \A m \in log'[h] : m \notin log[h] => m.offset > meta[u].current_offset
    BY <2>2, <2>4 DEF Kept
  <2>7. \A m \in log'[h] : m.offset \in Nat
    BY <2>6 DEF Message
  <2> HIDE DEF h, F, g, row, u
  <2>8. {m \in log'[h] : m.offset <= F} = {m \in log[h] : m.offset <= F}
    <3>1. \A m \in log'[h] : m.offset <= F => m \in log[h]
      BY <1>4, <2>4, <2>5, <2>6, <2>7
    <3> QED
      BY <2>6, <3>1
  <2>9. F <= meta'[u].current_offset
    BY <1>4, <2>4, <2>5, <2>6
  <2>10. /\ meta'[u] # None /\ meta'[u].generation = h
         /\ {m \in log'[g] : m.offset <= F} = {m \in log'[h] : m.offset <= F}
    BY <1>5, <2>4, <2>6, <2>8
  <2> QED
    BY <1>5, <2>9, <2>10 DEF Source_of, upto, h, F, g, row, u
<1> QED
  BY <1>2, <1>5, <1>6, <1>7, <1>8, <1>9 DEF History, beyond, upto

(* A row that is not touched is kept. *)
LEMMA Untouched ==
    ASSUME StoreType, NEW t \in Streams, meta[t] # None, meta'[t] = meta[t],
           log'[meta[t].generation] = log[meta[t].generation]
    PROVE  Kept(t)
BY RowFacts DEF Kept

LEMMA CreateEffect ==
    ASSUME StoreType, StoreInv, NEW s \in Streams, meta[s] = None,
           NEW from \in Streams \union {None}, NEW offset \in Nat, NEW inherited_log,
           NEW sub_offset \in Nat, NEW prefix \in Seq(Token),
           from = None => inherited_log = {},
           from # None => /\ meta[from] # None /\ offset <= meta[from].current_offset
                          /\ inherited_log = upto(meta[from].generation, offset),
           create(s, from, offset, inherited_log, sub_offset, prefix)
    PROVE  /\ StoreType' /\ StoreInv' /\ StoreStep
           /\ \A t \in Streams : t # s => meta'[t] = meta[t]
           /\ \A h \in 1 .. gens : log'[h] = log[h]
<1> DEFINE g == gens + 1
           end == IF prefix = <<>> THEN offset ELSE advance_offset(offset, prefix)
           own == IF prefix = <<>> THEN {}
                  ELSE {[generation |-> g, offset |-> end, data |-> prefix]}
           row == Row(g, from, offset, sub_offset, end)
<1>1. /\ g <= MaxGeneration /\ gens' = g
      /\ meta' = [meta EXCEPT ![s] = row]
      /\ messages' = [messages EXCEPT ![s] = own]
      /\ log' = [log EXCEPT ![g] = inherited_log \union own]
  BY DEF create
<1>2. gens \in Nat /\ g \in Nat /\ g \in 1 .. MaxGeneration /\ MaxGeneration \in Nat
  BY <1>1, LimitsArePositive DEF StoreType
<1>3. end \in Nat /\ (prefix # <<>> => end \in Nat \ {0} /\ end > offset)
  BY Advances
<1>4. own \subseteq Message
  BY <1>2, <1>3 DEF Message
<1>5. \A m \in own : m.generation = g /\ m.offset = end /\ m.offset > offset
  BY <1>3
<1>6. IsFiniteSet(own) /\ \A m, n \in own : m = n
  BY FS_EmptySet, FS_Singleton
<1> HIDE DEF own
<1>7. from # None => from \in Streams /\ from # s
  OBVIOUS
<1>8. row \in MetaRow /\ row.generation = g /\ row.forked_from = from
      /\ row.fork_offset = offset /\ row.current_offset = end
      /\ row.source_generation = (IF from = None THEN None ELSE meta[from].generation)
  <2>1. from # None => meta[from].generation \in 1 .. MaxGeneration
    BY <1>7, RowFacts
  <2> HIDE DEF g, end
  <2> QED
    BY <1>2, <1>3, <2>1 DEF Row, MetaRow
<1> HIDE DEF row, end, g
<1>9. /\ meta'[s] = row /\ \A t \in Streams : t # s => meta'[t] = meta[t]
      /\ messages'[s] = own /\ \A t \in Streams : t # s => messages'[t] = messages[t]
      /\ log'[g] = inherited_log \union own
      /\ \A h \in 1 .. MaxGeneration : h # g => log'[h] = log[h]
  BY <1>1, <1>2 DEF StoreType
<1>10. row # None
  BY <1>8, StreamsAreNamed
<1>11. /\ inherited_log \subseteq Message /\ IsFiniteSet(inherited_log)
       /\ Distinct(inherited_log) /\ \A m \in inherited_log : m.offset <= offset
  <2>1. CASE from = None
    BY <2>1, FS_EmptySet DEF Distinct
  <2>2. CASE from # None
    <3> DEFINE L == log[meta[from].generation]
    <3>1. History(from) /\ meta[from] # None
      BY <2>2, <1>7 DEF StoreInv
    <3>2. IsFiniteSet(L) /\ Distinct(L)
      BY <3>1 DEF History
    <3>3. L \subseteq Message
      BY <2>2, <1>7, RowFacts
    <3>4. inherited_log = {m \in L : m.offset <= offset}
      BY <2>2 DEF upto
    <3> HIDE DEF L
    <3>5. inherited_log \in SUBSET L
      BY <3>4
    <3> QED
      BY <3>2, <3>3, <3>4, <3>5, FS_Subset DEF Distinct
  <2> QED
    BY <2>1, <2>2
<1>12. StoreType'
  <2>1. gens' \in 0 .. MaxGeneration
    BY <1>1, <1>2
  <2>2. meta' \in [Streams -> MetaRow \union {None}]
    BY <1>1, <1>8 DEF StoreType
  <2>3. messages' \in [Streams -> SUBSET Message]
    BY <1>1, <1>4 DEF StoreType
  <2>4. log' \in [1 .. MaxGeneration -> SUBSET Message]
    BY <1>1, <1>4, <1>11 DEF StoreType
  <2>5. ASSUME NEW t \in Streams PROVE RowType(t)'
    <3>1. CASE t # s
      BY <3>1, <1>9 DEF RowType, StoreType
    <3>2. CASE t = s
      <4>1. \A m \in own : m.generation = g /\ m.offset \in offset + 1 .. end
        BY <1>3, <1>5
      <4> QED
        BY <3>2, <4>1, <1>8, <1>9, <1>10 DEF RowType
    <3> QED
      BY <3>1, <3>2
  <2> QED
    BY <2>1, <2>2, <2>3, <2>4, <2>5 DEF StoreType, RowType
<1>13. \A t \in Streams : meta[t] # None => meta[t].generation \in 1 .. gens /\ t # s
  <2> SUFFICES ASSUME NEW t \in Streams, meta[t] # None
               PROVE  meta[t].generation \in 1 .. gens
    OBVIOUS
  <2>1. meta[t].generation \in 1 .. MaxGeneration /\ History(t)
    BY RowFacts DEF StoreInv
  <2> QED
    BY <1>2, <2>1 DEF History
<1>14. \A h \in 1 .. gens : h \in 1 .. MaxGeneration /\ h # g /\ log'[h] = log[h]
  <2>1. \A h \in 1 .. gens : h \in 1 .. MaxGeneration /\ h # g
    BY <1>1, <1>2 DEF g
  <2> QED
    BY <2>1, <1>9
<1>15. \A t \in Streams : meta[t] # None => Kept(t)
  BY <1>9, <1>13, <1>14, Untouched
<1>16. gens' >= gens /\ gens' \in Nat /\ g > gens /\ gens' = g
  BY <1>1, <1>2 DEF g
<1>17. StoreStep
  BY <1>8, <1>9, <1>10, <1>15, <1>16 DEF StoreStep
<1>18. ASSUME NEW t \in Streams, t # s PROVE History(t)'
  <2>1. meta[t] # None => log'[meta[t].generation] = log[meta[t].generation]
    BY <1>13, <1>14
  <2>2. meta[t] # None /\ meta[t].forked_from # None => Kept(meta[t].forked_from)
    <3> SUFFICES ASSUME meta[t] # None, meta[t].forked_from # None
                 PROVE  Kept(meta[t].forked_from)
      OBVIOUS
    <3>1. meta[t].forked_from \in Streams
      BY RowFacts
    <3>2. meta[meta[t].forked_from] # None
      BY DEF StoreInv, History, Source_of
    <3> QED
      BY <3>1, <3>2, <1>15
  <2>3. ASSUME meta[t] # None, NEW u \in Streams, meta'[u] # None,
               meta'[u].generation = meta[t].generation
        PROVE  u = t
    <3>1. u # s
      BY <2>3, <1>8, <1>9, <1>13, <1>14
    <3> QED
      BY <3>1, <2>3, <1>9 DEF StoreInv, History
  <2> QED
    BY <1>9, <1>16, <1>18, <2>1, <2>2, <2>3, HistoryKept
<1>19. History(s)'
  <2> DEFINE H == inherited_log \union own
  <2>1. \A t \in Streams : meta'[t] # None /\ meta'[t].generation = g => t = s
    BY <1>9, <1>13, <1>14
  <2>2. IsFiniteSet(H)
    BY <1>6, <1>11, FS_Union
  <2>3. \A m \in H : m.offset \in Nat
    BY <1>4, <1>11 DEF Message
  <2>4. Distinct(H)
    <3> SUFFICES ASSUME NEW m \in H, NEW n \in H, m.offset = n.offset PROVE m = n
      BY DEF Distinct
    <3>1. CASE m \in own /\ n \in own
      BY <3>1, <1>6
    <3>2. CASE m \in inherited_log /\ n \in inherited_log
      BY <3>2, <1>11 DEF Distinct
    <3>3. \A x \in inherited_log, y \in own : x.offset # y.offset
      BY <1>5, <1>11, <2>3
    <3> QED
      BY <3>1, <3>2, <3>3
  <2>5. \A m \in H : m.offset <= end
    <3>1. offset <= end
      BY <1>3 DEF end
    <3> QED
      BY <1>3, <1>5, <1>11, <2>3, <3>1
  <2>6. {m \in H : m.offset > offset} = own
    BY <1>5, <1>11, <2>3
  <2>7. {m \in H : m.offset <= offset} = inherited_log
    BY <1>5, <1>11, <2>3
  <2>8. offset <= end
    BY <1>3 DEF end
  <2>9. ASSUME from # None PROVE Source_of(s)'
    <3> DEFINE h == meta[from].generation
    <3>1. h \in 1 .. gens /\ log'[h] = log[h] /\ meta'[from] = meta[from]
      BY <2>9, <1>7, <1>9, <1>13, <1>14
    <3>2. /\ meta[from] # None /\ offset <= meta[from].current_offset
          /\ inherited_log = {m \in log[h] : m.offset <= offset}
      BY <2>9 DEF upto
    <3>3. row.source_generation = h
      BY <2>9, <1>8
    <3> HIDE DEF h
    <3>4. {m \in log'[g] : m.offset <= offset} = {m \in log'[h] : m.offset <= offset}
      BY <1>9, <2>7, <3>1, <3>2
    <3>5. meta'[from].generation = h
      BY <3>1 DEF h
    <3> QED
      BY <1>8, <1>9, <3>1, <3>2, <3>3, <3>4, <3>5 DEF Source_of, upto
  <2>10. log'[g] = H
    BY <1>9
  <2>11. g <= gens'
    BY <1>16
  <2>12. from = None => inherited_log = {}
    OBVIOUS
  <2> HIDE DEF H
  <2> QED
    BY <1>8, <1>9, <2>1, <2>2, <2>4, <2>5, <2>6, <2>7, <2>8, <2>9, <2>10, <2>11, <2>12
    DEF History, beyond, upto
<1> QED
  BY <1>9, <1>12, <1>14, <1>17, <1>18, <1>19 DEF StoreInv

LEMMA AppendEffect ==
    ASSUME StoreType, StoreInv, NEW s \in Streams, append_message(s)
    PROVE  StoreType' /\ StoreInv' /\ StoreStep
<1> DEFINE g == meta[s].generation
           c == meta[s].current_offset
           L == log[g]
<1>1. PICK n \in Sizes :
         LET data == process_json_append([i \in 1 .. n |-> <<g, c, i>>])
             end == advance_offset(c, data)
             m == [generation |-> g, offset |-> end, data |-> data]
         IN  /\ meta' = [meta EXCEPT ![s].current_offset = end]
             /\ messages' = [messages EXCEPT ![s] = @ \union {m}]
             /\ log' = [log EXCEPT ![g] = @ \union {m}]
  BY DEF append_message
<1> DEFINE data == process_json_append([i \in 1 .. n |-> <<g, c, i>>])
           end == advance_offset(c, data)
           m == [generation |-> g, offset |-> end, data |-> data]
           row == [meta[s] EXCEPT !.current_offset = end]
<1>2. meta[s] # None /\ gens' = gens
  BY DEF append_message
<1>3. /\ meta[s] \in MetaRow /\ g \in 1 .. MaxGeneration /\ c \in Nat /\ L \subseteq Message
      /\ \A x \in L : x.offset \in Nat
      /\ meta[s].fork_offset \in Nat /\ meta[s].forked_from \in Streams \union {None}
  BY <1>2, RowFacts
<1>4. History(s)
  BY DEF StoreInv
<1>5. data \in Seq(Token)
  <2>1. n \in Nat
    BY LimitsArePositive
  <2>2. \A i \in 1 .. n : <<g, c, i>> \in Token
    <3>1. g \in Nat
      BY <1>3, LimitsArePositive
    <3> HIDE DEF g, c
    <3> QED BY <1>3, <2>1, <3>1 DEF Token
  <2> HIDE DEF g, c
  <2>3. [i \in 1 .. n |-> <<g, c, i>>] \in Seq(Token)
    BY <2>1, <2>2
  <2> QED
    BY <2>3, AppendedTokens
<1> HIDE DEF data
<1>6. end \in Nat \ {0} /\ end > c
  BY <1>3, <1>5, Advances
<1>7. m \in Message /\ m.generation = g /\ m.offset = end
  BY <1>3, <1>5, <1>6 DEF Message
<1>8. /\ row \in MetaRow /\ row.generation = g /\ row.forked_from = meta[s].forked_from
      /\ row.fork_offset = meta[s].fork_offset /\ row.current_offset = end
      /\ row.source_generation = meta[s].source_generation
  BY <1>3, <1>6 DEF MetaRow
<1>9. /\ meta' = [meta EXCEPT ![s] = row]
      /\ messages' = [messages EXCEPT ![s] = messages[s] \union {m}]
      /\ log' = [log EXCEPT ![g] = L \union {m}]
  BY <1>1 DEF data
<1> HIDE DEF m, row, end
<1>10. /\ meta'[s] = row /\ \A t \in Streams : t # s => meta'[t] = meta[t]
       /\ messages'[s] = messages[s] \union {m}
       /\ \A t \in Streams : t # s => messages'[t] = messages[t]
       /\ log'[g] = L \union {m}
       /\ \A h \in 1 .. MaxGeneration : h # g => log'[h] = log[h]
  BY <1>3, <1>9 DEF StoreType
<1>11. row # None
  BY <1>8, StreamsAreNamed
<1>12. /\ gens \in Nat /\ g <= gens /\ meta[s].fork_offset <= c /\ IsFiniteSet(L)
       /\ Distinct(L) /\ \A x \in L : x.offset <= c
       /\ messages[s] = {x \in L : x.offset > meta[s].fork_offset}
       /\ meta[s].forked_from = None => {x \in L : x.offset <= meta[s].fork_offset} = {}
       /\ \A t \in Streams : meta[t] # None /\ meta[t].generation = g => t = s
  BY <1>2, <1>4, RowFacts DEF History, beyond, upto
<1>13. \A x \in L \union {m} : x.offset \in Nat
  BY <1>3, <1>6, <1>7
<1> DEFINE F == meta[s].fork_offset
<1> HIDE DEF g, c, L
<1>14. StoreType'
  <2>1. meta' \in [Streams -> MetaRow \union {None}]
    BY <1>8, <1>9 DEF StoreType
  <2>2. messages' \in [Streams -> SUBSET Message]
    BY <1>7, <1>9 DEF StoreType
  <2>3. log' \in [1 .. MaxGeneration -> SUBSET Message]
    BY <1>3, <1>7, <1>9 DEF StoreType
  <2>4. ASSUME NEW t \in Streams PROVE RowType(t)'
    <3>1. CASE t # s
      BY <3>1, <1>10 DEF RowType, StoreType
    <3>2. CASE t = s
      <4>1. \A x \in messages[s] : x.generation = g /\ x.offset \in F + 1 .. c
        BY <1>2 DEF StoreType, g, c
      <4>2. \A x \in messages[s] \union {m} : x.generation = g /\ x.offset \in F + 1 .. end
        BY <1>3, <1>6, <1>7, <1>12, <4>1
      <4> QED
        BY <3>2, <4>2, <1>8, <1>10, <1>11 DEF RowType
    <3> QED
      BY <3>1, <3>2
  <2>5. gens' \in 0 .. MaxGeneration
    BY <1>2 DEF StoreType
  <2> QED
    BY <2>1, <2>2, <2>3, <2>4, <2>5 DEF StoreType, RowType
<1>15. \A t \in Streams : t # s /\ meta[t] # None =>
          /\ meta[t].generation \in 1 .. MaxGeneration /\ meta[t].generation # g
          /\ log'[meta[t].generation] = log[meta[t].generation]
  <2> SUFFICES ASSUME NEW t \in Streams, t # s, meta[t] # None
               PROVE  /\ meta[t].generation \in 1 .. MaxGeneration
                      /\ meta[t].generation # g
    BY <1>10
  <2> QED
    BY <1>12, RowFacts
<1>16. Kept(s)
  <2>1. log'[g] \subseteq Message /\ L \subseteq log'[g]
    BY <1>3, <1>7, <1>10
  <2>2. \A x \in log'[g] : x \notin L => x.offset > c
    BY <1>6, <1>7, <1>10
  <2>3. c <= end /\ end \in Nat
    BY <1>3, <1>6
  <2> QED
    BY <1>2, <1>8, <1>10, <1>11, <2>1, <2>2, <2>3 DEF Kept, g, c, L
<1>17. \A t \in Streams : meta[t] # None => Kept(t)
  BY <1>10, <1>15, <1>16, Untouched
<1>18. StoreStep
  BY <1>2, <1>10, <1>12, <1>17 DEF StoreStep
<1>19. ASSUME NEW t \in Streams, t # s PROVE History(t)'
  <2>1. meta[t] # None /\ meta[t].forked_from # None => Kept(meta[t].forked_from)
    <3> SUFFICES ASSUME meta[t] # None, meta[t].forked_from # None
                 PROVE  Kept(meta[t].forked_from)
      OBVIOUS
    <3>1. meta[t].forked_from \in Streams
      BY RowFacts
    <3>2. meta[meta[t].forked_from] # None
      BY DEF StoreInv, History, Source_of
    <3> QED
      BY <3>1, <3>2, <1>17
  <2>2. ASSUME meta[t] # None, NEW u \in Streams, meta'[u] # None,
               meta'[u].generation = meta[t].generation
        PROVE  u = t
    <3>1. u # s
      BY <2>2, <1>8, <1>10, <1>15, <1>19
    <3> QED
      BY <3>1, <2>2, <1>10 DEF StoreInv, History
  <2>3. gens' >= gens /\ gens' \in Nat
    BY <1>2, <1>12
  <2>4. meta'[t] = meta[t] /\ messages'[t] = messages[t]
    BY <1>10, <1>19
  <2>5. meta[t] # None => log'[meta[t].generation] = log[meta[t].generation]
    BY <1>15, <1>19
  <2> QED
    BY <2>1, <2>2, <2>3, <2>4, <2>5, HistoryKept
<1>20. History(s)'
  <2> DEFINE H == L \union {m}
  <2>1. \A t \in Streams : meta'[t] # None /\ meta'[t].generation = g => t = s
    BY <1>10, <1>12
  <2>2. IsFiniteSet(H)
    BY <1>12, FS_AddElement
  <2>3. Distinct(H)
    <3>1. \A x \in L : x.offset # m.offset
      BY <1>3, <1>6, <1>7, <1>12, <1>13
    <3> QED
      BY <3>1, <1>12 DEF Distinct
  <2>4. \A x \in H : x.offset <= end
    BY <1>3, <1>6, <1>7, <1>12, <1>13
  <2>5. {x \in H : x.offset > F} = messages[s] \union {m}
    <3>1. m.offset > F
      BY <1>3, <1>6, <1>7, <1>12
    <3> QED
      BY <1>12, <3>1
  <2>6. {x \in H : x.offset <= F} = {x \in L : x.offset <= F}
    <3>1. ~(m.offset <= F)
      BY <1>3, <1>6, <1>7, <1>12
    <3> QED
      BY <3>1
  <2>7. F <= end
    BY <1>3, <1>6, <1>12
  <2>8. ASSUME row.forked_from # None PROVE Source_of(s)'
    <3> DEFINE u == row.forked_from
               h == row.source_generation
    <3>1. Source_of(s)
      BY <1>2, <1>4, <1>8, <2>8 DEF History
    <3>2. /\ meta[u] # None /\ meta[u].generation = h /\ F <= meta[u].current_offset
          /\ {x \in L : x.offset <= F} = {x \in log[h] : x.offset <= F}
      BY <3>1, <1>8 DEF Source_of, upto, L, g
    <3>3. u \in Streams
      BY <1>3, <1>8, <2>8
    <3>4. Kept(u) /\ meta[u].current_offset \in Nat
      BY <3>2, <3>3, <1>17, RowFacts
    <3>5. /\ meta'[u] # None /\ meta'[u].generation = h
          /\ meta'[u].current_offset \in Nat
          /\ meta[u].current_offset <= meta'[u].current_offset
          /\ log[h] \subseteq log'[h] /\ log'[h] \subseteq Message
          /\ \A x \in log'[h] : x \notin log[h] => x.offset > meta[u].current_offset
      BY <3>2, <3>4 DEF Kept
    <3>6. \A x \in log'[h] : x.offset \in Nat
      BY <3>5 DEF Message
    <3>7. F \in Nat
      BY <1>3
    <3> HIDE DEF u, h, F
    <3>8. {x \in log'[h] : x.offset <= F} = {x \in log[h] : x.offset <= F}
      <4>1. \A x \in log'[h] : x.offset <= F => x \in log[h]
        BY <3>2, <3>4, <3>5, <3>6, <3>7
      <4> QED
        BY <3>5, <4>1
    <3>9. F <= meta'[u].current_offset
      BY <3>2, <3>4, <3>5, <3>7
    <3>10. {x \in log'[g] : x.offset <= F} = {x \in log'[h] : x.offset <= F}
      BY <1>10, <2>6, <3>2, <3>8
    <3>11. row.fork_offset = F
      BY <1>8 DEF F
    <3> QED
      BY <1>8, <1>10, <3>5, <3>9, <3>10, <3>11 DEF Source_of, upto, u, h
  <2>9. g <= gens'
    BY <1>2, <1>12
  <2>10. row.forked_from = None => {x \in H : x.offset <= F} = {}
    BY <1>8, <1>12, <2>6
  <2>11. log'[g] = H
    BY <1>10
  <2>12. row.fork_offset = F
    BY <1>8
  <2> HIDE DEF H, F
  <2> QED
    BY <1>8, <1>10, <2>1, <2>2, <2>3, <2>4, <2>5, <2>7, <2>8, <2>9, <2>10, <2>11, <2>12
    DEF History, beyond, upto
<1> QED
  BY <1>14, <1>18, <1>19, <1>20 DEF StoreInv

LEMMA SoftDeleteEffect ==
    ASSUME StoreType, StoreInv, NEW s \in Streams, meta[s] # None,
           meta' = [meta EXCEPT ![s].soft_deleted = TRUE],
           UNCHANGED <<messages, log, gens>>
    PROVE  StoreType' /\ StoreInv' /\ StoreStep
<1> DEFINE row == [meta[s] EXCEPT !.soft_deleted = TRUE]
<1>1. meta[s] \in MetaRow /\ gens \in Nat
  BY RowFacts
<1>2. /\ row \in MetaRow /\ row.generation = meta[s].generation
      /\ row.forked_from = meta[s].forked_from /\ row.fork_offset = meta[s].fork_offset
      /\ row.current_offset = meta[s].current_offset
      /\ row.source_generation = meta[s].source_generation
  BY <1>1 DEF MetaRow
<1>3. meta' = [meta EXCEPT ![s] = row]
  OBVIOUS
<1> HIDE DEF row
<1>4. row # None
  BY <1>2, StreamsAreNamed
<1>5. /\ meta'[s] = row /\ \A t \in Streams : t # s => meta'[t] = meta[t]
      /\ meta' \in [Streams -> MetaRow \union {None}]
  BY <1>2, <1>3 DEF StoreType
<1>6. \A t \in Streams :
         /\ meta'[t] = None <=> meta[t] = None
         /\ meta[t] # None =>
               /\ meta'[t].generation = meta[t].generation
               /\ meta'[t].forked_from = meta[t].forked_from
               /\ meta'[t].fork_offset = meta[t].fork_offset
               /\ meta'[t].current_offset = meta[t].current_offset
               /\ meta'[t].source_generation = meta[t].source_generation
  BY <1>2, <1>4, <1>5
<1>7. StoreType'
  BY <1>5, <1>6 DEF StoreType
<1>8. \A t \in Streams : meta[t] # None => Kept(t)
  BY <1>6, RowFacts DEF Kept
<1>9. StoreStep
  BY <1>1, <1>6, <1>8 DEF StoreStep
<1>10. ASSUME NEW t \in Streams PROVE History(t)'
  <2>1. CASE meta[t] = None
    BY <2>1, <1>6 DEF History
  <2>2. CASE meta[t] # None
    <3>1. History(t) /\ meta[t].forked_from \in Streams \union {None}
      BY <2>2, RowFacts DEF StoreInv
    <3>2. ASSUME meta[t].forked_from # None PROVE Source_of(t)'
      <4>1. Source_of(t) /\ meta[t].forked_from \in Streams
        BY <2>2, <3>1, <3>2 DEF History
      <4> DEFINE u == meta[t].forked_from
      <4>2. /\ meta'[t].forked_from = u /\ meta'[u] # None
            /\ meta'[u].generation = meta[u].generation
            /\ meta'[u].current_offset = meta[u].current_offset
        BY <4>1, <2>2, <1>6 DEF Source_of
      <4> HIDE DEF u
      <4>3. /\ meta'[t].fork_offset = meta[t].fork_offset
            /\ meta'[t].generation = meta[t].generation
            /\ meta'[t].source_generation = meta[t].source_generation
        BY <2>2, <1>6
      <4> QED
        BY <4>1, <4>2, <4>3 DEF Source_of, upto, u
    <3>3. /\ meta'[t] # None /\ meta'[t].generation = meta[t].generation
          /\ meta'[t].forked_from = meta[t].forked_from
          /\ meta'[t].fork_offset = meta[t].fork_offset
          /\ meta'[t].current_offset = meta[t].current_offset
      BY <2>2, <1>6
    <3>4. \A v \in Streams :
             meta'[v] # None /\ meta'[v].generation = meta[t].generation => v = t
      BY <2>2, <3>1, <1>6 DEF History
    <3> QED
      BY <2>2, <3>1, <3>2, <3>3, <3>4 DEF History, beyond, upto
  <2> QED
    BY <2>1, <2>2
<1> QED
  BY <1>7, <1>9, <1>10 DEF StoreInv

(* Only a stream that nobody has pinned is purged. *)
LEMMA PurgeEffect ==
    ASSUME StoreType, StoreInv, NEW s \in Streams, meta[s] # None, ~pinned(s), purge(s),
           UNCHANGED gens
    PROVE  StoreType' /\ StoreInv' /\ StoreStep
<1> DEFINE g == meta[s].generation
<1>1. g \in 1 .. MaxGeneration /\ gens \in Nat
  BY RowFacts
<1>2. /\ meta' = [meta EXCEPT ![s] = None] /\ messages' = [messages EXCEPT ![s] = {}]
      /\ log' = [log EXCEPT ![g] = {}]
  BY DEF purge
<1>3. History(s)
  BY DEF StoreInv
<1> HIDE DEF g
<1>4. /\ meta'[s] = None /\ \A t \in Streams : t # s => meta'[t] = meta[t]
      /\ messages'[s] = {} /\ \A t \in Streams : t # s => messages'[t] = messages[t]
      /\ \A h \in 1 .. MaxGeneration : h # g => log'[h] = log[h]
      /\ meta' \in [Streams -> MetaRow \union {None}]
      /\ messages' \in [Streams -> SUBSET Message]
      /\ log' \in [1 .. MaxGeneration -> SUBSET Message]
  BY <1>1, <1>2 DEF StoreType
<1>5. \A t \in Streams : t # s /\ meta[t] # None =>
         /\ meta[t].generation \in 1 .. MaxGeneration /\ meta[t].generation # g
         /\ log'[meta[t].generation] = log[meta[t].generation]
  <2> SUFFICES ASSUME NEW t \in Streams, t # s, meta[t] # None
               PROVE  /\ meta[t].generation \in 1 .. MaxGeneration
                      /\ meta[t].generation # g
    BY <1>4
  <2> QED
    BY <1>3, RowFacts DEF History, g
<1>6. StoreType'
  <2>1. ASSUME NEW t \in Streams PROVE RowType(t)'
    BY <1>4 DEF RowType, StoreType
  <2>2. gens' \in 0 .. MaxGeneration
    BY DEF StoreType
  <2> QED
    BY <1>4, <2>1, <2>2 DEF StoreType, RowType
<1>7. \A t \in Streams : t # s /\ meta[t] # None => Kept(t)
  BY <1>4, <1>5, Untouched
<1>8. StoreStep
  <2>1. gens' >= gens
    BY <1>1
  <2> QED
    BY <1>4, <1>7, <2>1 DEF StoreStep
<1>9. ASSUME NEW t \in Streams PROVE History(t)'
  <2>1. CASE t = s
    BY <2>1, <1>4 DEF History
  <2>2. CASE t # s
    <3>1. meta[t] # None /\ meta[t].forked_from # None => Kept(meta[t].forked_from)
      <4> SUFFICES ASSUME meta[t] # None, meta[t].forked_from # None
                   PROVE  Kept(meta[t].forked_from)
        OBVIOUS
      <4>1. meta[t].forked_from \in Streams
        BY RowFacts
      <4>2. meta[meta[t].forked_from] # None
        BY DEF StoreInv, History, Source_of
      <4>3. meta[t].forked_from # s
        BY DEF pinned
      <4> QED
        BY <4>1, <4>2, <4>3, <1>7
    <3>2. ASSUME meta[t] # None, NEW u \in Streams, meta'[u] # None,
                 meta'[u].generation = meta[t].generation
          PROVE  u = t
      BY <3>2, <1>4 DEF StoreInv, History
    <3>3. meta'[t] = meta[t] /\ messages'[t] = messages[t] /\ gens' >= gens /\ gens' \in Nat
      BY <2>2, <1>1, <1>4
    <3>4. meta[t] # None => log'[meta[t].generation] = log[meta[t].generation]
      BY <2>2, <1>5
    <3> QED
      BY <3>1, <3>2, <3>3, <3>4, HistoryKept
  <2> QED
    BY <2>1, <2>2
<1> QED
  BY <1>6, <1>8, <1>9 DEF StoreInv

-----------------------------------------------------------------------------
(* A read goes on undisturbed while what it reads is kept. *)

LEMMA AskFacts ==
    ASSUME NEW a \in Ask
    PROVE  /\ a.stream \in Streams /\ a.generation \in 1 .. MaxGeneration /\ a.after \in Int
           /\ a.cap \in Nat \union {None} /\ a.limit \in 1 .. MAX_READ_ROWS
           /\ a.budget \in 0 .. MAX_READ_BYTES
           /\ a.limit \in Nat /\ a.budget \in Nat
BY LimitsArePositive DEF Ask

LEMMA WithinFacts ==
    ASSUME StoreType, StoreInv, NEW a, Held(a)
    PROVE  /\ Within(a) \subseteq Message /\ IsFiniteSet(Within(a)) /\ Distinct(Within(a))
           /\ meta[a.stream].current_offset \in Nat
           /\ meta[a.stream].fork_offset \in Nat
           /\ meta[a.stream].fork_offset <= meta[a.stream].current_offset
           /\ \A m \in Within(a) :
                 m.offset \in Nat /\ m.offset <= meta[a.stream].current_offset
<1> DEFINE s == a.stream
           L == log[a.generation]
<1>1. a \in Ask /\ s \in Streams /\ meta[s] # None /\ meta[s].generation = a.generation
  BY AskFacts DEF Held
<1>2. History(s)
  BY <1>1 DEF StoreInv
<1>3. IsFiniteSet(L) /\ Distinct(L) /\ L \subseteq Message
  BY <1>1, <1>2, RowFacts DEF History
<1>4. /\ meta[s].fork_offset <= meta[s].current_offset
      /\ \A m \in L : m.offset <= meta[s].current_offset
  BY <1>1, <1>2 DEF History
<1> HIDE DEF L
<1>5. Within(a) \in SUBSET L
  BY DEF Within, L
<1>6. IsFiniteSet(Within(a)) /\ Distinct(Within(a))
  BY <1>3, <1>5, FS_Subset DEF Distinct
<1>7. \A m \in Within(a) : m.offset \in Nat
  BY <1>3, <1>5 DEF Message
<1>8. meta[s].current_offset \in Nat /\ meta[s].fork_offset \in Nat
  BY <1>1, RowFacts
<1> QED
  BY <1>3, <1>4, <1>5, <1>6, <1>7, <1>8

LEMMA WithinGrows ==
    ASSUME StoreType, StoreInv, NEW a, Held(a), Kept(a.stream)
    PROVE  /\ Within(a) \subseteq Within(a)' /\ Within(a)' \subseteq Message
           /\ \A m \in Within(a)' : m \notin Within(a) =>
                 a.cap = None /\ m.offset \in Nat /\ m.offset > meta[a.stream].current_offset
<1> DEFINE g == a.generation
           c == meta[a.stream].current_offset
<1>1. a \in Ask /\ meta[a.stream] # None /\ meta[a.stream].generation = g
  BY DEF Held
<1>2. /\ log[g] \subseteq log'[g] /\ log'[g] \subseteq Message
      /\ \A m \in log'[g] : m \notin log[g] => m.offset > c
  BY <1>1 DEF Kept
<1>3. Within(a) = {m \in log[g] : in_range(m, a.after, a.cap)}
  BY DEF Within
<1>4. Within(a)' = {m \in log'[g] : in_range(m, a.after, a.cap)}
  BY DEF Within, in_range
<1>5. Within(a) \subseteq Within(a)' /\ Within(a)' \subseteq Message
  BY <1>2, <1>3, <1>4
<1>6. ASSUME NEW m \in Within(a)', m \notin Within(a)
      PROVE  a.cap = None /\ m.offset \in Nat /\ m.offset > c
  <2>1. m \in log'[g] /\ m \notin log[g]
    BY <1>3, <1>4, <1>6
  <2>2. m.offset > c
    BY <1>2, <2>1
  <2>3. m.offset \in Nat
    BY <1>2, <2>1 DEF Message
  <2>4. c \in Nat
    BY WithinFacts
  <2>5. a.cap # None => a.cap <= c /\ a.cap \in Nat /\ m.offset <= a.cap
    <3>1. in_range(m, a.after, a.cap)
      BY <1>4, <1>6
    <3> QED
      BY <3>1, <1>1, AskFacts DEF Held, in_range
  <2> HIDE DEF c
  <2> QED
    BY <2>2, <2>3, <2>4, <2>5
<1> QED
  BY <1>5, <1>6

LEMMA FrameFacts ==
    ASSUME NEW f \in Frame
    PROVE  /\ f.stream \in Streams /\ f.after \in Int /\ f.cap \in Nat \union {None}
           /\ f.meta.generation \in 1 .. MaxGeneration
           /\ f.meta.forked_from \in Streams \union {None} /\ f.meta.fork_offset \in Nat
           /\ f.limit \in 1 .. MAX_READ_ROWS /\ f.limit \in Nat
           /\ f.budget \in Nat /\ f.remaining \in Nat
           /\ f.budget \in 0 .. MAX_READ_BYTES /\ f.remaining \in 0 .. MAX_READ_BYTES
           /\ f.messages \in Seq(Message) /\ f.last \in Nat \union {None}
           /\ f.capped \in BOOLEAN
           /\ f.pc \in {"inherit", "inherited", "lengths", "rows"}
BY LimitsArePositive DEF Frame

LEMMA TailIsNumber ==
    ASSUME ReadType, request # None
    PROVE  /\ request \in Request /\ request.tail \in Nat /\ request.stream \in Streams
           /\ request.generation \in 1 .. MaxGeneration /\ request.generation \in Nat
           /\ request.limit \in 1 .. MAX_READ_ROWS /\ request.after \in Int
<1>1. request \in Request
  BY DEF ReadType
<1> QED
  BY <1>1, LimitsArePositive DEF Request

LEMMA HeldKept ==
    ASSUME StoreType, StoreInv, ReadType, request # None, request' = request,
           NEW a, Held(a), Kept(a.stream)
    PROVE  Held(a)'
<1> DEFINE c == meta[a.stream].current_offset
           d == meta'[a.stream].current_offset
           T == request.tail
<1>1. c \in Nat /\ d \in Nat /\ c <= d /\ T \in Nat /\ request'.tail = T
  BY WithinFacts, TailIsNumber DEF Kept
<1>2. /\ a \in Ask /\ meta'[a.stream] # None /\ meta'[a.stream].generation = a.generation
      /\ meta'[a.stream].fork_offset = meta[a.stream].fork_offset
  BY DEF Held, Kept
<1>3. /\ a.cap # None => a.cap <= c /\ a.cap <= T
      /\ a.cap = None => meta[a.stream].fork_offset <= T /\ T <= c
  BY DEF Held
<1>4. a.cap \in Nat \union {None}
  BY <1>2, AskFacts
<1> HIDE DEF c, d, T
<1>5. /\ a.cap # None => a.cap <= d /\ a.cap <= T
      /\ a.cap = None => meta[a.stream].fork_offset <= T /\ T <= d
  BY <1>1, <1>3, <1>4
<1> QED
  BY <1>1, <1>2, <1>5 DEF Held, d

LEMMA GoodKept ==
    ASSUME StoreType, StoreInv, ReadType, request # None, request' = request,
           NEW a, Held(a), Kept(a.stream), NEW batch, Good(a, batch)
    PROVE  Good(a, batch)'
<1> DEFINE c == meta[a.stream].current_offset
           T == request.tail
           W == Within(a)
           V == Within(a)'
<1>1. c \in Nat /\ T \in Nat /\ \A m \in W : m.offset \in Nat /\ m.offset <= c
  BY WithinFacts, TailIsNumber
<1>2. /\ W \subseteq V /\ V \subseteq Message
      /\ \A m \in V : m \notin W => a.cap = None /\ m.offset > c
  BY WithinGrows
<1>3. GoodFor(W, T, a.limit, a.budget, batch)
  BY DEF Good
<1>4. a.cap = None => T <= c
  BY DEF Held
<1>5. GoodFor(V, T, a.limit, a.budget, batch)
  <2> HIDE DEF c, T, W, V
  <2>1. CASE a.cap = None
    BY <1>1, <1>2, <1>3, <1>4, <2>1, GoodGrows
  <2>2. CASE a.cap # None
    <3>1. V = W
      BY <1>2, <2>2
    <3> QED
      BY <1>3, <3>1
  <2> QED
    BY <2>1, <2>2
<1> QED
  BY <1>5 DEF Good, GoodFor

LEMMA FrameKept ==
    ASSUME StoreType, StoreInv, ReadType, request # None, request' = request,
           NEW a, NEW f \in Frame, FrameInv(f, a), Kept(a.stream)
    PROVE  FrameInv(f, a)'
<1> DEFINE c == meta[a.stream].current_offset
           T == request.tail
           W == Within(a)
           V == Within(a)'
           F == f.meta.fork_offset
<1>1. Held(a) /\ Serves(f, a) /\ Held(a)'
  BY HeldKept DEF FrameInv
<1>2. c \in Nat /\ T \in Nat /\ \A m \in W : m.offset \in Nat /\ m.offset <= c
  BY <1>1, WithinFacts, TailIsNumber
<1>3. F \in Nat /\ F <= c /\ F = meta[a.stream].fork_offset
  BY <1>1, WithinFacts DEF Serves
<1>4. /\ W \subseteq V
      /\ \A m \in V : m \notin W => a.cap = None /\ m.offset \in Nat /\ m.offset > c
  BY <1>1, WithinGrows
<1>5. Serves(f, a)'
  BY <1>1 DEF Serves, Kept
<1>6. Inherited(f, a)' = Inherited(f, a)
  <2>1. Inherited(f, a) = {m \in W : m.offset <= F} /\ Inherited(f, a)' = {m \in V : m.offset <= F}
    BY DEF Inherited
  <2> HIDE DEF c, W, V, F
  <2>2. \A m \in V : m.offset <= F => m \in W
    BY <1>2, <1>3, <1>4
  <2> QED
    BY <2>1, <2>2, <1>4
<1>7. Begun(f, a) => Begun(f, a)'
  BY <1>6 DEF Begun
<1>8. ASSUME Chosen(f, a) PROVE Chosen(f, a)'
  <2>1. Own(f, a) = {m \in W : m.offset > F} /\ Own(f, a)' = {m \in V : m.offset > F}
    BY DEF Own
  <2>2. f.last \in Nat /\ f.last <= c
    BY <1>8 DEF Chosen
  <2>3. Taken(f, a)' = Taken(f, a)
    <3>1. /\ Taken(f, a) = {m \in Own(f, a) : m.offset <= f.last}
          /\ Taken(f, a)' = {m \in Own(f, a)' : m.offset <= f.last}
      BY DEF Taken
    <3> HIDE DEF c, W, V, F
    <3>2. \A m \in V : m.offset <= f.last => m \in W
      BY <1>2, <1>4, <2>2
    <3> QED
      BY <2>1, <3>1, <3>2, <1>4
  <2>4. ASSUME ~f.capped, NEW m \in Own(f, a)', m.offset <= T PROVE m.offset <= f.last
    <3>1. m \in W
      <4>1. a.cap = None => T <= c
        BY <1>1 DEF Held
      <4>2. m \in V
        BY <2>1, <2>4
      <4> HIDE DEF c, W, V, F, T
      <4> QED
        BY <1>2, <1>4, <2>4, <4>1, <4>2
    <3>2. m \in Own(f, a)
      BY <2>1, <2>4, <3>1
    <3> QED
      BY <1>8, <2>4, <3>2 DEF Chosen
  <2>5. f.last <= meta'[a.stream].current_offset
    <3>1. meta'[a.stream].current_offset \in Nat /\ c <= meta'[a.stream].current_offset
      BY DEF Kept
    <3> HIDE DEF c
    <3> QED
      BY <1>2, <2>2, <3>1
  <2>6. request'.tail = T
    OBVIOUS
  <2> HIDE DEF T
  <2> QED
    BY <1>8, <2>2, <2>3, <2>4, <2>5, <2>6 DEF Chosen
<1> QED
  BY <1>1, <1>5, <1>7, <1>8 DEF FrameInv, Beginning

(* The frames of a read pin what they read: each source by the row of the   *)
(* level above it.                                                          *)
LEMMA LevelsKept ==
    ASSUME StoreStep, Nested, Kept(request.stream),
           \A j \in 1 .. Len(stack) : FrameInv(stack[j], asked(j - 1)),
           NEW i \in 0 .. Len(stack), Held(asked(i))
    PROVE  Kept(asked(i).stream)
<1>1. CASE i = 0
  BY <1>1 DEF asked, first_ask
<1>2. CASE i # 0
  <2>1. PICK f, a : f = stack[i] /\ a = asked(i - 1)
    OBVIOUS
  <2>2. i \in 1 .. Len(stack)
    BY <1>2
  <2>3. Held(a) /\ Serves(f, a)
    BY <2>1, <2>2 DEF FrameInv
  <2>4. asked(i) = next_ask(f)
    BY <1>2, <2>1 DEF asked
  <2>5. asked(i).stream = f.meta.forked_from
    BY <2>4 DEF next_ask
  <2>6. a.stream \in Streams /\ meta[a.stream] # None
    BY <2>3, AskFacts DEF Held
  <2>7. meta[a.stream].forked_from = asked(i).stream
    BY <2>3, <2>5 DEF Serves
  <2>8. asked(i) \in Ask /\ meta[asked(i).stream] # None
    BY DEF Held
  <2>9. asked(i).stream \in Streams
    BY <2>8, AskFacts
  <2>10. pinned(asked(i).stream)
    BY <2>6, <2>7 DEF pinned
  <2> QED
    BY <2>8, <2>9, <2>10 DEF StoreStep
<1> QED
  BY <1>1, <1>2

LEMMA Undisturbed ==
    ASSUME IInv, StoreType', StoreInv', StoreStep, UNCHANGED <<request, stack, reply>>,
           answer' = None, changes' \in 0 .. MaxChanges,
           \A s \in Streams : creating(s) => meta'[s] = None
    PROVE  IInv'
<1>1. StoreType /\ StoreInv /\ ReadType /\ RequestInv /\ Nested /\ Reading
  BY TypeParts DEF IInv
<1>2. TypeOK'
  <2>1. ReadType'
    BY <1>1 DEF ReadType
  <2> QED
    BY <2>1 DEF TypeOK, StoreType, ReadType
<1>3. RequestInv'
  <2> SUFFICES ASSUME request # None PROVE RequestInv'
    BY DEF RequestInv
  <2>1. request.generation \in Nat /\ gens \in Nat /\ gens' \in Nat /\ gens' >= gens
    BY <1>1, TailIsNumber, LimitsArePositive DEF StoreType, StoreStep
  <2>2. request'.generation <= gens'
    BY <1>1, <2>1 DEF RequestInv
  <2>3. ASSUME request.kind = "fork"
        PROVE  /\ Fresh' /\ request.child \in Streams /\ meta'[request.child] = None
               /\ request.after \in Nat
               /\ request.after <= meta'[request.stream].current_offset
    <3> DEFINE s == request.stream
    <3>1. /\ Fresh /\ request.child \in Streams /\ request.after \in Nat
          /\ request.after <= meta[s].current_offset
      BY <1>1, <2>3 DEF RequestInv
    <3>2. s \in Streams /\ pinned(s) /\ meta[s] # None
      BY <1>1, <2>3, <3>1, TailIsNumber DEF pinned, Fresh
    <3>3. Kept(s)
      BY <3>2 DEF StoreStep
    <3>4. meta[s].current_offset \in Nat
      BY <1>1, <3>2, RowFacts
    <3>5. Fresh'
      BY <3>1, <3>3 DEF Fresh, Kept
    <3>6. meta[s].current_offset <= meta'[s].current_offset /\ meta'[s].current_offset \in Nat
      BY <3>3 DEF Kept
    <3>7. meta'[request.child] = None
      BY <2>3, <3>1 DEF creating
    <3> HIDE DEF s
    <3>8. request.after <= meta'[s].current_offset
      BY <3>1, <3>4, <3>6
    <3> QED
      BY <3>1, <3>5, <3>7, <3>8 DEF s
  <2> QED
    BY <2>2, <2>3 DEF RequestInv
<1>4. Nested'
  BY <1>1 DEF Nested
<1>5. Reading'
  <2> SUFFICES ASSUME request # None, Fresh' PROVE Reading'
    BY DEF Reading
  <2>1. Kept(request.stream) /\ Fresh
    <3> DEFINE s == request.stream
    <3>1. /\ s \in Streams /\ request.generation \in Nat /\ request.generation <= gens
          /\ gens \in Nat
      BY <1>1, TailIsNumber, LimitsArePositive DEF RequestInv, StoreType
    <3>2. meta'[s] # None /\ meta'[s].generation = request.generation
      BY DEF Fresh
    <3>3. ~(meta'[s].generation > gens)
      BY <3>1, <3>2
    <3>4. Kept(s)
      BY <3>1, <3>2, <3>3 DEF StoreStep
    <3> QED
      BY <3>2, <3>4 DEF Kept, Fresh
  <2>2. \A j \in 1 .. Len(stack) : FrameInv(stack[j], asked(j - 1))
    BY <1>1, <2>1 DEF Reading
  <2>3. Len(stack) \in Nat /\ \A j \in 1 .. Len(stack) : stack[j] \in Frame
    BY <1>1, LenProperties DEF ReadType
  <2>4. \A i \in 0 .. Len(stack) : Held(asked(i)) => Kept(asked(i).stream)
    BY <1>1, <2>1, <2>2, LevelsKept
  <2>5. \A i \in 0 .. Len(stack) : asked(i)' = asked(i)
    <3> TAKE i \in 0 .. Len(stack)
    <3>1. CASE i = 0
      BY <3>1 DEF asked, first_ask
    <3>2. CASE i # 0
      <4>1. i \in 1 .. Len(stack) /\ i - 1 \in 0 .. Len(stack)
        BY <2>3, <3>2
      <4>2. FrameInv(stack[i], asked(i - 1))
        BY <2>2, <4>1
      <4>3. Kept(asked(i - 1).stream) /\ stack[i].stream = asked(i - 1).stream
        BY <2>4, <4>1, <4>2 DEF FrameInv, Serves
      <4>4. meta'[stack[i].stream].source_generation = meta[stack[i].stream].source_generation
        BY <4>3 DEF Kept
      <4> QED
        BY <3>2, <4>4 DEF asked, next_ask, inherited_cap
    <3> QED
      BY <3>1, <3>2
  <2>6. ASSUME NEW i \in 1 .. Len(stack) PROVE FrameInv(stack[i], asked(i - 1))'
    <3>1. PICK f, a : f = stack[i] /\ a = asked(i - 1)
      OBVIOUS
    <3>2. i - 1 \in 0 .. Len(stack)
      BY <2>3
    <3>3. FrameInv(f, a) /\ f \in Frame
      BY <2>2, <2>3, <3>1
    <3>4. Kept(a.stream)
      BY <2>4, <3>1, <3>2, <3>3 DEF FrameInv
    <3>5. FrameInv(f, a)'
      BY <1>1, <3>3, <3>4, FrameKept
    <3>6. stack'[i] = f /\ asked(i - 1)' = a
      BY <2>5, <3>1, <3>2
    <3> QED
      BY <3>5, <3>6
  <2>7. ASSUME reply # None, stack = <<>> \/ at("inherited")
        PROVE  Held(asked(Len(stack)))' /\ Good(asked(Len(stack)), reply)'
    <3>1. PICK a, b : a = asked(Len(stack)) /\ b = reply
      OBVIOUS
    <3>2. Held(a) /\ Good(a, b)
      BY <1>1, <2>1, <2>7, <3>1 DEF Reading
    <3>3. Len(stack) \in 0 .. Len(stack)
      BY <2>3
    <3>4. Kept(a.stream)
      BY <2>4, <3>1, <3>2, <3>3
    <3>5. Held(a)' /\ Good(a, b)'
      BY <1>1, <3>2, <3>4, HeldKept, GoodKept
    <3>6. asked(Len(stack))' = a /\ reply' = b
      BY <2>5, <3>1, <3>3
    <3> QED
      BY <3>5, <3>6
  <2>8. at("inherited")' => at("inherited")
    BY DEF at, top
  <2> QED
    BY <2>3, <2>6, <2>7, <2>8 DEF Reading
<1>6. Answered'
  BY DEF Answered
<1> QED
  BY <1>2, <1>3, <1>4, <1>5, <1>6 DEF IInv

-----------------------------------------------------------------------------
(* The steps of the streams *)

LEMMA NotDisturbed ==
    ASSUME TypeOK, undisturbed
    PROVE  /\ UNCHANGED <<request, stack, reply>> /\ answer' = None
           /\ changes' \in 0 .. MaxChanges
<1>1. changes \in Nat /\ MaxChanges \in Nat /\ changes < MaxChanges
  BY LimitsArePositive DEF TypeOK, undisturbed
<1>2. changes' = 0 \/ changes' = changes + 1
  BY DEF undisturbed
<1>3. changes' \in 0 .. MaxChanges
  BY <1>1, <1>2
<1> QED
  BY <1>3 DEF undisturbed

LEMMA Created ==
    ASSUME IInv, NEW s \in Streams, ~creating(s), undisturbed,
           StoreType', StoreInv', StoreStep, \A t \in Streams : t # s => meta'[t] = meta[t]
    PROVE  IInv'
<1>1. /\ UNCHANGED <<request, stack, reply>> /\ answer' = None
      /\ changes' \in 0 .. MaxChanges
  BY NotDisturbed DEF IInv
<1>2. \A t \in Streams : creating(t) => meta'[t] = None
  BY DEF IInv, RequestInv, creating
<1> QED
  BY <1>1, <1>2, Undisturbed

LEMMA HandlePutStep ==
    ASSUME IInv, NEW s \in Streams, handle_put(s)
    PROVE  IInv'
<1>1. PICK zero, nothing, empty : zero = 0 /\ nothing = {} /\ empty = <<>>
  OBVIOUS
<1>2. /\ meta[s] = None /\ ~creating(s) /\ undisturbed
      /\ create(s, None, zero, nothing, zero, empty)
  BY <1>1 DEF handle_put, ZERO_OFFSET
<1>3. StoreType /\ StoreInv
  BY TypeParts DEF IInv
<1>4. zero \in Nat /\ empty \in Seq(Token)
  BY <1>1
<1>5. /\ StoreType' /\ StoreInv' /\ StoreStep
      /\ \A t \in Streams : t # s => meta'[t] = meta[t]
  BY <1>1, <1>2, <1>3, <1>4, CreateEffect
<1> QED
  BY <1>2, <1>5, Created

LEMMA OffsetFacts ==
    ASSUME StoreType, StoreInv, NEW s \in Streams, meta[s] # None, NEW offset \in offsets(s)
    PROVE  offset \in Nat /\ offset <= meta[s].current_offset
<1> DEFINE L == log[meta[s].generation]
           c == meta[s].current_offset
<1>1. History(s)
  BY DEF StoreInv
<1>2. c \in Nat /\ L \subseteq Message
  BY RowFacts
<1>3. \A m \in L : m.offset \in Nat \ {0} /\ m.offset <= c
  BY <1>1, <1>2 DEF History, Message
<1>4. offset = 0 \/ \E m \in L, d \in {0, 1} : offset = m.offset - d
  BY DEF offsets, ZERO_OFFSET
<1> HIDE DEF L, c
<1>5. offset \in Nat /\ offset <= c
  BY <1>2, <1>3, <1>4
<1> QED
  BY <1>5 DEF c

LEMMA CreateForkStep ==
    ASSUME IInv, NEW s \in Streams, create_fork(s)
    PROVE  IInv'
<1> DEFINE from == Source[s]
<1>1. PICK zero, empty : zero = 0 /\ empty = <<>>
  OBVIOUS
<1>2. /\ meta[s] = None /\ ~creating(s) /\ undisturbed
      /\ from # None /\ meta[from] # None
  BY DEF create_fork
<1>3. PICK offset \in offsets(from) :
         create(s, from, offset, upto(meta[from].generation, offset), zero, empty)
  BY <1>1 DEF create_fork
<1>4. StoreType /\ StoreInv
  BY TypeParts DEF IInv
<1>5. zero \in Nat /\ empty \in Seq(Token) /\ from \in Streams
  BY <1>1, <1>2, LimitsArePositive
<1> HIDE DEF from
<1>6. offset \in Nat /\ offset <= meta[from].current_offset
  BY <1>2, <1>4, <1>5, OffsetFacts
<1>7. PICK given : given = upto(meta[from].generation, offset)
  OBVIOUS
<1>8. create(s, from, offset, given, zero, empty)
  BY <1>3, <1>7
<1>9. /\ StoreType' /\ StoreInv' /\ StoreStep
      /\ \A t \in Streams : t # s => meta'[t] = meta[t]
  BY <1>2, <1>4, <1>5, <1>6, <1>7, <1>8, CreateEffect
<1> QED
  BY <1>2, <1>9, Created

LEMMA AppendMessageStep ==
    ASSUME IInv, NEW s \in Streams, append_message(s)
    PROVE  IInv'
<1>1. StoreType /\ StoreInv /\ TypeOK
  BY TypeParts DEF IInv
<1>2. StoreType' /\ StoreInv' /\ StoreStep
  BY <1>1, AppendEffect
<1>3. undisturbed /\ meta[s] # None
  BY DEF append_message
<1>4. meta' \in [Streams -> MetaRow \union {None}] /\ \A t \in Streams : t # s => meta'[t] = meta[t]
  <2>1. \A t \in Streams : t # s => meta'[t] = meta[t]
    BY <1>1 DEF append_message, StoreType
  <2> QED
    BY <1>2, <2>1 DEF StoreType
<1>5. ~creating(s)
  BY <1>3 DEF IInv, RequestInv, creating
<1> QED
  BY <1>2, <1>3, <1>4, <1>5, Created

LEMMA HandleDeleteStep ==
    ASSUME IInv, NEW s \in Streams, handle_delete(s)
    PROVE  IInv'
<1>1. StoreType /\ StoreInv
  BY TypeParts DEF IInv
<1>2. undisturbed /\ meta[s] # None /\ UNCHANGED gens
  BY DEF handle_delete
<1>3. /\ StoreType' /\ StoreInv' /\ StoreStep
      /\ \A t \in Streams : t # s => meta'[t] = meta[t]
  <2>1. CASE pinned(s)
    <3>1. meta' = [meta EXCEPT ![s].soft_deleted = TRUE] /\ UNCHANGED <<messages, log, gens>>
      BY <2>1 DEF handle_delete
    <3>2. \A t \in Streams : t # s => meta'[t] = meta[t]
      BY <1>1, <3>1 DEF StoreType
    <3> QED
      BY <1>1, <1>2, <3>1, <3>2, SoftDeleteEffect
  <2>2. CASE ~pinned(s)
    <3>1. purge(s)
      BY <2>2 DEF handle_delete
    <3>2. \A t \in Streams : t # s => meta'[t] = meta[t]
      BY <1>1, <3>1 DEF StoreType, purge
    <3> QED
      BY <1>1, <1>2, <2>2, <3>1, <3>2, PurgeEffect
  <2> QED
    BY <2>1, <2>2
<1>4. ~creating(s)
  BY <1>2 DEF IInv, RequestInv, creating
<1> QED
  BY <1>2, <1>3, <1>4, Created

LEMMA ForkReleaseStep ==
    ASSUME IInv, NEW s \in Streams, fork_release(s)
    PROVE  IInv'
<1>1. StoreType /\ StoreInv
  BY TypeParts DEF IInv
<1>2. undisturbed /\ meta[s] # None /\ UNCHANGED gens /\ ~pinned(s) /\ purge(s)
  BY DEF fork_release
<1>3. \A t \in Streams : t # s => meta'[t] = meta[t]
  BY <1>1, <1>2 DEF StoreType, purge
<1>4. StoreType' /\ StoreInv' /\ StoreStep
  BY <1>1, <1>2, PurgeEffect
<1>5. ~creating(s)
  BY <1>2 DEF IInv, RequestInv, creating
<1> QED
  BY <1>2, <1>3, <1>4, <1>5, Created

-----------------------------------------------------------------------------
(* A call that begins *)

MayCall(s, m, after, cap, limit, budget) ==
    /\ s \in Streams /\ m.generation \in 1 .. MaxGeneration
    /\ m.forked_from \in Streams \union {None} /\ m.fork_offset \in Nat
    /\ after \in Int /\ cap \in Nat \union {None}
    /\ limit \in 1 .. MAX_READ_ROWS /\ budget \in 0 .. MAX_READ_BYTES

Calls(call, s, m, after, cap, limit, budget) ==
    /\ call \in Frame /\ call.stream = s
    /\ call.after = after /\ call.cap = cap
    /\ call.limit = limit /\ call.budget = budget /\ call.remaining = budget
    /\ call.meta.generation = m.generation /\ call.meta.forked_from = m.forked_from
    /\ call.meta.fork_offset = m.fork_offset
    /\ call.messages = <<>>
    /\ \/ call.pc = "inherit" /\ m.forked_from # None /\ after < m.fork_offset
       \/ /\ call.pc = "lengths"
          /\ m.forked_from = None \/ ~(after < m.fork_offset)

LEMMA CallFacts ==
    ASSUME NEW s, NEW m, NEW after, NEW cap, NEW limit, NEW budget,
           MayCall(s, m, after, cap, limit, budget),
           NEW call, call = Call(s, m, after, cap, limit, budget)
    PROVE  Calls(call, s, m, after, cap, limit, budget)
<1>0. /\ s \in Streams /\ m.generation \in 1 .. MaxGeneration
      /\ m.forked_from \in Streams \union {None} /\ m.fork_offset \in Nat
      /\ after \in Int /\ cap \in Nat \union {None}
      /\ limit \in 1 .. MAX_READ_ROWS /\ budget \in 0 .. MAX_READ_BYTES
  BY DEF MayCall
<1>1. MAX_READ_ROWS \in Nat /\ MAX_READ_BYTES \in Nat
  BY LimitsArePositive
<1>2. Min({limit, MAX_READ_ROWS}) = limit /\ Min({budget, MAX_READ_BYTES}) = budget
  <2>1. limit \in Int /\ limit <= MAX_READ_ROWS /\ budget \in Int /\ budget <= MAX_READ_BYTES
    BY <1>0, <1>1
  <2> QED
    BY <1>1, <2>1, MinOfTwo
<1>3. PICK pc : pc = IF inherits(m) /\ after < m.fork_offset THEN "inherit" ELSE "lengths"
  OBVIOUS
<1>4. /\ pc \in {"inherit", "inherited", "lengths", "rows"}
      /\ \/ pc = "inherit" /\ m.forked_from # None /\ after < m.fork_offset
         \/ pc = "lengths" /\ (m.forked_from = None \/ ~(after < m.fork_offset))
  BY <1>3 DEF inherits
<1>5. call = [pc |-> pc, stream |-> s,
              meta |-> [generation |-> m.generation, forked_from |-> m.forked_from,
                        fork_offset |-> m.fork_offset],
              after |-> after, cap |-> cap, limit |-> limit, budget |-> budget,
              remaining |-> budget, messages |-> <<>>, last |-> None, capped |-> FALSE]
  BY <1>2, <1>3 DEF Call
<1>6. <<>> \in Seq(Message)
  OBVIOUS
<1>7. call \in Frame
  BY <1>0, <1>4, <1>5, <1>6 DEF Frame
<1> QED
  BY <1>4, <1>5, <1>7 DEF Calls

LEMMA CallBegins ==
    ASSUME StoreType, StoreInv, NEW a \in Ask, meta[a.stream] # None,
           meta[a.stream].generation = a.generation,
           NEW f, f = Call(a.stream, meta[a.stream], a.after, a.cap, a.limit, a.budget)
    PROVE  /\ f \in Frame /\ f.pc \in {"inherit", "lengths"} /\ Serves(f, a)
           /\ f.pc = "inherit" => Beginning(f)
           /\ f.pc = "lengths" => Begun(f, a)
<1>1. PICK s, m, after, cap, limit, budget :
         /\ s = a.stream /\ m = meta[a.stream] /\ after = a.after /\ cap = a.cap
         /\ limit = a.limit /\ budget = a.budget
  OBVIOUS
<1>2. /\ s \in Streams /\ after \in Int /\ cap \in Nat \union {None}
      /\ limit \in 1 .. MAX_READ_ROWS /\ budget \in 0 .. MAX_READ_BYTES
      /\ limit \in Nat /\ limit > 0 /\ budget \in Nat
  BY <1>1, AskFacts
<1>3. /\ m.generation \in 1 .. MaxGeneration /\ m.forked_from \in Streams \union {None}
      /\ m.fork_offset \in Nat
  BY <1>1, <1>2, RowFacts
<1>4. f = Call(s, m, after, cap, limit, budget)
  BY <1>1
<1>5. /\ f \in Frame /\ f.stream = s /\ f.after = after /\ f.cap = cap
      /\ f.limit = limit /\ f.budget = budget /\ f.remaining = budget
      /\ f.meta.generation = m.generation /\ f.meta.forked_from = m.forked_from
      /\ f.meta.fork_offset = m.fork_offset /\ f.messages = <<>>
      /\ \/ f.pc = "inherit" /\ m.forked_from # None /\ after < m.fork_offset
         \/ f.pc = "lengths" /\ (m.forked_from = None \/ ~(after < m.fork_offset))
  <2>1. MayCall(s, m, after, cap, limit, budget)
    BY <1>2, <1>3 DEF MayCall
  <2>2. Calls(f, s, m, after, cap, limit, budget)
    BY <1>4, <2>1, CallFacts
  <2> QED
    BY <2>2 DEF Calls
<1>6. Serves(f, a)
  BY <1>1, <1>5 DEF Serves
<1>7. f.pc = "inherit" => Beginning(f)
  BY <1>5 DEF Beginning
<1>8. ASSUME f.pc = "lengths" PROVE Begun(f, a)
  <2>1. Inherited(f, a) = {}
    <3> DEFINE L == log[a.generation]
    <3>1. Inherited(f, a) = {x \in L : in_range(x, after, cap) /\ x.offset <= m.fork_offset}
      BY <1>1, <1>5 DEF Inherited, Within
    <3>2. CASE m.forked_from = None
      <4>1. History(s)
        BY <1>2 DEF StoreInv
      <4>2. {x \in L : x.offset <= m.fork_offset} = {}
        BY <1>1, <3>2, <4>1 DEF History, upto
      <4> QED
        BY <3>1, <4>2
    <3>3. CASE ~(after < m.fork_offset)
      <4>1. \A x \in L : x.offset \in Nat
        BY <1>1, <1>2, RowFacts
      <4>2. \A x \in L : after < x.offset => ~(x.offset <= m.fork_offset)
        BY <1>2, <1>3, <3>3, <4>1
      <4> QED
        BY <3>1, <4>2 DEF in_range
    <3> QED
      BY <1>5, <1>8, <3>2, <3>3
  <2>2. Lists(f.messages, Inherited(f, a))
    BY <1>5, <2>1, EmptyLists
  <2>3. <<>> \in Seq(Message) /\ Len(<<>>) = 0
    OBVIOUS
  <2>4. bytes(f.messages) = 0
    BY <1>5, <2>3, BytesOfBatch
  <2>5. Len(f.messages) < f.limit
    BY <1>2, <1>5, <2>3
  <2>6. bytes(f.messages) + f.remaining = f.budget
    BY <1>2, <1>5, <2>4
  <2> QED
    BY <2>2, <2>5, <2>6 DEF Begun
<1> QED
  BY <1>5, <1>6, <1>7, <1>8

(* The steps of a read leave the store alone. *)
LEMMA SameStore ==
    ASSUME UNCHANGED store, NEW f, NEW a
    PROVE  /\ Serves(f, a) => Serves(f, a)'
           /\ Begun(f, a) => Begun(f, a)'
           /\ next_ask(f)' = next_ask(f)
           /\ Within(a)' = Within(a)
<1>1. meta' = meta /\ log' = log
  BY DEF store
<1> QED
  BY <1>1 DEF Serves, Begun, Inherited, Within, next_ask, inherited_cap, in_range

LEMMA SameRead ==
    ASSUME UNCHANGED <<store, request>>, NEW f, NEW a, NEW batch
    PROVE  /\ FrameInv(f, a) => FrameInv(f, a)'
           /\ Held(a) => Held(a)'
           /\ Good(a, batch) => Good(a, batch)'
           /\ first_ask(request)' = first_ask(request)
           /\ next_ask(f)' = next_ask(f)
<1>1. meta' = meta /\ log' = log /\ request' = request
  BY DEF store
<1>2. Serves(f, a) => Serves(f, a)'
  BY <1>1 DEF Serves
<1>3. Begun(f, a) => Begun(f, a)'
  BY <1>1 DEF Begun, Inherited, Within, in_range
<1>4. Held(a) => Held(a)'
  BY <1>1 DEF Held
<1>5. Within(a)' = Within(a)
  BY <1>1 DEF Within, in_range
<1>6. Chosen(f, a) => Chosen(f, a)'
  <2>1. Own(f, a)' = Own(f, a)
    BY <1>5 DEF Own
  <2>2. Taken(f, a)' = Taken(f, a)
    BY <2>1 DEF Taken
  <2> QED
    BY <1>1, <2>1, <2>2 DEF Chosen
<1>7. FrameInv(f, a) => FrameInv(f, a)'
  BY <1>2, <1>3, <1>4, <1>6 DEF FrameInv, Beginning
<1>8. Good(a, batch) => Good(a, batch)'
  BY <1>1, <1>5 DEF Good, GoodFor
<1> QED
  BY <1>1, <1>4, <1>7, <1>8 DEF first_ask, next_ask, inherited_cap

LEMMA StackFacts ==
    ASSUME ReadType
    PROVE  /\ Len(stack) \in Nat /\ \A i \in 1 .. Len(stack) : stack[i] \in Frame
           /\ stack # <<>> =>
                 /\ Len(stack) \in 1 .. Len(stack) /\ top \in Frame
                 /\ Len(stack) - 1 \in Nat
<1>1. stack \in Seq(Frame)
  BY DEF ReadType
<1>2. Len(stack) \in Nat /\ (stack # <<>> => Len(stack) # 0)
  BY <1>1
<1>3. \A i \in 1 .. Len(stack) : stack[i] \in Frame
  BY <1>1
<1>4. stack # <<>> => Len(stack) \in 1 .. Len(stack) /\ Len(stack) - 1 \in Nat
  BY <1>2
<1> QED
  BY <1>2, <1>3, <1>4 DEF top

LEMMA ReadStep ==
    ASSUME IInv, UNCHANGED <<store, request, changes>>, answer' = None,
           stack' \in Seq(Frame), reply' \in Batch \union {None}, Nested', Reading'
    PROVE  IInv'
<1>1. /\ meta' = meta /\ log' = log /\ messages' = messages /\ gens' = gens
      /\ request' = request /\ changes' = changes
  BY DEF store
<1>2. StoreInv'
  BY <1>1 DEF IInv, StoreInv, History, Source_of, beyond, upto
<1>3. TypeOK'
  BY <1>1 DEF IInv, TypeOK
<1>4. RequestInv'
  BY <1>1 DEF IInv, RequestInv, Fresh
<1>5. Answered'
  BY DEF Answered
<1> QED
  BY <1>2, <1>3, <1>4, <1>5 DEF IInv

-----------------------------------------------------------------------------
(* The three ways a step of a read changes the stack of calls: the          *)
(* innermost call goes on, returns, or calls its source.                    *)

LEMMA BecomeStep ==
    ASSUME IInv, stack # <<>>, UNCHANGED <<store, request, changes>>, answer' = None,
           NEW call \in Frame, become(call), reply' \in Batch \union {None},
           call.pc \in {"inherit", "inherited"} => call.meta.forked_from # None,
           \/ call.pc # "inherited"
           \/ reply' = None
           \/ ~(request # None /\ Fresh),
           request # None /\ Fresh => FrameInv(call, asked(Len(stack) - 1))
    PROVE  IInv'
<1> DEFINE n == Len(stack)
<1>1. ReadType /\ Nested /\ Reading
  BY TypeParts DEF IInv
<1>2. /\ n \in Nat /\ n \in 1 .. n /\ n - 1 \in Nat
      /\ \A i \in 1 .. n : stack[i] \in Frame /\ stack \in Seq(Frame)
  BY <1>1, StackFacts DEF ReadType
<1>3. /\ stack' \in Seq(Frame) /\ Len(stack') = n
      /\ \A i \in 1 .. n : stack'[i] = IF i = n THEN call ELSE stack[i]
  <2>1. stack' = [stack EXCEPT ![n] = call]
    BY DEF become
  <2> QED
    BY <1>2, <2>1, ExceptSeq
<1> HIDE DEF n
<1>4. request' = request /\ meta' = meta
  BY DEF store
<1>5. Nested'
  <2>1. \A i \in 1 .. n :
           /\ i # n => stack'[i].pc = "inherited"
           /\ stack'[i].pc \in {"inherit", "inherited"} => stack'[i].meta.forked_from # None
    BY <1>1, <1>3 DEF Nested, n
  <2>2. request' # None
    BY <1>1, <1>4 DEF Nested
  <2> QED
    BY <1>3, <2>1, <2>2 DEF Nested
<1>6. Reading'
  <2> SUFFICES ASSUME request # None, Fresh PROVE Reading'
    BY <1>4 DEF Reading, Fresh
  <2>1. \A i \in 1 .. n : FrameInv(stack[i], asked(i - 1))
    BY <1>1 DEF Reading, n
  <2>2. \A i \in 0 .. n - 1 : asked(i)' = asked(i)
    <3>1. \A i \in 0 .. n - 1 : i # 0 => i \in 1 .. n /\ i # n
      BY <1>2
    <3> QED
      BY <1>3, <1>4, <3>1 DEF asked, first_ask, next_ask, inherited_cap
  <2>3. ASSUME NEW i \in 1 .. n PROVE FrameInv(stack[i], asked(i - 1))'
    <3>1. PICK f, a : f = stack'[i] /\ a = asked(i - 1)
      OBVIOUS
    <3>2. FrameInv(f, a)
      BY <1>3, <2>1, <3>1 DEF n
    <3>3. FrameInv(f, a)'
      BY <3>2, SameRead
    <3>4. i - 1 \in 0 .. n - 1
      BY <1>2
    <3> QED
      BY <2>2, <3>1, <3>3, <3>4
  <2>4. ~at("inherited")' \/ reply' = None
    <3>1. top' = call
      BY <1>2, <1>3 DEF top
    <3> QED
      BY <3>1 DEF at
  <2>5. stack' # <<>>
    BY <1>2, <1>3
  <2> QED
    BY <1>3, <2>3, <2>4, <2>5 DEF Reading
<1> QED
  BY <1>3, <1>5, <1>6, ReadStep

LEMMA ReturnStep ==
    ASSUME IInv, stack # <<>>, UNCHANGED <<store, request, changes>>, answer' = None,
           NEW batch \in Batch, return(batch),
           request # None /\ Fresh => Good(asked(Len(stack) - 1), batch)
    PROVE  IInv'
<1> DEFINE n == Len(stack)
<1>1. ReadType /\ Nested /\ Reading
  BY TypeParts DEF IInv
<1>2. /\ n \in Nat /\ n \in 1 .. n /\ n - 1 \in Nat
      /\ \A i \in 1 .. n : stack[i] \in Frame
  BY <1>1, StackFacts
<1>3. /\ stack' \in Seq(Frame) /\ Len(stack') = n - 1
      /\ \A i \in 1 .. n - 1 : stack'[i] = stack[i]
  <2>1. stack' = SubSeq(stack, 1, n - 1) /\ \A i \in 1 .. n - 1 : stack[i] \in Frame
    BY <1>2 DEF return
  <2>2. PICK one, m : one = 1 /\ m = n - 1
    OBVIOUS
  <2>3. one \in Int /\ m \in Int /\ \A i \in one .. m : stack[i] \in Frame
    BY <1>2, <2>1, <2>2
  <2>4. /\ SubSeq(stack, one, m) \in Seq(Frame)
        /\ Len(SubSeq(stack, one, m)) = IF one <= m THEN m - one + 1 ELSE 0
        /\ \A i \in 1 .. m - one + 1 : SubSeq(stack, one, m)[i] = stack[one + i - 1]
    BY <2>3, SubSeqProperties
  <2>5. stack' = SubSeq(stack, one, m)
    BY <2>1, <2>2
  <2> HIDE DEF n
  <2>6. (IF one <= m THEN m - one + 1 ELSE 0) = n - 1 /\ m - one + 1 = n - 1
    BY <1>2, <2>2
  <2>7. \A i \in 1 .. n - 1 : one + i - 1 = i
    BY <2>2
  <2> QED
    BY <2>4, <2>5, <2>6, <2>7
<1> HIDE DEF n
<1>4. request' = request /\ meta' = meta /\ reply' = batch
  BY DEF store, return
<1>5. \A i \in 1 .. n - 1 : i \in 1 .. n /\ i # n
  BY <1>2
<1>6. Nested'
  <2>1. \A i \in 1 .. n - 1 :
           stack'[i].pc = "inherited" /\ stack'[i].meta.forked_from # None
    BY <1>1, <1>3, <1>5 DEF Nested, n
  <2>2. request' # None
    BY <1>1, <1>4 DEF Nested
  <2> QED
    BY <1>3, <2>1, <2>2 DEF Nested
<1>7. Reading'
  <2> SUFFICES ASSUME request # None, Fresh PROVE Reading'
    BY <1>4 DEF Reading, Fresh
  <2>1. \A i \in 1 .. n : FrameInv(stack[i], asked(i - 1))
    BY <1>1 DEF Reading, n
  <2>2. \A i \in 0 .. n - 1 : asked(i)' = asked(i)
    <3>1. \A i \in 0 .. n - 1 : i # 0 => i \in 1 .. n - 1
      BY <1>2
    <3> QED
      BY <1>3, <1>4, <3>1 DEF asked, first_ask, next_ask, inherited_cap
  <2>3. ASSUME NEW i \in 1 .. n - 1 PROVE FrameInv(stack[i], asked(i - 1))'
    <3>1. PICK f, a : f = stack'[i] /\ a = asked(i - 1)
      OBVIOUS
    <3>2. FrameInv(f, a)
      BY <1>3, <1>5, <2>1, <3>1
    <3>3. FrameInv(f, a)'
      BY <3>2, SameRead
    <3>4. i - 1 \in 0 .. n - 1
      BY <1>2
    <3> QED
      BY <2>2, <3>1, <3>3, <3>4
  <2>4. Held(asked(Len(stack)))' /\ Good(asked(Len(stack)), reply)'
    <3>1. PICK a : a = asked(n - 1)
      OBVIOUS
    <3>2. Held(a) /\ Good(a, batch)
      BY <1>2, <2>1, <3>1 DEF FrameInv, n
    <3>3. Held(a)' /\ Good(a, batch)'
      BY <3>2, SameRead
    <3>4. asked(Len(stack))' = a
      BY <1>2, <1>3, <2>2, <3>1
    <3> QED
      BY <1>4, <3>3, <3>4
  <2> QED
    BY <1>3, <2>3, <2>4 DEF Reading
<1>8. reply' \in Batch \union {None}
  BY <1>4
<1> QED
  BY <1>3, <1>6, <1>7, <1>8, ReadStep

LEMMA CallStep ==
    ASSUME IInv, at("inherit"), UNCHANGED <<store, request, changes, reply>>, answer' = None,
           NEW call \in Frame,
           stack' = Append([stack EXCEPT ![Len(stack)].pc = "inherited"], call),
           \/ call.pc = "inherit" /\ call.meta.forked_from # None
           \/ call.pc = "lengths",
           request # None /\ Fresh => FrameInv(call, next_ask(top))
    PROVE  IInv'
<1> DEFINE held == [top EXCEPT !.pc = "inherited"]
<1>n. PICK n : n = Len(stack)
  OBVIOUS
<1>1. ReadType /\ Nested /\ Reading
  BY TypeParts DEF IInv
<1>2. stack # <<>> /\ top.pc = "inherit"
  BY DEF at
<1>3. /\ n \in Nat /\ n \in 1 .. n /\ n - 1 \in Nat /\ top \in Frame /\ top = stack[n]
      /\ \A i \in 1 .. n : stack[i] \in Frame /\ stack \in Seq(Frame)
  BY <1>n, <1>1, <1>2, StackFacts DEF ReadType, top
<1>4. /\ held \in Frame /\ held.pc = "inherited" /\ held.stream = top.stream
      /\ held.meta = top.meta /\ held.after = top.after /\ held.cap = top.cap
      /\ held.limit = top.limit /\ held.budget = top.budget
      /\ held.remaining = top.remaining /\ held.messages = top.messages
  BY <1>3 DEF Frame
<1>5. /\ stack' \in Seq(Frame) /\ Len(stack') = n + 1 /\ stack'[n + 1] = call
      /\ \A i \in 1 .. n : stack'[i] = IF i = n THEN held ELSE stack[i]
  <2>1. stack' = Append([stack EXCEPT ![n] = held], call)
    BY <1>n, <1>3
  <2>2. PICK w : w = [stack EXCEPT ![n] = held]
    OBVIOUS
  <2> HIDE DEF held
  <2>3. /\ w \in Seq(Frame) /\ Len(w) = n
        /\ \A i \in 1 .. n : w[i] = IF i = n THEN held ELSE stack[i]
    BY <1>n, <1>3, <1>4, <2>2, ExceptSeq
  <2>4. stack' = Append(w, call)
    BY <2>1, <2>2
  <2>5. /\ Append(w, call) \in Seq(Frame) /\ Len(Append(w, call)) = Len(w) + 1
        /\ \A i \in 1 .. Len(w) : Append(w, call)[i] = w[i]
        /\ Append(w, call)[Len(w) + 1] = call
    BY <2>3, AppendProperties
  <2> QED
    BY <2>3, <2>4, <2>5
<1> HIDE DEF held
<1>6. request' = request /\ meta' = meta /\ reply' = reply
  BY DEF store
<1>7. \A i \in 1 .. n + 1 : i = n + 1 \/ i \in 1 .. n
  BY <1>3
<1>8. top.meta.forked_from # None
  BY <1>n, <1>1, <1>2, <1>3 DEF Nested
<1>9. Nested'
  <2>1. \A i \in 1 .. n : stack'[i].pc = "inherited" /\ stack'[i].meta.forked_from # None
    BY <1>n, <1>1, <1>4, <1>5, <1>8 DEF Nested
  <2>2. request' # None
    BY <1>1, <1>2, <1>6 DEF Nested
  <2> QED
    BY <1>5, <1>7, <2>1, <2>2 DEF Nested
<1>10. Reading'
  <2> SUFFICES ASSUME request # None, Fresh PROVE Reading'
    BY <1>6 DEF Reading, Fresh
  <2>1. \A i \in 1 .. n : FrameInv(stack[i], asked(i - 1))
    BY <1>n, <1>1 DEF Reading
  <2>2. \A i \in 0 .. n - 1 : asked(i)' = asked(i)
    <3>1. \A i \in 0 .. n - 1 : i # 0 => i \in 1 .. n /\ i # n
      BY <1>3
    <3>2. ASSUME NEW i \in 0 .. n - 1, i # 0 PROVE asked(i)' = asked(i)
      <4>1. stack'[i] = stack[i]
        BY <1>5, <3>1, <3>2
      <4>2. asked(i) = next_ask(stack[i]) /\ asked(i)' = next_ask(stack[i])'
        BY <3>2 DEF asked
      <4>3. next_ask(stack[i])' = next_ask(stack[i])
        BY <1>6, <4>1 DEF next_ask, inherited_cap
      <4> QED
        BY <4>2, <4>3
    <3>3. asked(0)' = asked(0)
      BY <1>6 DEF asked, first_ask
    <3> QED
      BY <3>2, <3>3
  <2>3. asked(n)' = next_ask(top)
    <3>1. n # 0 /\ stack'[n] = held
      BY <1>3, <1>5
    <3> QED
      BY <1>4, <1>6, <3>1 DEF asked, next_ask, inherited_cap
  <2>4. PICK f : f = top
    OBVIOUS
  <2>5. FrameInv(held, asked(n - 1))
    <3>1. PICK a : a = asked(n - 1)
      OBVIOUS
    <3>2. FrameInv(f, a)
      BY <1>3, <2>1, <2>4, <3>1
    <3>3. Serves(held, a)
      BY <1>4, <2>4, <3>2 DEF FrameInv, Serves
    <3>4. Beginning(held)
      BY <1>2, <1>4, <2>4, <3>2 DEF FrameInv, Beginning
    <3> QED
      BY <1>4, <3>1, <3>2, <3>3, <3>4 DEF FrameInv
  <2>6. ASSUME NEW i \in 1 .. n + 1 PROVE FrameInv(stack[i], asked(i - 1))'
    <3>1. CASE i = n + 1
      <4>1. PICK a : a = next_ask(top)
        OBVIOUS
      <4>2. FrameInv(call, a)
        BY <4>1
      <4>3. FrameInv(call, a)'
        BY <4>2, SameRead
      <4>4. i - 1 = n
        BY <1>3, <3>1
      <4> QED
        BY <1>5, <2>3, <3>1, <4>1, <4>3, <4>4
    <3>2. CASE i \in 1 .. n
      <4>1. PICK e, a : e = stack'[i] /\ a = asked(i - 1)
        OBVIOUS
      <4>2. FrameInv(e, a)
        BY <1>5, <2>1, <2>5, <3>2, <4>1
      <4>3. FrameInv(e, a)'
        BY <4>2, SameRead
      <4>4. i - 1 \in 0 .. n - 1
        BY <1>3, <3>2
      <4> QED
        BY <2>2, <4>1, <4>3, <4>4
    <3> QED
      BY <1>7, <3>1, <3>2
  <2>7. ~at("inherited")'
    <3>1. top' = call
      BY <1>5 DEF top
    <3> QED
      BY <3>1 DEF at
  <2>8. stack' # <<>>
    BY <1>3, <1>5
  <2> QED
    BY <1>5, <2>6, <2>7, <2>8 DEF Reading
<1>11. reply' \in Batch \union {None}
  BY <1>1, <1>6 DEF ReadType
<1> QED
  BY <1>5, <1>9, <1>10, <1>11, ReadStep

-----------------------------------------------------------------------------
(* A source has what a fork inherits from it: the messages up to the fork   *)
(* offset are the same in both histories.                                   *)
LEMMA SourceAsked ==
    ASSUME StoreType, StoreInv, ReadType, request # None, NEW a, NEW f \in Frame,
           Held(a), Serves(f, a), f.meta.forked_from # None
    PROVE  /\ Held(next_ask(f)) /\ Within(next_ask(f)) = Inherited(f, a)
           /\ next_ask(f).stream = f.meta.forked_from /\ next_ask(f).after = f.after
           /\ next_ask(f).cap = inherited_cap(f) /\ next_ask(f).limit = f.limit
           /\ next_ask(f).budget = f.remaining
           /\ \A m \in Within(next_ask(f)) : m.offset <= request.tail
<1> DEFINE s == a.stream
           u == f.meta.forked_from
           g == a.generation
           h == meta[s].source_generation
           F == f.meta.fork_offset
           cap == inherited_cap(f)
           T == request.tail
<1>1. /\ a \in Ask /\ s \in Streams /\ meta[s] # None /\ meta[s].generation = g
      /\ a.cap \in Nat \union {None}
  BY AskFacts DEF Held
<1>2. /\ u \in Streams /\ F \in Nat /\ f.stream = s /\ f.cap = a.cap /\ f.after = a.after
      /\ f.limit \in 1 .. MAX_READ_ROWS /\ f.remaining \in 0 .. MAX_READ_BYTES
      /\ f.after \in Int
  BY FrameFacts DEF Serves
<1>3. meta[s].forked_from = u /\ meta[s].fork_offset = F
  BY DEF Serves
<1>4. Source_of(s)
  BY <1>1, <1>3 DEF StoreInv, History
<1>5. /\ meta[u] # None /\ meta[u].generation = h /\ F <= meta[u].current_offset
      /\ {m \in log[g] : m.offset <= F} = {m \in log[h] : m.offset <= F}
  BY <1>1, <1>3, <1>4 DEF Source_of, upto
<1>6. /\ h \in 1 .. MaxGeneration /\ meta[u].current_offset \in Nat
      /\ \A m \in log[h] : m.offset \in Nat
  BY <1>2, <1>5, RowFacts
<1>7. T \in Nat
  BY TailIsNumber
<1>8. IF f.cap = None THEN cap = F
      ELSE f.cap \in Nat /\ cap = IF f.cap <= F THEN f.cap ELSE F
  BY <1>1, <1>2, MinOfTwo DEF inherited_cap
<1>9. f.cap # None => f.cap <= T
  BY <1>2 DEF Held
<1>10. f.cap = None => F <= T
  BY <1>2, <1>3 DEF Held
<1>11. next_ask(f) = [stream |-> u, generation |-> h, after |-> f.after, cap |-> cap,
                      limit |-> f.limit, budget |-> f.remaining]
  BY <1>2 DEF next_ask
<1>12. PICK b : b = next_ask(f)
  OBVIOUS
<1> HIDE DEF h, F, cap, T, u, s, g
<1>13. cap \in Nat /\ cap <= F /\ cap <= T
  BY <1>2, <1>7, <1>8, <1>9, <1>10
<1>14. b \in Ask
  BY <1>2, <1>6, <1>11, <1>12, <1>13 DEF Ask
<1>15. cap <= meta[u].current_offset
  BY <1>2, <1>5, <1>6, <1>13
<1>16. cap # None
  BY <1>13, StreamsAreNamed
<1>17. Held(b)
  BY <1>5, <1>11, <1>12, <1>13, <1>14, <1>15, <1>16 DEF Held, T
<1>18. Within(b) = Inherited(f, a)
  <2>1. Within(b) = {m \in log[h] : f.after < m.offset /\ m.offset <= cap}
    BY <1>11, <1>12, <1>16 DEF Within, in_range
  <2>2. Inherited(f, a) = {m \in log[g] : /\ f.after < m.offset
                                          /\ f.cap = None \/ m.offset <= f.cap
                                          /\ m.offset <= F}
    BY <1>2 DEF Inherited, Within, in_range, g, F
  <2>3. \A m \in log[h] : m.offset <= F => m \in log[g]
    BY <1>5
  <2>4. \A m \in log[g] : m.offset <= F => m \in log[h]
    BY <1>5
  <2>5. \A m \in log[h] : m.offset <= cap =>
           m.offset <= F /\ (f.cap = None \/ m.offset <= f.cap)
    BY <1>2, <1>6, <1>8, <1>13
  <2>6. \A m \in log[h] :
           m.offset <= F /\ (f.cap = None \/ m.offset <= f.cap) => m.offset <= cap
    BY <1>2, <1>6, <1>8
  <2> QED
    BY <2>1, <2>2, <2>3, <2>4, <2>5, <2>6
<1>19. \A m \in Within(b) : m.offset <= T
  <2>1. \A m \in Within(b) : m \in log[h] /\ m.offset <= cap
    BY <1>11, <1>12, <1>16 DEF Within, in_range
  <2> QED
    BY <1>6, <1>7, <1>13, <2>1
<1> QED
  BY <1>11, <1>12, <1>17, <1>18, <1>19 DEF cap, T, u

LEMMA TopFacts ==
    ASSUME IInv, stack # <<>>
    PROVE  /\ request # None /\ top \in Frame /\ Len(stack) \in Nat
           /\ Len(stack) \in 1 .. Len(stack) /\ top = stack[Len(stack)]
           /\ top.pc \in {"inherit", "inherited"} => top.meta.forked_from # None
           /\ Fresh => FrameInv(top, asked(Len(stack) - 1))
           /\ asked(Len(stack)) = next_ask(top)
<1>1. ReadType /\ Nested /\ Reading
  BY TypeParts DEF IInv
<1>2. /\ top \in Frame /\ Len(stack) \in Nat /\ Len(stack) \in 1 .. Len(stack)
      /\ top = stack[Len(stack)]
  BY <1>1, StackFacts DEF top
<1>3. Len(stack) # 0
  BY <1>2
<1> QED
  BY <1>1, <1>2, <1>3 DEF Nested, Reading, asked

LEMMA CapIsOffset ==
    ASSUME NEW f \in Frame
    PROVE  inherited_cap(f) \in Nat
<1>1. f.cap \in Nat \union {None} /\ f.meta.fork_offset \in Nat
  BY FrameFacts
<1>2. f.cap # None => inherited_cap(f) = IF f.cap <= f.meta.fork_offset
                                         THEN f.cap ELSE f.meta.fork_offset
  BY <1>1, MinOfTwo DEF inherited_cap
<1> QED
  BY <1>1, <1>2 DEF inherited_cap

LEMMA ReadRangeStep ==
    ASSUME IInv, ReadRange
    PROVE  IInv'
<1>1. /\ at("inherit") /\ stack # <<>> /\ top.pc = "inherit"
      /\ UNCHANGED <<store, request, changes>> /\ answer' = None
  BY DEF ReadRange, at
<1>2. StoreType /\ StoreInv /\ ReadType
  BY TypeParts DEF IInv
<1>3. PICK f, a : f = top /\ a = asked(Len(stack) - 1)
  OBVIOUS
<1>4. /\ request # None /\ f \in Frame /\ f.meta.forked_from # None
      /\ Fresh => FrameInv(f, a)
  BY <1>1, <1>3, TopFacts
<1>5. f.meta.forked_from \in Streams
  BY <1>4, FrameFacts
<1>6. ASSUME Fresh
      PROVE  /\ Held(next_ask(f)) /\ next_ask(f).stream = f.meta.forked_from
             /\ next_ask(f).after = f.after /\ next_ask(f).cap = inherited_cap(f)
             /\ next_ask(f).limit = f.limit /\ next_ask(f).budget = f.remaining
  <2>1. Held(a) /\ Serves(f, a)
    BY <1>4, <1>6 DEF FrameInv
  <2> QED
    BY <1>2, <1>4, <2>1, SourceAsked
<1>7. CASE meta[f.meta.forked_from] = None
  <2>1. ~Fresh
    BY <1>6, <1>7 DEF Held
  <2>2. PICK held : held = [f EXCEPT !.pc = "inherited"]
    OBVIOUS
  <2>3. held \in Frame /\ held.pc = "inherited" /\ held.meta.forked_from # None
    BY <1>4, <2>2 DEF Frame
  <2>4. stack' = [stack EXCEPT ![Len(stack)].pc = "inherited"] /\ reply' = Empty
    BY <1>3, <1>7 DEF ReadRange
  <2>5. become(held)
    BY <1>3, <2>2, <2>4 DEF become, top
  <2>6. reply' \in Batch \union {None}
    <3>1. <<>> \in Seq(Message)
      OBVIOUS
    <3> QED
      BY <2>4, <3>1 DEF Empty, Batch
  <2> QED
    BY <1>1, <2>1, <2>3, <2>5, <2>6, BecomeStep
<1>8. CASE meta[f.meta.forked_from] # None
  <2>1. PICK s, m, after, cap, limit, budget :
           /\ s = f.meta.forked_from /\ m = meta[s] /\ after = f.after
           /\ cap = inherited_cap(f) /\ limit = f.limit /\ budget = f.remaining
    OBVIOUS
  <2>2. PICK call : call = Call(s, m, after, cap, limit, budget)
    OBVIOUS
  <2>3. /\ s \in Streams /\ after \in Int /\ cap \in Nat \union {None}
        /\ limit \in 1 .. MAX_READ_ROWS /\ budget \in 0 .. MAX_READ_BYTES
    BY <1>4, <1>5, <2>1, FrameFacts, CapIsOffset
  <2>4. /\ m.generation \in 1 .. MaxGeneration /\ m.fork_offset \in Nat
        /\ m.forked_from \in Streams \union {None}
    BY <1>2, <1>8, <2>1, <2>3, RowFacts
  <2>5. /\ call \in Frame /\ call.meta.forked_from = m.forked_from
        /\ \/ call.pc = "inherit" /\ m.forked_from # None /\ after < m.fork_offset
           \/ /\ call.pc = "lengths"
              /\ m.forked_from = None \/ ~(after < m.fork_offset)
    <3>1. MayCall(s, m, after, cap, limit, budget)
      BY <2>3, <2>4 DEF MayCall
    <3>2. Calls(call, s, m, after, cap, limit, budget)
      BY <2>2, <3>1, CallFacts
    <3> QED
      BY <3>2 DEF Calls
  <2>6. stack' = Append([stack EXCEPT ![Len(stack)].pc = "inherited"], call) /\ reply' = reply
    BY <1>3, <1>8, <2>1, <2>2 DEF ReadRange
  <2>7. ASSUME Fresh PROVE FrameInv(call, next_ask(top))
    <3>1. PICK b : b = next_ask(f)
      OBVIOUS
    <3>2. /\ Held(b) /\ b.stream = s /\ b.after = after /\ b.cap = cap /\ b.limit = limit
          /\ b.budget = budget
      BY <1>6, <2>1, <2>7, <3>1
    <3>3. b \in Ask /\ meta[b.stream] # None /\ meta[b.stream].generation = b.generation
      BY <3>2 DEF Held
    <3>4. call = Call(b.stream, meta[b.stream], b.after, b.cap, b.limit, b.budget)
      BY <2>1, <2>2, <3>2
    <3>5. /\ call.pc \in {"inherit", "lengths"} /\ Serves(call, b)
          /\ call.pc = "inherit" => Beginning(call)
          /\ call.pc = "lengths" => Begun(call, b)
      BY <1>2, <3>3, <3>4, CallBegins
    <3>6. FrameInv(call, b)
      BY <3>2, <3>5 DEF FrameInv
    <3> QED
      BY <1>3, <3>1, <3>6
  <2> QED
    BY <1>1, <2>5, <2>6, <2>7, CallStep
<1> QED
  BY <1>7, <1>8

LEMMA Left ==
    ASSUME NEW f \in Frame, NEW batch \in Seq(Message)
    PROVE  /\ bytes(batch) \in Nat /\ left(f, batch) \in 0 .. MAX_READ_BYTES
           /\ left(f, batch) # 0 => bytes(batch) + left(f, batch) = f.remaining
           /\ batch = <<>> => bytes(batch) + left(f, batch) = f.remaining
<1>1. f.remaining \in Nat /\ f.remaining \in 0 .. MAX_READ_BYTES
  BY FrameFacts
<1>2. bytes(batch) \in Nat /\ (batch = <<>> => bytes(batch) = 0)
  BY BytesOfBatch
<1>3. PICK zero, d : zero = 0 /\ d = f.remaining - bytes(batch)
  OBVIOUS
<1>4. zero \in Int /\ d \in Int
  BY <1>1, <1>2, <1>3
<1>5. Max({zero, d}) = IF zero <= d THEN d ELSE zero
  BY <1>4, MaxOfTwo
<1>6. left(f, batch) = IF zero <= d THEN d ELSE zero
  BY <1>3, <1>5 DEF left
<1>7. MAX_READ_BYTES \in Nat
  BY LimitsArePositive
<1> QED
  BY <1>1, <1>2, <1>3, <1>6, <1>7

LEMMA InheritedStep ==
    ASSUME IInv, inherited
    PROVE  IInv'
<1>1. /\ stack # <<>> /\ top.pc = "inherited" /\ reply # None /\ at("inherited")
      /\ UNCHANGED <<store, request, changes>> /\ answer' = None
  BY DEF inherited, at
<1>2. StoreType /\ StoreInv /\ ReadType /\ Reading
  BY TypeParts DEF IInv
<1>3. PICK f, a, batch : f = top /\ a = asked(Len(stack) - 1) /\ batch = reply
  OBVIOUS
<1>4. /\ request # None /\ f \in Frame /\ f.meta.forked_from # None
      /\ Fresh => FrameInv(f, a)
      /\ asked(Len(stack)) = next_ask(f)
  BY <1>1, <1>3, TopFacts
<1>5. batch \in Batch /\ batch.messages \in Seq(Message)
  BY <1>1, <1>2, <1>3 DEF ReadType, Batch
<1>6. f.stream \in Streams
  BY <1>4, FrameFacts
<1>7. ASSUME Fresh
      PROVE  /\ Held(a) /\ Serves(f, a) /\ Beginning(f)
             /\ meta[f.stream] # None /\ meta[f.stream].generation = f.meta.generation
             /\ Held(next_ask(f)) /\ Good(next_ask(f), batch)
             /\ Within(next_ask(f)) = Inherited(f, a)
             /\ next_ask(f).limit = f.limit /\ next_ask(f).budget = f.remaining
             /\ \A m \in Within(next_ask(f)) : m.offset <= request.tail
  <2>1. Held(a) /\ Serves(f, a) /\ Beginning(f)
    BY <1>1, <1>3, <1>4, <1>7 DEF FrameInv
  <2>2. meta[f.stream] # None /\ meta[f.stream].generation = f.meta.generation
    BY <2>1 DEF Held, Serves
  <2>3. Good(next_ask(f), batch)
    BY <1>1, <1>2, <1>3, <1>4, <1>7 DEF Reading
  <2> QED
    BY <1>2, <1>4, <2>1, <2>2, <2>3, SourceAsked
<1>8. CASE meta[f.stream] = None
  <2>1. PICK empty : empty = Empty
    OBVIOUS
  <2>2. return(empty)
    BY <1>3, <1>8, <2>1 DEF inherited
  <2>3. empty \in Batch
    <3>1. <<>> \in Seq(Message)
      OBVIOUS
    <3> QED
      BY <2>1, <3>1 DEF Empty, Batch
  <2> QED
    BY <1>1, <1>7, <1>8, <2>2, <2>3, ReturnStep
<1>9. CASE meta[f.stream] # None /\ meta[f.stream].generation # f.meta.generation
  <2>1. PICK s, m, after, cap, limit, budget :
           /\ s = f.stream /\ m = meta[s] /\ after = f.after
           /\ cap = f.cap /\ limit = f.limit /\ budget = f.budget
    OBVIOUS
  <2>2. PICK call : call = Call(s, m, after, cap, limit, budget)
    OBVIOUS
  <2>3. /\ s \in Streams /\ after \in Int /\ cap \in Nat \union {None}
        /\ limit \in 1 .. MAX_READ_ROWS /\ budget \in 0 .. MAX_READ_BYTES
    BY <1>4, <2>1, FrameFacts
  <2>4. /\ m.generation \in 1 .. MaxGeneration /\ m.fork_offset \in Nat
        /\ m.forked_from \in Streams \union {None}
    BY <1>2, <1>9, <2>1, <2>3, RowFacts
  <2>5. /\ call \in Frame /\ call.meta.forked_from = m.forked_from
        /\ \/ call.pc = "inherit" /\ m.forked_from # None /\ after < m.fork_offset
           \/ /\ call.pc = "lengths"
              /\ m.forked_from = None \/ ~(after < m.fork_offset)
    <3>1. MayCall(s, m, after, cap, limit, budget)
      BY <2>3, <2>4 DEF MayCall
    <3>2. Calls(call, s, m, after, cap, limit, budget)
      BY <2>2, <3>1, CallFacts
    <3> QED
      BY <3>2 DEF Calls
  <2>6. become(call) /\ reply' = None
    BY <1>3, <1>9, <2>1, <2>2 DEF inherited
  <2>7. ~Fresh
    BY <1>7, <1>9
  <2>8. reply' \in Batch \union {None}
    BY <2>6
  <2> QED
    BY <1>1, <2>5, <2>6, <2>7, <2>8, BecomeStep
<1>10. CASE /\ meta[f.stream] # None /\ meta[f.stream].generation = f.meta.generation
            /\ filled(f, batch)
  <2>1. PICK out : out = [messages |-> batch.messages, capped |-> TRUE]
    OBVIOUS
  <2>2. return(out)
    BY <1>3, <1>10, <2>1 DEF inherited
  <2>3. out \in Batch
    BY <1>5, <2>1 DEF Batch
  <2>4. ASSUME Fresh PROVE Good(asked(Len(stack) - 1), out)
    <3>1. PICK b, W, F, T : /\ b = next_ask(f) /\ W = Within(a) /\ F = f.meta.fork_offset
                            /\ T = request.tail
      OBVIOUS
    <3>2. Within(b) = {m \in W : m.offset <= F} /\ GoodFor(Within(b), T, b.limit, b.budget, batch)
      BY <1>7, <2>4, <3>1 DEF Good, Inherited
    <3>3. b.limit = a.limit /\ b.budget = a.budget
      BY <1>7, <2>4, <3>1 DEF Serves, Beginning
    <3>4. batch.messages # <<>>
      <4>1. batch.capped => batch.messages # <<>>
        BY <3>2 DEF GoodFor
      <4>2. Len(batch.messages) >= f.limit => batch.messages # <<>>
        <5>1. f.limit \in Nat /\ f.limit > 0 /\ Len(<<>>) = 0
          BY <1>4, FrameFacts, LimitsArePositive
        <5> QED
          BY <5>1
      <4> QED
        BY <1>10, <4>1, <4>2 DEF filled
    <3>5. W \subseteq Message /\ F \in Nat
      BY <1>2, <1>4, <1>7, <2>4, <3>1, WithinFacts, FrameFacts
    <3>6. PICK limit, budget : limit = a.limit /\ budget = a.budget
      OBVIOUS
    <3>7. GoodFor({m \in W : m.offset <= F}, T, limit, budget, batch)
      BY <3>2, <3>3, <3>6
    <3>8. GoodFor(W, T, limit, budget, out)
      BY <2>1, <3>4, <3>5, <3>7, GoodHandedUp
    <3> QED
      BY <1>3, <3>1, <3>6, <3>8 DEF Good
  <2> QED
    BY <1>1, <2>2, <2>3, <2>4, ReturnStep
<1>11. CASE /\ meta[f.stream] # None /\ meta[f.stream].generation = f.meta.generation
            /\ ~filled(f, batch)
  <2>1. PICK rest : rest = left(f, batch.messages)
    OBVIOUS
  <2>2. PICK call : call = [f EXCEPT !.pc = "lengths", !.messages = batch.messages,
                                     !.remaining = rest]
    OBVIOUS
  <2>3. become(call) /\ reply' = None
    BY <1>3, <1>11, <2>1, <2>2 DEF inherited
  <2>4. /\ rest \in 0 .. MAX_READ_BYTES /\ bytes(batch.messages) \in Nat
        /\ rest # 0 \/ batch.messages = <<>> => bytes(batch.messages) + rest = f.remaining
    BY <1>4, <1>5, <2>1, Left
  <2>5. /\ call \in Frame /\ call.pc = "lengths" /\ call.stream = f.stream
        /\ call.meta = f.meta /\ call.after = f.after /\ call.cap = f.cap
        /\ call.limit = f.limit /\ call.budget = f.budget /\ call.remaining = rest
        /\ call.messages = batch.messages
    BY <1>4, <1>5, <2>2, <2>4 DEF Frame
  <2>6. ASSUME Fresh PROVE FrameInv(call, asked(Len(stack) - 1))
    <3>1. Serves(call, a)
      BY <1>7, <2>5, <2>6 DEF Serves
    <3>2. Lists(call.messages, Inherited(call, a))
      <4>1. PICK b, W, T, limit, budget :
               /\ b = next_ask(f) /\ W = Within(b) /\ T = request.tail
               /\ limit = b.limit /\ budget = b.budget
        OBVIOUS
      <4>2. GoodFor(W, T, limit, budget, batch) /\ \A m \in W : m.offset <= T
        BY <1>7, <2>6, <4>1 DEF Good
      <4>3. ~batch.capped
        BY <1>11 DEF filled
      <4>4. Lists(batch.messages, W)
        BY <4>2, <4>3, WholeReply
      <4>5. Inherited(call, a) = W
        BY <1>7, <2>5, <2>6, <4>1 DEF Inherited
      <4> QED
        BY <2>5, <4>4, <4>5
    <3>3. Len(call.messages) < call.limit
      <4>1. f.limit \in Nat /\ Len(batch.messages) \in Nat
        BY <1>4, <1>5, FrameFacts, LenProperties
      <4>2. ~(Len(batch.messages) >= f.limit)
        BY <1>11 DEF filled
      <4> QED
        BY <2>5, <4>1, <4>2
    <3>4. bytes(call.messages) + call.remaining = call.budget
      <4>1. rest # 0 \/ batch.messages = <<>>
        BY <1>11, <2>1 DEF filled
      <4>2. f.remaining = f.budget
        BY <1>7, <2>6 DEF Beginning
      <4> QED
        BY <2>4, <2>5, <4>1, <4>2
    <3> QED
      BY <1>3, <1>7, <2>5, <2>6, <3>1, <3>2, <3>3, <3>4 DEF FrameInv, Begun
  <2>7. reply' \in Batch \union {None}
    BY <2>3
  <2> QED
    BY <1>1, <2>3, <2>5, <2>6, <2>7, BecomeStep
<1> QED
  BY <1>8, <1>9, <1>10, <1>11

-----------------------------------------------------------------------------
(* The rows of a range are the level's own part of what it is asked for. *)

LEMMA RangeFacts ==
    ASSUME StoreType, StoreInv, NEW s \in Streams, NEW after, NEW cap
    PROVE  /\ range(s, after, cap) \in SUBSET Message /\ IsFiniteSet(range(s, after, cap))
           /\ Distinct(range(s, after, cap))
<1> DEFINE R == range(s, after, cap)
<1>1. R \in SUBSET messages[s]
  BY DEF range
<1>2. CASE meta[s] = None
  <2>1. R = {}
    BY <1>1, <1>2 DEF StoreType
  <2> QED
    BY <2>1, FS_EmptySet DEF Distinct
<1>3. CASE meta[s] # None
  <2> DEFINE L == log[meta[s].generation]
  <2>1. History(s)
    BY DEF StoreInv
  <2>2. IsFiniteSet(L) /\ Distinct(L) /\ L \subseteq Message
    BY <1>3, <2>1, RowFacts DEF History
  <2>3. messages[s] \subseteq L
    BY <1>3, <2>1 DEF History, beyond
  <2> HIDE DEF L, R
  <2>4. R \in SUBSET L
    BY <1>1, <2>3
  <2>5. IsFiniteSet(R)
    BY <2>2, <2>4, FS_Subset
  <2> QED
    BY <2>2, <2>4, <2>5 DEF Distinct, R
<1> QED
  BY <1>2, <1>3

LEMMA OwnRange ==
    ASSUME StoreType, StoreInv, NEW a, NEW f, Held(a), Serves(f, a)
    PROVE  range(f.stream, f.after, f.cap) = Own(f, a)
<1> DEFINE s == a.stream
<1>1. s \in Streams /\ meta[s] # None /\ meta[s].generation = a.generation
  BY AskFacts DEF Held
<1>2. messages[s] = {m \in log[a.generation] : m.offset > f.meta.fork_offset}
  <2>1. History(s)
    BY <1>1 DEF StoreInv
  <2> QED
    BY <1>1, <2>1 DEF History, beyond, Serves
<1>3. Own(f, a) = {m \in log[a.generation] : in_range(m, a.after, a.cap)
                                             /\ m.offset > f.meta.fork_offset}
  BY DEF Own, Within
<1>4. range(f.stream, f.after, f.cap) = {m \in messages[s] : in_range(m, a.after, a.cap)}
  BY DEF range, Serves
<1> QED
  BY <1>2, <1>3, <1>4

(* As many rows are taken as were scanned, or fewer. *)
LEMMA SomeTaken ==
    ASSUME NEW scanned \in Seq(Message), NEW limit \in Nat, NEW budget \in Nat, NEW batch,
           NEW k, k = TakenOf(scanned, limit, budget, batch)
    PROVE  k \in 0 .. Len(scanned) /\ (k # 0 => scanned[k] \in Message)
<1>1. PICK n, c : n = Len(scanned) /\ c = Min({limit, n})
  OBVIOUS
<1>2. n \in Nat
  BY <1>1, LenProperties
<1>3. c \in Nat /\ c <= n
  <2>1. c = IF limit <= n THEN limit ELSE n
    BY <1>1, <1>2, MinOfTwo
  <2> QED
    BY <1>2, <2>1
<1> DEFINE Fits == {i \in 0 .. c : \A j \in 1 .. i :
                       \/ j = 1 /\ batch = <<>>
                       \/ bytes(SubSeq(scanned, 1, j)) <= budget}
<1>4. k = Max(Fits)
  BY <1>1 DEF selected, TakenOf
<1>5. 0 \in Fits
  BY <1>3
<1>6. Fits \in SUBSET Nat /\ \A i \in Fits : i <= c
  BY <1>3
<1> HIDE DEF Fits
<1>7. Max(Fits) \in Fits
  BY <1>3, <1>5, <1>6, Greatest
<1>8. k \in Nat /\ k <= c
  BY <1>4, <1>6, <1>7
<1>9. k \in 0 .. n /\ (k # 0 => k \in 1 .. n)
  BY <1>2, <1>3, <1>8
<1> QED
  BY <1>1, <1>9

LEMMA Scanned ==
    ASSUME NEW found \in Seq(Message), NEW limit \in Nat
    PROVE  ScannedOf(found, limit) \in Seq(Message)
<1>1. Len(found) \in Nat /\ MAX_READ_ROWS \in Nat
  BY LenProperties, LimitsArePositive
<1>2. Min({limit, MAX_READ_ROWS}) \in Nat
  BY <1>1, MinOfTwo
<1>3. PICK n, l : n = scan_limit(limit) /\ l = Min({Len(found), n})
  OBVIOUS
<1>4. n \in Nat
  BY <1>2, <1>3 DEF scan_limit
<1>5. l \in 0 .. Len(found)
  <2>1. l = IF Len(found) <= n THEN Len(found) ELSE n
    BY <1>1, <1>3, <1>4, MinOfTwo
  <2> QED
    BY <1>1, <1>4, <2>1
<1> QED
  BY <1>3, <1>5, FirstOnes DEF ScannedOf

LEMMA LengthsStep ==
    ASSUME IInv, lengths
    PROVE  IInv'
<1>1. /\ stack # <<>> /\ top.pc = "lengths"
      /\ UNCHANGED <<store, request, changes>> /\ answer' = None
  BY DEF lengths, at
<1>2. StoreType /\ StoreInv /\ ReadType
  BY TypeParts DEF IInv
<1>3. PICK f, a : f = top /\ a = asked(Len(stack) - 1)
  OBVIOUS
<1>4. request # None /\ f \in Frame /\ (Fresh => FrameInv(f, a))
  BY <1>1, <1>3, TopFacts
<1>5. PICK own, found : own = range(f.stream, f.after, f.cap) /\ found = ordered(own)
  OBVIOUS
<1>6. PICK limit : limit = Max({0, f.limit - Len(f.messages)})
  OBVIOUS
<1>7. PICK scanned : scanned = ScannedOf(found, limit)
  OBVIOUS
<1>8. PICK k : k = TakenOf(scanned, limit, f.remaining, f.messages)
  OBVIOUS
<1>9. PICK capped : capped = (Len(scanned) > k)
  OBVIOUS
<1>10. /\ f.messages \in Seq(Message) /\ Len(f.messages) \in Nat /\ f.remaining \in Nat
       /\ f.limit \in 1 .. MAX_READ_ROWS /\ f.limit \in Nat /\ f.budget \in Nat
       /\ f.stream \in Streams /\ f.meta.fork_offset \in Nat
  BY <1>4, FrameFacts, LenProperties
<1>11. limit = IF 0 <= f.limit - Len(f.messages) THEN f.limit - Len(f.messages) ELSE 0
  <2>1. PICK zero, d : zero = 0 /\ d = f.limit - Len(f.messages)
    OBVIOUS
  <2>2. zero \in Int /\ d \in Int
    BY <1>10, <2>1
  <2>3. Max({zero, d}) = IF zero <= d THEN d ELSE zero
    BY <2>2, MaxOfTwo
  <2> QED
    BY <1>6, <2>1, <2>3
<1>12. own \in SUBSET Message /\ IsFiniteSet(own) /\ Distinct(own)
  BY <1>2, <1>5, <1>10, RangeFacts
<1>13. Lists(found, own) /\ found \in Seq(Message)
  BY <1>5, <1>12, OrderedLists DEF Lists
<1>14. /\ scanned \in Seq(Message) /\ k \in 0 .. Len(scanned) /\ Len(scanned) \in Nat
       /\ k # 0 => scanned[k] \in Message
  <2>1. limit \in Nat
    BY <1>10, <1>11
  <2>2. scanned \in Seq(Message)
    BY <1>7, <1>13, <2>1, Scanned
  <2>3. k \in 0 .. Len(scanned) /\ (k # 0 => scanned[k] \in Message)
    BY <1>8, <1>10, <2>1, <2>2, SomeTaken
  <2> QED
    BY <2>2, <2>3, LenProperties
<1>15. capped \in BOOLEAN
  BY <1>9
<1>16. ASSUME Fresh
       PROVE  /\ Held(a) /\ Serves(f, a) /\ Begun(f, a) /\ own = Own(f, a)
              /\ k \in 0 .. Len(found) /\ Len(f.messages) + k <= f.limit
              /\ k = 0 => Len(found) = 0 \/ f.messages # <<>>
              /\ k # 0 => \/ k = 1 /\ f.messages = <<>>
                          \/ bytes(SubSeq(found, 1, k)) <= f.remaining
              /\ k # 0 => scanned[k] = found[k]
              /\ capped => Len(found) > k
              /\ ~capped => k = Len(found)
  <2>1. Held(a) /\ Serves(f, a) /\ Begun(f, a)
    BY <1>1, <1>3, <1>4, <1>16 DEF FrameInv
  <2>2. own = Own(f, a)
    BY <1>2, <1>5, <2>1, OwnRange
  <2>3. Len(f.messages) < f.limit
    BY <2>1 DEF Begun
  <2>4. limit \in 1 .. MAX_READ_ROWS /\ limit = f.limit - Len(f.messages)
    BY <1>10, <1>11, <2>3, LimitsArePositive
  <2>5. PICK budget, batch : budget = f.remaining /\ batch = f.messages
    OBVIOUS
  <2>6. Selects(found, limit, budget, batch, scanned, k)
    <3>1. budget \in Nat /\ limit \in 1 .. MAX_READ_ROWS /\ found \in Seq(Message)
      BY <1>10, <1>13, <2>4, <2>5
    <3>2. k = TakenOf(scanned, limit, budget, batch)
      BY <1>8, <2>5
    <3> QED
      BY <1>7, <3>1, <3>2, Selection
  <2>7. Len(f.messages) + k <= f.limit
    <3>1. k \in Nat /\ k <= limit
      BY <2>6 DEF Selects
    <3> QED
      BY <1>10, <2>4, <3>1
  <2> QED
    BY <1>9, <2>1, <2>2, <2>5, <2>6, <2>7 DEF Selects
<1>17. CASE k = 0
  <2>1. PICK out : out = [messages |-> f.messages, capped |-> capped]
    OBVIOUS
  <2>2. return(out)
    <3>1. found = ordered(range(top.stream, top.after, top.cap))
      BY <1>3, <1>5
    <3>2. limit = Max({0, top.limit - Len(top.messages)})
      BY <1>3, <1>6
    <3>3. scanned = SubSeq(found, 1, Min({Len(found), scan_limit(limit)}))
      BY <1>7 DEF ScannedOf
    <3>4. k = selected(scanned, limit, top.remaining, top.messages = <<>>)
      BY <1>3, <1>8 DEF TakenOf
    <3>5. return([messages |-> top.messages, capped |-> Len(scanned) > k])
      BY <1>17, <3>1, <3>2, <3>3, <3>4 DEF lengths
    <3> QED
      BY <1>3, <1>9, <2>1, <3>5
  <2>3. out \in Batch
    BY <1>10, <1>15, <2>1 DEF Batch
  <2>4. ASSUME Fresh PROVE Good(asked(Len(stack) - 1), out)
    <3>1. PICK W, F, T, s, budget : /\ W = Within(a) /\ F = f.meta.fork_offset
                            /\ T = request.tail /\ s = f.messages /\ budget = a.budget
      OBVIOUS
    <3>2. W \subseteq Message /\ F \in Nat
      BY <1>2, <1>10, <1>16, <2>4, <3>1, WithinFacts
    <3>3. Lists(s, {m \in W : m.offset <= F})
      BY <1>16, <2>4, <3>1 DEF Begun, Inherited
    <3>4. capped => s # <<>>
      <4>1. capped => Len(found) # 0
        BY <1>13, <1>16, <1>17, <2>4, LenProperties
      <4> QED
        BY <1>16, <1>17, <2>4, <3>1, <4>1
    <3>5. ASSUME ~capped PROVE \A m \in W : m.offset <= F
      <4>1. found = <<>>
        <5>1. Len(found) = 0
          BY <1>16, <1>17, <2>4, <3>5
        <5> QED
          BY <1>13, <5>1
      <4>2. own = {}
        BY <1>13, <4>1, NothingLists
      <4>3. \A m \in W : ~(m.offset > F)
        BY <1>16, <2>4, <3>1, <4>2 DEF Own
      <4>4. \A m \in W : m.offset \in Nat
        BY <3>2 DEF Message
      <4> QED
        BY <3>2, <4>3, <4>4
    <3>6. PICK max : max = a.limit
      OBVIOUS
    <3>7. Len(s) <= max
      <4>1. Len(s) < f.limit
        BY <1>16, <2>4, <3>1 DEF Begun
      <4>2. f.limit = max
        BY <1>16, <2>4, <3>6 DEF Serves
      <4> QED
        BY <1>10, <3>1, <4>1, <4>2
    <3>8. bytes(s) <= budget
      <4>1. bytes(s) + f.remaining = f.budget /\ f.budget = budget
        BY <1>16, <2>4, <3>1 DEF Begun, Serves
      <4>2. bytes(s) \in Nat
        BY <1>10, <3>1, BytesOfBatch
      <4> QED
        BY <1>10, <4>1, <4>2
    <3>9. GoodFor(W, T, max, budget, out)
      BY <2>1, <3>1, <3>2, <3>3, <3>4, <3>5, <3>7, <3>8, GoodList
    <3> QED
      BY <1>3, <3>1, <3>6, <3>9 DEF Good
  <2> QED
    BY <1>1, <2>2, <2>3, <2>4, ReturnStep
<1>18. CASE k # 0
  <2>1. PICK end : end = scanned[k].offset
    OBVIOUS
  <2>2. PICK call : call = [f EXCEPT !.pc = "rows", !.capped = capped, !.last = end]
    OBVIOUS
  <2>3. become(call) /\ reply' = reply
    BY <1>3, <1>5, <1>6, <1>7, <1>8, <1>9, <1>18, <2>1, <2>2
    DEF lengths, ScannedOf, TakenOf
  <2>4. end \in Nat
    BY <1>14, <1>18, <2>1 DEF Message
  <2>5. /\ call \in Frame /\ call.pc = "rows" /\ call.stream = f.stream
        /\ call.meta = f.meta /\ call.after = f.after /\ call.cap = f.cap
        /\ call.limit = f.limit /\ call.budget = f.budget /\ call.remaining = f.remaining
        /\ call.messages = f.messages /\ call.last = end /\ call.capped = capped
    BY <1>4, <1>15, <2>2, <2>4 DEF Frame
  <2>6. ASSUME Fresh PROVE FrameInv(call, asked(Len(stack) - 1))
    <3>1. Serves(call, a) /\ Begun(call, a) /\ Own(call, a) = own
      BY <1>16, <2>5, <2>6 DEF Serves, Begun, Inherited, Own
    <3>2. PICK U, t : U = {m \in own : m.offset <= end} /\ t = SubSeq(found, 1, k)
      OBVIOUS
    <3>3. k \in 1 .. Len(found) /\ end = found[k].offset
      <4>1. Len(found) \in Nat /\ k \in 0 .. Len(found)
        BY <1>13, <1>16, <2>6, LenProperties
      <4> QED
        BY <1>16, <1>18, <2>1, <2>6, <4>1
    <3>4. Lists(t, U) /\ Len(t) = k
      BY <1>13, <3>2, <3>3, ListsPrefix
    <3>5. ordered(U) = t
      <4>1. U \in SUBSET own
        BY <3>2
      <4>2. U \in SUBSET Message /\ IsFiniteSet(U) /\ Distinct(U)
        BY <1>12, <4>1, FS_Subset DEF Distinct
      <4>3. Lists(ordered(U), U)
        BY <4>2, OrderedLists
      <4> QED
        BY <3>4, <4>3, OneList
    <3>6. Taken(call, a) = U
      BY <2>5, <3>1, <3>2 DEF Taken
    <3>7. found[k] \in own
      BY <1>13, <3>3, Listed
    <3>8. end <= meta[a.stream].current_offset
      <4>1. found[k] \in Within(a)
        BY <1>16, <2>6, <3>7 DEF Own
      <4> QED
        BY <1>2, <1>16, <2>6, <3>3, <4>1, WithinFacts
    <3>9. end > f.meta.fork_offset
      BY <1>16, <2>6, <3>3, <3>7 DEF Own
    <3>10. t # <<>>
      <4>1. k # 0
        BY <1>18
      <4>2. Len(<<>>) = 0
        OBVIOUS
      <4> QED
        BY <3>4, <4>1, <4>2
    <3>11. bytes(t) <= f.remaining \/ (f.messages = <<>> /\ Len(t) = 1)
      BY <1>16, <1>18, <2>6, <3>2, <3>4
    <3>12. ASSUME ~capped, NEW m \in own PROVE m.offset <= end
      <4>1. k = Len(found)
        BY <1>16, <2>6, <3>12
      <4>2. PICK i \in 1 .. Len(found) : found[i] = m
        BY <1>13, Listed
      <4>3. i < k => found[i].offset < found[k].offset
        BY <1>13, <3>3, Listed
      <4>4. found[i].offset \in Nat /\ Len(found) \in Nat
        BY <1>13, Listed
      <4>5. i = k \/ i < k
        BY <3>3, <4>1, <4>4
      <4> QED
        BY <2>4, <3>3, <4>2, <4>3, <4>4, <4>5
    <3>13. Chosen(call, a)
      BY <1>16, <2>4, <2>5, <2>6, <3>1, <3>4, <3>5, <3>6, <3>8, <3>9, <3>10, <3>11, <3>12
      DEF Chosen
    <3> QED
      BY <1>3, <1>16, <2>5, <2>6, <3>1, <3>13 DEF FrameInv
  <2>7. reply' \in Batch \union {None}
    BY <1>2, <2>3 DEF ReadType
  <2> QED
    BY <1>1, <2>3, <2>5, <2>6, <2>7, BecomeStep
<1> QED
  BY <1>17, <1>18

LEMMA RowsStep ==
    ASSUME IInv, rows
    PROVE  IInv'
<1>1. /\ stack # <<>> /\ top.pc = "rows"
      /\ UNCHANGED <<store, request, changes>> /\ answer' = None
  BY DEF rows, at
<1>2. StoreType /\ StoreInv /\ ReadType
  BY TypeParts DEF IInv
<1>3. PICK f, a : f = top /\ a = asked(Len(stack) - 1)
  OBVIOUS
<1>4. request # None /\ f \in Frame /\ (Fresh => FrameInv(f, a))
  BY <1>1, <1>3, TopFacts
<1>5. PICK own, U, t : /\ own = range(f.stream, f.after, f.cap)
                       /\ U = {m \in own : m.offset <= f.last} /\ t = ordered(U)
  OBVIOUS
<1>6. /\ f.messages \in Seq(Message) /\ Len(f.messages) \in Nat /\ f.remaining \in Nat
      /\ f.limit \in Nat /\ f.budget \in Nat /\ f.capped \in BOOLEAN
      /\ f.stream \in Streams /\ f.meta.fork_offset \in Nat
  BY <1>4, FrameFacts, LenProperties
<1>7. Lists(t, U) /\ t \in Seq(Message) /\ Len(t) \in Nat
  <2>1. own \in SUBSET Message /\ IsFiniteSet(own) /\ Distinct(own)
    BY <1>2, <1>5, <1>6, RangeFacts
  <2>2. U \in SUBSET own
    BY <1>5
  <2>3. U \in SUBSET Message /\ IsFiniteSet(U) /\ Distinct(U)
    BY <2>1, <2>2, FS_Subset DEF Distinct
  <2>4. Lists(t, U)
    BY <1>5, <2>3, OrderedLists
  <2> QED
    BY <2>4, LenProperties DEF Lists
<1>8. PICK s, capped : s = f.messages \o t /\ capped = f.capped
  OBVIOUS
<1>9. s \in Seq(Message) /\ Len(s) = Len(f.messages) + Len(t)
  BY <1>6, <1>7, <1>8, ConcatProperties
<1>10. PICK out : out = [messages |-> s, capped |-> capped]
  OBVIOUS
<1>11. return(out)
  BY <1>3, <1>5, <1>8, <1>10 DEF rows
<1>12. out \in Batch
  BY <1>6, <1>8, <1>9, <1>10 DEF Batch
<1>13. ASSUME Fresh PROVE Good(asked(Len(stack) - 1), out)
  <2>1. Held(a) /\ Serves(f, a) /\ Begun(f, a) /\ Chosen(f, a)
    BY <1>1, <1>3, <1>4, <1>13 DEF FrameInv
  <2>2. own = Own(f, a) /\ Taken(f, a) = U
    BY <1>2, <1>5, <2>1, OwnRange DEF Taken
  <2>3. PICK W, F, T, end, max, budget :
           /\ W = Within(a) /\ F = f.meta.fork_offset /\ T = request.tail
           /\ end = f.last /\ max = a.limit /\ budget = a.budget
    OBVIOUS
  <2>4. W \subseteq Message /\ \A m \in W : m.offset \in Nat
    BY <1>2, <2>1, <2>3, WithinFacts
  <2>5. end \in Nat /\ F \in Nat /\ end > F
    BY <1>6, <2>1, <2>3 DEF Chosen
  <2>6. own = {m \in W : m.offset > F} /\ Inherited(f, a) = {m \in W : m.offset <= F}
    BY <2>2, <2>3 DEF Own, Inherited
  <2>7. Lists(s, {m \in W : m.offset <= end})
    <3>1. PICK I : I = Inherited(f, a)
      OBVIOUS
    <3>2. Lists(f.messages, I)
      BY <2>1, <3>1 DEF Begun
    <3>3. \A m \in I, n \in U : m.offset < n.offset
      <4>1. \A m \in I : m \in W /\ m.offset <= F
        BY <2>6, <3>1
      <4>2. \A n \in U : n \in W /\ n.offset > F
        BY <1>5, <2>6
      <4> QED
        BY <2>4, <2>5, <4>1, <4>2
    <3>4. Lists(s, I \union U)
      BY <1>7, <1>8, <3>2, <3>3, ListsConcat
    <3>5. I \union U = {m \in W : m.offset <= end}
      <4>1. U = {m \in own : m.offset <= end}
        BY <1>5, <2>3
      <4>2. \A m \in W : m.offset <= F => m.offset <= end
        BY <2>4, <2>5
      <4>3. \A m \in W : m.offset <= F \/ m.offset > F
        BY <2>4, <2>5
      <4> QED
        BY <2>6, <3>1, <4>1, <4>2, <4>3
    <3> QED
      BY <3>4, <3>5
  <2>8. /\ Len(t) # 0 /\ Len(f.messages) + Len(t) <= f.limit
        /\ bytes(t) <= f.remaining \/ (Len(f.messages) = 0 /\ Len(t) = 1)
    <3>1. /\ t # <<>> /\ Len(f.messages) + Len(t) <= f.limit
          /\ bytes(t) <= f.remaining \/ (f.messages = <<>> /\ Len(t) = 1)
      BY <1>5, <2>1, <2>2 DEF Chosen
    <3>2. Len(<<>>) = 0 /\ (t # <<>> => Len(t) # 0)
      BY <1>7
    <3> QED
      BY <3>1, <3>2
  <2>9. capped => s # <<>>
    <3>1. Len(s) # 0 /\ Len(<<>>) = 0
      BY <1>6, <1>7, <1>9, <2>8
    <3> QED
      BY <3>1
  <2>10. ASSUME ~capped, NEW m \in W, m.offset <= T PROVE m.offset <= end
    <3>1. CASE m.offset > F
      <4>1. m \in Own(f, a)
        BY <2>2, <2>6, <2>10, <3>1
      <4> QED
        BY <1>8, <2>1, <2>3, <2>10, <4>1 DEF Chosen
    <3>2. CASE ~(m.offset > F)
      BY <2>4, <2>5, <2>10, <3>2
    <3> QED
      BY <3>1, <3>2
  <2>11. Len(s) <= max
    <3>1. f.limit = max
      BY <2>1, <2>3 DEF Serves
    <3> QED
      BY <1>6, <1>9, <2>8, <3>1
  <2>12. Len(s) > 1 => bytes(s) <= budget
    <3>1. bytes(s) = bytes(f.messages) + bytes(t)
      BY <1>6, <1>7, <1>8, BytesOfParts
    <3>2. bytes(f.messages) \in Nat /\ bytes(t) \in Nat
      BY <1>6, <1>7, BytesOfBatch
    <3>3. bytes(f.messages) + f.remaining = f.budget /\ f.budget = budget
      BY <2>1, <2>3 DEF Begun, Serves
    <3>4. Len(s) > 1 => bytes(t) <= f.remaining
      <4>1. Len(f.messages) = 0 /\ Len(t) = 1 => ~(Len(s) > 1)
        BY <1>9
      <4> QED
        BY <2>8, <4>1
    <3> QED
      BY <1>6, <3>1, <3>2, <3>3, <3>4
  <2>13. GoodFor(W, T, max, budget, out)
    BY <1>10, <2>4, <2>5, <2>7, <2>9, <2>10, <2>11, <2>12, GoodList
  <2> QED
    BY <1>3, <2>3, <2>13 DEF Good
<1> QED
  BY <1>1, <1>11, <1>12, <1>13, ReturnStep

-----------------------------------------------------------------------------
(* Requests begin and are answered *)

LEMMA ServeStep ==
    ASSUME IInv, request = None, NEW r \in Request, meta[r.stream] # None,
           meta[r.stream].generation = r.generation,
           r.tail = meta[r.stream].current_offset,
           r.kind = "fork" =>
               /\ r.child \in Streams /\ meta[r.child] = None
               /\ r.after \in Nat /\ r.after <= meta[r.stream].current_offset,
           serve(r, Call(r.stream, meta[r.stream], r.after, None, r.limit, MAX_READ_BYTES))
    PROVE  IInv'
<1>1. StoreType /\ StoreInv /\ ReadType
  BY TypeParts DEF IInv
<1>2. PICK call : call = Call(r.stream, meta[r.stream], r.after, None, r.limit, MAX_READ_BYTES)
  OBVIOUS
<1>3. /\ request' = r /\ stack' = <<call>> /\ answer' = None
      /\ meta' = meta /\ messages' = messages /\ gens' = gens /\ log' = log
      /\ reply' = reply /\ changes' = changes /\ UNCHANGED store
  BY <1>2 DEF serve, store
<1>4. PICK a : a = first_ask(r)
  OBVIOUS
<1>5. /\ a \in Ask /\ a.stream = r.stream /\ a.generation = r.generation /\ a.after = r.after
      /\ a.cap = None /\ a.limit = r.limit /\ a.budget = MAX_READ_BYTES
  <2>1. /\ r.stream \in Streams /\ r.generation \in 1 .. MaxGeneration /\ r.after \in Int
        /\ r.limit \in 1 .. MAX_READ_ROWS
    BY DEF Request
  <2>2. MAX_READ_BYTES \in 0 .. MAX_READ_BYTES
    BY LimitsArePositive
  <2> QED
    BY <1>4, <2>1, <2>2 DEF first_ask, Ask
<1>6. call = Call(a.stream, meta[a.stream], a.after, a.cap, a.limit, a.budget)
  BY <1>2, <1>5
<1>7. /\ call \in Frame /\ call.pc \in {"inherit", "lengths"} /\ Serves(call, a)
      /\ call.pc = "inherit" => Beginning(call)
      /\ call.pc = "lengths" => Begun(call, a)
  BY <1>1, <1>5, <1>6, CallBegins
<1>8. TypeOK'
  <2>1. stack' \in Seq(Frame)
    BY <1>3, <1>7
  <2> QED
    BY <1>3, <2>1 DEF IInv, TypeOK
<1>9. StoreInv'
  BY <1>1, <1>3 DEF StoreInv, History, Source_of, beyond, upto
<1>10. r.stream \in Streams
  BY DEF Request
<1>11. RequestInv'
  <2>1. r.generation <= gens
    BY <1>1, <1>10 DEF StoreInv, History
  <2> QED
    BY <1>3, <2>1 DEF RequestInv, Fresh
<1>12. Len(stack') = 1 /\ stack'[1] = call
  BY <1>3
<1>13. Nested'
  <2>1. call.pc = "inherit" => call.meta.forked_from # None
    BY <1>7 DEF Beginning
  <2>2. request' # None
    BY <1>3, StreamsAreNamed
  <2> QED
    BY <1>3, <1>7, <1>12, <2>1, <2>2 DEF Nested
<1>14. Reading'
  <2>1. Held(a)'
    <3>1. /\ meta[r.stream].fork_offset <= meta[r.stream].current_offset
          /\ meta[r.stream].current_offset \in Nat
      BY <1>1, <1>10, RowFacts DEF StoreInv, History
    <3>2. request'.tail = meta[r.stream].current_offset
      BY <1>3
    <3>3. /\ meta[r.stream].fork_offset <= request'.tail
          /\ request'.tail <= meta[r.stream].current_offset
      BY <3>1, <3>2
    <3> QED
      BY <1>3, <1>5, <3>3 DEF Held
  <2>2. /\ Serves(call, a)' /\ call.pc = "inherit" => Beginning(call)
        /\ call.pc = "lengths" => Begun(call, a)'
    BY <1>3, <1>7, SameStore
  <2>3. FrameInv(call, a)'
    BY <1>3, <1>7, <2>1, <2>2, SameStore DEF FrameInv, Beginning
  <2>4. \A i \in 1 .. Len(stack') : i = 1 /\ i - 1 = 0
    BY <1>12
  <2>5. asked(0)' = a
    BY <1>3, <1>4 DEF asked, first_ask
  <2>6. ASSUME NEW i \in 1 .. Len(stack') PROVE FrameInv(stack[i], asked(i - 1))'
    <3>1. i = 1 /\ i - 1 = 0
      BY <2>4
    <3>2. stack'[i] = call /\ asked(i - 1)' = a
      BY <1>12, <2>5, <3>1
    <3> QED
      BY <2>3, <3>2
  <2>7. stack' # <<>> /\ ~at("inherited")'
    <3>1. top' = call
      BY <1>12 DEF top
    <3> QED
      BY <1>3, <1>7, <3>1 DEF at
  <2> QED
    BY <2>6, <2>7 DEF Reading
<1>15. Answered'
  BY <1>3 DEF Answered
<1> QED
  BY <1>8, <1>9, <1>11, <1>13, <1>14, <1>15 DEF IInv

LEMMA ReadSnapshotStep ==
    ASSUME IInv, NEW s \in Streams, read_snapshot(s)
    PROVE  IInv'
<1>1. StoreType /\ StoreInv
  BY TypeParts DEF IInv
<1>2. request = None /\ meta[s] # None
  BY DEF read_snapshot
<1>3. PICK after \in {Start, meta[s].fork_offset} \union
                        {m.offset : m \in log[meta[s].generation]} :
         serve([kind |-> "read", stream |-> s, child |-> None, after |-> after,
                generation |-> meta[s].generation, tail |-> meta[s].current_offset,
                limit |-> MAX_READ_ROWS],
               Call(s, meta[s], after, None, MAX_READ_ROWS, MAX_READ_BYTES))
  BY DEF read_snapshot
<1>4. /\ meta[s].generation \in 1 .. MaxGeneration /\ meta[s].fork_offset \in Nat
      /\ meta[s].current_offset \in Nat
      /\ \A m \in log[meta[s].generation] : m.offset \in Nat
  BY <1>1, <1>2, RowFacts
<1>5. after \in Int
  BY <1>4 DEF Start
<1>6. MAX_READ_ROWS \in 1 .. MAX_READ_ROWS
  BY LimitsArePositive
<1>7. PICK r : r = [kind |-> "read", stream |-> s, child |-> None, after |-> after,
                    generation |-> meta[s].generation, tail |-> meta[s].current_offset,
                    limit |-> MAX_READ_ROWS]
  OBVIOUS
<1>8. /\ r \in Request /\ r.stream = s /\ r.generation = meta[s].generation
      /\ r.tail = meta[s].current_offset /\ r.kind = "read" /\ r.after = after
      /\ r.limit = MAX_READ_ROWS
  BY <1>4, <1>5, <1>6, <1>7 DEF Request
<1>9. serve(r, Call(r.stream, meta[r.stream], r.after, None, r.limit, MAX_READ_BYTES))
  BY <1>3, <1>7, <1>8
<1>10. r.kind # "fork"
  BY <1>8
<1> QED
  BY <1>2, <1>8, <1>9, <1>10, ServeStep

LEMMA CreateForkReadStep ==
    ASSUME IInv, NEW s \in Streams, create_fork_read(s)
    PROVE  IInv'
<1> DEFINE u == Source[s]
<1>1. StoreType /\ StoreInv
  BY TypeParts DEF IInv
<1>2. request = None /\ meta[s] = None /\ u # None /\ meta[u] # None
  BY DEF create_fork_read
<1>3. u \in Streams
  BY <1>2, LimitsArePositive
<1>4. PICK one : one = 1
  OBVIOUS
<1>5. PICK offset \in offsets(u) :
         serve([kind |-> "fork", stream |-> u, child |-> s, after |-> offset,
                generation |-> meta[u].generation, tail |-> meta[u].current_offset,
                limit |-> one],
               Call(u, meta[u], offset, None, one, MAX_READ_BYTES))
  BY <1>4 DEF create_fork_read
<1> HIDE DEF u
<1>6. offset \in Nat /\ offset <= meta[u].current_offset
  BY <1>1, <1>2, <1>3, OffsetFacts
<1>7. meta[u].generation \in 1 .. MaxGeneration /\ meta[u].current_offset \in Nat
  BY <1>1, <1>2, <1>3, RowFacts
<1>8. one \in 1 .. MAX_READ_ROWS
  BY <1>4, LimitsArePositive
<1>9. PICK r : r = [kind |-> "fork", stream |-> u, child |-> s, after |-> offset,
                    generation |-> meta[u].generation, tail |-> meta[u].current_offset,
                    limit |-> one]
  OBVIOUS
<1>10. /\ r \in Request /\ r.stream = u /\ r.generation = meta[u].generation
       /\ r.tail = meta[u].current_offset /\ r.child = s /\ r.after = offset
       /\ r.limit = one
  BY <1>3, <1>6, <1>7, <1>8, <1>9 DEF Request
<1>11. serve(r, Call(r.stream, meta[r.stream], r.after, None, r.limit, MAX_READ_BYTES))
  BY <1>5, <1>9, <1>10
<1> QED
  BY <1>2, <1>6, <1>10, <1>11, ServeStep

(* What a finished call has returned is what the request asked for. *)
LEMMA FinishedIsGood ==
    ASSUME IInv, finished, Fresh
    PROVE  /\ request.generation <= gens /\ reply \in Batch /\ request \in Request
           /\ GoodFor(Within(first_ask(request)), request.tail, request.limit,
                      MAX_READ_BYTES, reply)
<1>1. ReadType /\ Reading /\ RequestInv
  BY TypeParts DEF IInv
<1>2. request # None /\ stack = <<>> /\ reply # None
  BY DEF finished
<1>3. Good(asked(Len(stack)), reply)
  BY <1>1, <1>2 DEF Reading
<1>4. asked(Len(stack)) = first_ask(request)
  <2>1. Len(stack) = 0
    BY <1>2
  <2> QED
    BY <2>1 DEF asked
<1>5. first_ask(request).limit = request.limit /\ first_ask(request).budget = MAX_READ_BYTES
  BY DEF first_ask
<1>6. GoodFor(Within(first_ask(request)), request.tail, request.limit, MAX_READ_BYTES, reply)
  BY <1>3, <1>4, <1>5 DEF Good
<1> QED
  BY <1>1, <1>2, <1>6 DEF ReadType, RequestInv

(* A request that is answered leaves nothing behind. *)
LEMMA AnsweredStep ==
    ASSUME IInv, finished, NEW batch, answered(batch), StoreType', StoreInv',
           batch = None \/ (batch = reply /\ Fresh),
           \A g \in 1 .. gens : log'[g] = log[g]
    PROVE  IInv'
<1>1. ReadType
  BY TypeParts DEF IInv
<1>2. request # None /\ stack = <<>> /\ reply # None
  BY DEF finished
<1>3. /\ answer' = IF batch = None THEN None ELSE [request |-> request, batch |-> batch]
      /\ request' = None /\ reply' = None /\ changes' = 0 /\ stack' = <<>>
  BY <1>2 DEF answered
<1>4. ReadType'
  <2>1. answer' \in [request : Request, batch : Batch] \union {None}
    BY <1>2, <1>3, FinishedIsGood
  <2>2. 0 \in 0 .. MaxChanges /\ <<>> \in Seq(Frame)
    BY LimitsArePositive
  <2> QED
    BY <1>3, <2>1, <2>2 DEF ReadType
<1>5. TypeOK'
  BY <1>4 DEF TypeOK, StoreType, ReadType
<1>6. RequestInv' /\ Nested' /\ Reading'
  <2>1. \A i \in 1 .. Len(stack') : FALSE
    BY <1>3
  <2> QED
    BY <1>3, <2>1 DEF RequestInv, Nested, Reading
<1>7. Answered'
  <2> SUFFICES ASSUME answer' # None PROVE Answered'
    BY DEF Answered
  <2>1. batch = reply /\ Fresh /\ answer' = [request |-> request, batch |-> batch]
    BY <1>2, <1>3
  <2>2. PICK r, a : r = request /\ a = first_ask(r)
    OBVIOUS
  <2>3. /\ r.generation <= gens /\ r \in Request
        /\ GoodFor(Within(a), r.tail, r.limit, MAX_READ_BYTES, batch)
    BY <2>1, <2>2, FinishedIsGood
  <2>4. a.generation = r.generation
    BY <2>2 DEF first_ask
  <2>5. r.generation \in 1 .. gens
    <3>1. r.generation \in 1 .. MaxGeneration /\ gens \in 0 .. MaxGeneration
      BY <2>3 DEF Request, IInv, TypeOK
    <3> QED
      BY <2>3, <3>1, LimitsArePositive
  <2>6. log'[a.generation] = log[a.generation]
    BY <2>4, <2>5
  <2>7. Within(a)' = Within(a)
    BY <2>6 DEF Within, in_range
  <2>8. answer'.request = r /\ answer'.batch = batch
    BY <2>1, <2>2
  <2>9. first_ask(answer.request)' = a
    BY <2>2, <2>8 DEF first_ask
  <2>10. Within(first_ask(answer.request))' = Within(a)
    BY <2>7, <2>9 DEF Within, in_range
  <2> QED
    BY <2>3, <2>8, <2>10 DEF Answered, GoodFor
<1> QED
  BY <1>5, <1>6, <1>7 DEF IInv

LEMMA ReadSnapshotFreshStep ==
    ASSUME IInv, read_snapshot_fresh
    PROVE  IInv'
<1>1. finished /\ UNCHANGED store
  BY DEF read_snapshot_fresh
<1>2. meta' = meta /\ messages' = messages /\ gens' = gens /\ log' = log
  BY <1>1 DEF store
<1>3. StoreType' /\ StoreInv'
  BY <1>2, TypeParts DEF IInv, StoreType, StoreInv, History, Source_of, beyond, upto
<1>4. CASE Fresh
  <2>1. PICK batch : batch = reply
    OBVIOUS
  <2>2. answered(batch)
    BY <1>4, <2>1 DEF read_snapshot_fresh, Fresh
  <2> QED
    BY <1>1, <1>2, <1>3, <1>4, <2>1, <2>2, AnsweredStep
<1>5. CASE ~Fresh
  <2>1. answered(None)
    BY <1>5 DEF read_snapshot_fresh, Fresh
  <2> QED
    BY <1>1, <1>2, <1>3, <2>1, AnsweredStep
<1> QED
  BY <1>4, <1>5

LEMMA CreateForkPrefixStep ==
    ASSUME IInv, create_fork_prefix
    PROVE  IInv'
<1>1. finished /\ request.kind = "fork" /\ answered(reply) /\ request # None /\ reply # None
  BY DEF create_fork_prefix, finished
<1>2. StoreType /\ StoreInv /\ ReadType /\ RequestInv
  BY TypeParts DEF IInv
<1>3. /\ Fresh /\ request.child \in Streams /\ meta[request.child] = None
      /\ request.after \in Nat /\ request.after <= meta[request.stream].current_offset
  BY <1>1, <1>2 DEF RequestInv
<1>4. StoreType' /\ StoreInv' /\ \A g \in 1 .. gens : log'[g] = log[g]
  <2>1. CASE UNCHANGED store
    <3>1. meta' = meta /\ messages' = messages /\ gens' = gens /\ log' = log
      BY <2>1 DEF store
    <3> QED
      BY <1>2, <3>1 DEF StoreType, StoreInv, History, Source_of, beyond, upto
  <2>2. CASE ~UNCHANGED store
    <3>0. PICK sub_offset \in SubOffsets :
             LET prefix == sub_offset_prefix(Head(reply.messages).data, sub_offset)
             IN  /\ reply.messages # <<>> /\ prefix # Refused
                 /\ create(request.child, request.stream, request.after,
                           upto(request.generation, request.after), sub_offset, prefix)
      BY <2>2 DEF create_fork_prefix
    <3>1. PICK prefix :
             /\ prefix = sub_offset_prefix(Head(reply.messages).data, sub_offset)
             /\ reply.messages # <<>> /\ prefix # Refused
             /\ create(request.child, request.stream, request.after,
                       upto(request.generation, request.after), sub_offset, prefix)
      BY <3>0
    <3>2. sub_offset \in Nat
      BY LimitsArePositive
    <3>3. prefix \in Seq(Token)
      <4>1. reply.messages \in Seq(Message)
        BY <1>1, <1>2 DEF ReadType, Batch
      <4>2. Head(reply.messages) \in Message
        BY <3>1, <4>1
      <4>3. Head(reply.messages).data \in Seq(Token)
        BY <4>2 DEF Message
      <4> QED
        BY <3>1, <3>2, <4>3, PrefixTokens
    <3>4. PICK s, from, offset, given :
             /\ s = request.child /\ from = request.stream /\ offset = request.after
             /\ given = upto(request.generation, offset)
      OBVIOUS
    <3>5. /\ s \in Streams /\ meta[s] = None /\ from \in Streams /\ from # None
          /\ offset \in Nat /\ offset <= meta[from].current_offset
          /\ meta[from] # None /\ given = upto(meta[from].generation, offset)
      BY <1>1, <1>2, <1>3, <3>4, TailIsNumber, StreamsAreNamed DEF Fresh
    <3>6. create(s, from, offset, given, sub_offset, prefix)
      BY <3>1, <3>4
    <3> QED
      BY <1>2, <3>2, <3>3, <3>5, <3>6, CreateEffect
  <2> QED
    BY <2>1, <2>2
<1>5. PICK batch : batch = reply
  OBVIOUS
<1>6. answered(batch)
  BY <1>1, <1>5
<1> QED
  BY <1>1, <1>3, <1>4, <1>5, <1>6, AnsweredStep

-----------------------------------------------------------------------------
(* The invariant and what it says *)

LEMMA Initially == Init => IInv
<1> SUFFICES ASSUME Init PROVE IInv
  OBVIOUS
<1>1. TypeOK
  <2>1. <<>> \in Seq(Frame) /\ 0 \in 0 .. MaxGeneration /\ 0 \in 0 .. MaxChanges
    BY LimitsArePositive
  <2> QED
    BY <2>1 DEF Init, TypeOK
<1>2. StoreInv /\ RequestInv /\ Answered
  BY DEF Init, StoreInv, History, RequestInv, Answered
<1>3. Nested /\ Reading
  <2>1. \A i \in 1 .. Len(<<>>) : FALSE
    OBVIOUS
  <2> QED
    BY <2>1 DEF Init, Nested, Reading
<1> QED
  BY <1>1, <1>2, <1>3 DEF IInv

LEMMA Stutter == IInv /\ UNCHANGED vars => IInv'
<1> SUFFICES ASSUME IInv, UNCHANGED vars PROVE IInv'
  OBVIOUS
<1>1. /\ meta' = meta /\ messages' = messages /\ gens' = gens /\ log' = log
      /\ request' = request /\ stack' = stack /\ changes' = changes /\ reply' = reply
      /\ answer' = answer
  BY DEF vars, store
<1>2. TypeOK'
  BY <1>1 DEF IInv, TypeOK
<1>3. StoreInv'
  BY <1>1 DEF IInv, StoreInv, History, Source_of, beyond, upto
<1>4. RequestInv' /\ Nested'
  BY <1>1 DEF IInv, RequestInv, Fresh, Nested
<1>5. Reading'
  <2> SUFFICES ASSUME request # None, Fresh PROVE Reading'
    BY <1>1 DEF Reading, Fresh
  <2>1. /\ \A i \in 1 .. Len(stack) : FrameInv(stack[i], asked(i - 1))
        /\ reply # None /\ (stack = <<>> \/ at("inherited")) =>
              Held(asked(Len(stack))) /\ Good(asked(Len(stack)), reply)
    BY DEF IInv, Reading
  <2>2. \A i : asked(i)' = asked(i)
    BY <1>1 DEF asked, first_ask, next_ask, inherited_cap
  <2>3. UNCHANGED <<store, request>>
    BY <1>1 DEF store
  <2>4. ASSUME NEW i \in 1 .. Len(stack) PROVE FrameInv(stack[i], asked(i - 1))'
    <3>1. PICK f, a : f = stack[i] /\ a = asked(i - 1)
      OBVIOUS
    <3>2. FrameInv(f, a)'
      BY <2>1, <2>3, <3>1, SameRead
    <3> QED
      BY <1>1, <2>2, <3>1, <3>2
  <2>5. ASSUME Held(asked(Len(stack))), Good(asked(Len(stack)), reply)
        PROVE  Held(asked(Len(stack)))' /\ Good(asked(Len(stack)), reply)'
    <3>1. PICK a, batch : a = asked(Len(stack)) /\ batch = reply
      OBVIOUS
    <3>2. Held(a)' /\ Good(a, batch)'
      BY <2>3, <2>5, <3>1, SameRead
    <3> QED
      BY <1>1, <2>2, <3>1, <3>2
  <2>6. at("inherited")' => at("inherited")
    BY <1>1 DEF at, top
  <2> QED
    BY <1>1, <2>1, <2>4, <2>5, <2>6 DEF Reading
<1>6. Answered'
  BY <1>1 DEF IInv, Answered, GoodFor, Within, in_range, first_ask
<1> QED
  BY <1>2, <1>3, <1>4, <1>5, <1>6 DEF IInv

LEMMA Inductive == IInv /\ [Next]_vars => IInv'
<1> SUFFICES ASSUME IInv, [Next]_vars PROVE IInv'
  OBVIOUS
<1>1. ASSUME NEW s \in Streams, handle_put(s) PROVE IInv'
  BY <1>1, HandlePutStep
<1>2. ASSUME NEW s \in Streams, create_fork(s) PROVE IInv'
  BY <1>2, CreateForkStep
<1>3. ASSUME NEW s \in Streams, append_message(s) PROVE IInv'
  BY <1>3, AppendMessageStep
<1>4. ASSUME NEW s \in Streams, handle_delete(s) PROVE IInv'
  BY <1>4, HandleDeleteStep
<1>5. ASSUME NEW s \in Streams, fork_release(s) PROVE IInv'
  BY <1>5, ForkReleaseStep
<1>6. ASSUME NEW s \in Streams, read_snapshot(s) PROVE IInv'
  BY <1>6, ReadSnapshotStep
<1>7. ASSUME NEW s \in Streams, create_fork_read(s) PROVE IInv'
  BY <1>7, CreateForkReadStep
<1>8. CASE ReadRange
  BY <1>8, ReadRangeStep
<1>9. CASE inherited
  BY <1>9, InheritedStep
<1>10. CASE lengths
  BY <1>10, LengthsStep
<1>11. CASE rows
  BY <1>11, RowsStep
<1>12. CASE read_snapshot_fresh
  BY <1>12, ReadSnapshotFreshStep
<1>13. CASE create_fork_prefix
  BY <1>13, CreateForkPrefixStep
<1>14. CASE UNCHANGED vars
  BY <1>14, Stutter
<1> QED
  BY <1>1, <1>2, <1>3, <1>4, <1>5, <1>6, <1>7, <1>8, <1>9, <1>10, <1>11, <1>12, <1>13, <1>14
  DEF Next

LEMMA Always == Spec => []IInv
<1>1. Init => IInv
  BY Initially
<1>2. IInv /\ [Next]_vars => IInv'
  BY Inductive
<1> QED
  BY <1>1, <1>2, PTL DEF Spec

(* What an answer is asked for has no end: it is all beyond an offset. *)
LEMMA AnswersWant ==
    ASSUME IInv, answer # None
    PROVE  Within(first_ask(answer.request)) = Wanted(answer)
<1>1. PICK r : r = answer.request
  OBVIOUS
<1>2. r.generation \in 1 .. MaxGeneration /\ r.after \in Int
  BY <1>1 DEF IInv, TypeOK, Request
<1>3. \A m \in log[r.generation] : m.offset \in Nat
  BY <1>2 DEF IInv, TypeOK, Message
<1>4. Within(first_ask(r)) = {m \in log[r.generation] : r.after < m.offset}
  BY DEF Within, first_ask, in_range
<1>5. \A m \in log[r.generation] : r.after < m.offset <=> m.offset > r.after
  BY <1>2, <1>3
<1>6. Wanted(answer) = {m \in log[r.generation] : m.offset > r.after}
  BY <1>1 DEF Wanted, beyond
<1> QED
  BY <1>1, <1>4, <1>5, <1>6

(* Every call of read_stitched carries a limit, a budget and offsets that   *)
(* ReadRange may be given, whatever became of the streams meanwhile, and    *)
(* the rows of a stream are of its generation and beyond its fork offset.   *)
THEOREM StitchedTypeCorrect == Spec => []TypeOK
<1>1. IInv => TypeOK
  BY DEF IInv
<1> QED
  BY <1>1, Always, PTL

(* A batch that a chain of forks has put together is a gapless, ordered run *)
(* of the stream's own history from the offset asked for, for chains of any *)
(* depth and however streams were appended to, deleted and created again    *)
(* while the levels were asked (read_stitched, ReadRange, read_snapshot).   *)
THEOREM BatchesAreStitchedWhole == Spec => []StitchedWhole
<1>1. IInv => StitchedWhole
  <2> SUFFICES ASSUME IInv, answer # None PROVE StitchedWhole
    BY DEF StitchedWhole
  <2> DEFINE W == Within(first_ask(answer.request))
             b == answer.batch.messages
  <2>1. /\ Lists(b, ToSet(b)) /\ ToSet(b) \subseteq W
        /\ \A m \in W, x \in ToSet(b) : m.offset <= x.offset => m \in ToSet(b)
    BY DEF IInv, Answered, GoodFor
  <2>2. ascending(b)
    BY <2>1 DEF Lists
  <2>3. W = Wanted(answer)
    BY AnswersWant
  <2> HIDE DEF W, b
  <2>4. \A m \in Wanted(answer), x \in ToSet(b) : m.offset <= x.offset => m \in ToSet(b)
    BY <2>1, <2>3
  <2> QED
    BY <2>1, <2>2, <2>3, <2>4 DEF StitchedWhole, b
<1> QED
  BY <1>1, Always, PTL

(* A batch that is not marked as cut short has everything the stream held   *)
(* up to its tail when the read began: Stream-Up-To-Date is never a promise *)
(* made on behalf of a source that was cut short (read_stitched).           *)
THEOREM UncappedBatchesReachTheTail == Spec => []UncappedReachesTail
<1>1. IInv => UncappedReachesTail
  <2> SUFFICES ASSUME IInv, answer # None, ~answer.batch.capped PROVE UncappedReachesTail
    BY DEF UncappedReachesTail
  <2> DEFINE W == Within(first_ask(answer.request))
  <2>1. \A m \in W : m.offset <= answer.request.tail => m \in ToSet(answer.batch.messages)
    BY DEF IInv, Answered, GoodFor
  <2>2. W = Wanted(answer)
    BY AnswersWant
  <2> HIDE DEF W
  <2> QED
    BY <2>1, <2>2 DEF UncappedReachesTail
<1> QED
  BY <1>1, Always, PTL

(* A batch that is cut short is never empty, so a client that reads on from *)
(* where it ended gets on, wherever in the chain the limit or the budget    *)
(* ran out (read_stitched, read_messages_range).                            *)
THEOREM CappedBatchesAdvance == Spec => []CappedAdvances
<1>1. IInv => CappedAdvances
  BY DEF IInv, Answered, GoodFor, CappedAdvances
<1> QED
  BY <1>1, Always, PTL

(* All levels of a chain together return no more rows than the limit and,   *)
(* but for a single larger message, no more bytes than the budget           *)
(* (read_stitched hands down what is left of them).                         *)
THEOREM BatchesAreWithinBudget == Spec => []WithinBudget
<1>1. IInv => WithinBudget
  BY DEF IInv, Answered, GoodFor, WithinBudget
<1> QED
  BY <1>1, Always, PTL

-----------------------------------------------------------------------------
(* The data of a message is values with a comma behind each of them. *)

Alternates(data) ==
    /\ data # <<>> /\ Len(data) % 2 = 0
    /\ \A i \in 1 .. Len(data) : data[i] = Comma <=> i % 2 = 0

LEMMA PostAlternates ==
    ASSUME NEW n \in Nat \ {0}, NEW values, Len(values) = n,
           \A i \in 1 .. n : values[i] # Comma
    PROVE  Alternates(process_json_append(values))
<1> DEFINE d == process_json_append(values)
<1>1. d = [i \in 1 .. 2 * n |-> IF i % 2 = 1 THEN values[(i + 1) \div 2] ELSE Comma]
  BY DEF process_json_append
<1>2. Len(d) = 2 * n /\ (2 * n) % 2 = 0 /\ 2 * n > 0
  BY <1>1
<1>3. ASSUME NEW i \in 1 .. 2 * n PROVE d[i] = Comma <=> i % 2 = 0
  <2>1. CASE i % 2 = 0
    BY <1>1, <2>1
  <2>2. CASE i % 2 = 1
    <3>1. (i + 1) \div 2 \in 1 .. n
      BY <2>2
    <3>2. d[i] = values[(i + 1) \div 2]
      BY <1>1, <2>2
    <3> QED
      BY <2>2, <3>1, <3>2
  <2> QED
    BY <2>1, <2>2
<1>4. d # <<>>
  BY <1>2
<1> HIDE DEF d
<1>5. Alternates(d)
  BY <1>2, <1>3, <1>4 DEF Alternates
<1> QED
  BY <1>5 DEF d

LEMMA CutOut ==
    ASSUME NEW s \in Seq(Token), NEW a \in Nat \ {0}, NEW b \in Nat,
           a <= b + 1, b <= Len(s)
    PROVE  /\ SubSeq(s, a, b) \in Seq(Token) /\ Len(SubSeq(s, a, b)) = b - a + 1
           /\ \A i \in 1 .. b - a + 1 : SubSeq(s, a, b)[i] = s[a + i - 1]
<1>1. Len(s) \in Nat
  BY LenProperties
<1>2. \A i \in a .. b : s[i] \in Token
  BY <1>1
<1>3. a \in Int /\ b \in Int
  OBVIOUS
<1>4. /\ SubSeq(s, a, b) \in Seq(Token)
      /\ Len(SubSeq(s, a, b)) = IF a <= b THEN b - a + 1 ELSE 0
      /\ \A i \in 1 .. b - a + 1 : SubSeq(s, a, b)[i] = s[a + i - 1]
  BY <1>2, <1>3, SubSeqProperties
<1>5. (IF a <= b THEN b - a + 1 ELSE 0) = b - a + 1
  OBVIOUS
<1> QED
  BY <1>4, <1>5

(* What flattening makes of the fragments of a batch is to the values what  *)
(* the data of one message is to its values.                                *)
Pairs(d, v) ==
    /\ d \in Seq(Token) /\ v \in Seq(Token) /\ Len(d) = 2 * Len(v)
    /\ \A i \in 1 .. Len(v) : d[2 * i - 1] = v[i] /\ v[i] # Comma /\ d[2 * i] = Comma

LEMMA PairsOfOne ==
    ASSUME NEW d \in Seq(Token), Alternates(d)
    PROVE  Pairs(d, values_of(d))
<1> DEFINE v == values_of(d)
<1>1. PICK n : n = Len(d) \div 2
  OBVIOUS
<1>2. Len(d) \in Nat
  BY LenProperties
<1>3. n \in Nat /\ Len(d) = 2 * n
  BY <1>1, <1>2 DEF Alternates
<1>4. \A i \in 1 .. n : 2 * i - 1 \in 1 .. Len(d) /\ 2 * i \in 1 .. Len(d)
  BY <1>3
<1>5. v = [i \in 1 .. n |-> d[2 * i - 1]]
  BY <1>1 DEF values_of
<1>6. \A i \in 1 .. n : d[2 * i - 1] \in Token
  BY <1>4
<1>7. v \in Seq(Token) /\ Len(v) = n /\ \A i \in 1 .. n : v[i] = d[2 * i - 1]
  BY <1>3, <1>5, <1>6
<1> HIDE DEF v
<1>8. ASSUME NEW i \in 1 .. n PROVE v[i] # Comma /\ d[2 * i] = Comma
  <2>1. (2 * i - 1) % 2 # 0 /\ (2 * i) % 2 = 0
    BY <1>3
  <2>2. d[2 * i - 1] # Comma /\ d[2 * i] = Comma
    BY <1>4, <2>1 DEF Alternates
  <2> QED
    BY <1>7, <2>2
<1>9. Pairs(d, v)
  BY <1>3, <1>7, <1>8 DEF Pairs
<1> QED
  BY <1>9 DEF v

LEMMA PairsConcat ==
    ASSUME NEW d, NEW v, NEW e, NEW w, Pairs(d, v), Pairs(e, w)
    PROVE  Pairs(d \o e, v \o w)
<1>1. PICK m, n : m = Len(v) /\ n = Len(w)
  OBVIOUS
<1>2. /\ d \in Seq(Token) /\ v \in Seq(Token) /\ e \in Seq(Token) /\ w \in Seq(Token)
      /\ m \in Nat /\ n \in Nat /\ Len(d) = 2 * m /\ Len(e) = 2 * n
  BY <1>1, LenProperties DEF Pairs
<1>3. PICK a, b : a = d \o e /\ b = v \o w
  OBVIOUS
<1>4. /\ a \in Seq(Token) /\ Len(a) = 2 * m + 2 * n
      /\ \A i \in 1 .. 2 * m + 2 * n :
            a[i] = IF i <= 2 * m THEN d[i] ELSE e[i - 2 * m]
  <2>1. PICK k, l : k = Len(d) /\ l = Len(e)
    OBVIOUS
  <2>2. /\ a \in Seq(Token) /\ Len(a) = k + l
        /\ \A i \in 1 .. k + l : a[i] = IF i <= k THEN d[i] ELSE e[i - k]
    BY <1>2, <1>3, <2>1, ConcatProperties
  <2>3. k = 2 * m /\ l = 2 * n
    BY <1>2, <2>1
  <2> QED
    BY <2>2, <2>3
<1>5. /\ b \in Seq(Token) /\ Len(b) = m + n
      /\ \A i \in 1 .. m + n : b[i] = IF i <= m THEN v[i] ELSE w[i - m]
  BY <1>1, <1>2, <1>3, ConcatProperties
<1>6. 2 * m + 2 * n = 2 * (m + n)
  BY <1>2
<1>7. ASSUME NEW i \in 1 .. m + n
      PROVE  a[2 * i - 1] = b[i] /\ b[i] # Comma /\ a[2 * i] = Comma
  <2>0. 2 * i - 1 \in 1 .. 2 * m + 2 * n /\ 2 * i \in 1 .. 2 * m + 2 * n
    BY <1>2
  <2>1. CASE i <= m
    <3>1. i \in 1 .. m /\ 2 * i - 1 <= 2 * m /\ 2 * i <= 2 * m
      BY <1>2, <2>1
    <3>2. a[2 * i - 1] = d[2 * i - 1] /\ a[2 * i] = d[2 * i] /\ b[i] = v[i]
      BY <1>4, <1>5, <2>0, <2>1, <3>1
    <3>3. d[2 * i - 1] = v[i] /\ v[i] # Comma /\ d[2 * i] = Comma
      BY <1>1, <3>1 DEF Pairs
    <3> QED
      BY <3>2, <3>3
  <2>2. CASE ~(i <= m)
    <3>1. PICK j : j = i - m
      OBVIOUS
    <3>2. /\ j \in 1 .. n /\ (2 * i - 1) - 2 * m = 2 * j - 1 /\ 2 * i - 2 * m = 2 * j
          /\ ~(2 * i - 1 <= 2 * m) /\ ~(2 * i <= 2 * m)
      BY <1>2, <2>2, <3>1
    <3>3. a[2 * i - 1] = e[2 * j - 1] /\ a[2 * i] = e[2 * j] /\ b[i] = w[j]
      <4>1. a[2 * i - 1] = e[(2 * i - 1) - 2 * m] /\ a[2 * i] = e[2 * i - 2 * m]
        BY <1>4, <2>0, <3>2
      <4>2. b[i] = w[i - m]
        BY <1>5, <2>2
      <4> QED
        BY <3>1, <3>2, <4>1, <4>2
    <3>4. e[2 * j - 1] = w[j] /\ w[j] # Comma /\ e[2 * j] = Comma
      BY <1>1, <3>2 DEF Pairs
    <3> QED
      BY <3>3, <3>4
  <2> QED
    BY <2>1, <2>2
<1>8. Pairs(a, b)
  BY <1>4, <1>5, <1>6, <1>7 DEF Pairs
<1> QED
  BY <1>3, <1>8

(* Without its last comma, such a fragment between brackets is an array of  *)
(* exactly its values.                                                      *)
LEMMA ArrayOfPairs ==
    ASSUME NEW d, NEW v, Pairs(d, v)
    PROVE  array_of(<<Open>> \o without_last_comma(d) \o <<Close>>) = v
<1> DEFINE rest == without_last_comma(d)
           tokens == <<Open>> \o rest \o <<Close>>
           inner == SubSeq(tokens, 2, Len(tokens) - 1)
<1>1. PICK n : n = Len(v)
  OBVIOUS
<1>2. d \in Seq(Token) /\ v \in Seq(Token) /\ n \in Nat /\ Len(d) = 2 * n
  BY <1>1, LenProperties DEF Pairs
<1>3. \A i \in 1 .. n : d[2 * i - 1] = v[i] /\ v[i] # Comma /\ d[2 * i] = Comma
  BY <1>1 DEF Pairs
<1>4. PICK e : e = IF n = 0 THEN 0 ELSE 2 * n - 1
  OBVIOUS
<1>5. e \in Nat /\ e <= 2 * n /\ (n = 0 => e = 0) /\ (n # 0 => e = 2 * n - 1)
  BY <1>2, <1>4
<1>6. /\ rest \in Seq(Token) /\ Len(rest) = e
      /\ \A i \in 1 .. e : rest[i] = d[i]
  <2>1. CASE n = 0
    <3>1. d = <<>>
      BY <1>2, <2>1, EmptySeq
    <3>2. rest = <<>>
      BY <3>1 DEF without_last_comma
    <3> QED
      BY <1>5, <2>1, <3>2
  <2>2. CASE n # 0
    <3>1. n \in 1 .. n /\ 2 * n # 0
      BY <1>2, <2>2
    <3>2. d[2 * n] = Comma
      BY <1>3, <3>1
    <3>3. d # <<>>
      BY <1>2, <3>1
    <3>4. rest = SubSeq(d, 1, Len(d) - 1)
      BY <1>2, <3>2, <3>3 DEF without_last_comma, Last, Front
    <3>5. rest = SubSeq(d, 1, e)
      BY <1>2, <1>5, <2>2, <3>4
    <3>6. /\ SubSeq(d, 1, e) \in Seq(Token) /\ Len(SubSeq(d, 1, e)) = e - 1 + 1
          /\ \A i \in 1 .. e - 1 + 1 : SubSeq(d, 1, e)[i] = d[1 + i - 1]
      BY <1>2, <1>5, CutOut
    <3>7. e - 1 + 1 = e /\ \A i \in 1 .. e : 1 + i - 1 = i
      BY <1>5
    <3> HIDE DEF rest
    <3> QED
      BY <3>5, <3>6, <3>7
  <2> QED
    BY <2>1, <2>2
<1> HIDE DEF rest
<1>7. Open \in Token /\ Close \in Token
  BY DEF Token
<1>8. /\ tokens \in Seq(Token) /\ Len(tokens) = e + 2
      /\ tokens[1] = Open /\ tokens[e + 2] = Close
      /\ \A i \in 1 .. e : tokens[i + 1] = d[i]
  BY <1>5, <1>6, <1>7
<1> HIDE DEF tokens
<1>9. Head(tokens) = Open /\ Last(tokens) = Close
  <2>1. tokens # <<>> /\ Head(tokens) = tokens[1]
    BY <1>5, <1>8
  <2> QED
    BY <1>8, <2>1 DEF Last
<1>10. inner \in Seq(Token) /\ Len(inner) = e /\ \A i \in 1 .. e : inner[i] = d[i]
  <2>1. e \in Nat /\ Len(tokens) - 1 = e + 1 /\ e + 1 <= Len(tokens)
    BY <1>5, <1>8
  <2>2. /\ SubSeq(tokens, 2, e + 1) \in Seq(Token)
        /\ Len(SubSeq(tokens, 2, e + 1)) = e + 1 - 2 + 1
        /\ \A i \in 1 .. e + 1 - 2 + 1 : SubSeq(tokens, 2, e + 1)[i] = tokens[2 + i - 1]
    BY <1>8, <2>1, CutOut
  <2>3. inner = SubSeq(tokens, 2, e + 1)
    BY <2>1
  <2>4. e + 1 - 2 + 1 = e /\ \A i \in 1 .. e : 2 + i - 1 = i + 1
    BY <2>1
  <2> HIDE DEF inner
  <2> QED
    BY <1>8, <2>2, <2>3, <2>4
<1> HIDE DEF inner
<1>11. DOMAIN inner = 1 .. e
  BY <1>10, LenProperties
<1>12. inner = <<>> \/ Len(inner) % 2 = 1
  <2>1. CASE n = 0
    BY <1>5, <1>10, <2>1, EmptySeq
  <2>2. CASE n # 0
    BY <1>2, <1>5, <1>10, <2>2
  <2> QED
    BY <2>1, <2>2
<1>13. ASSUME NEW i \in 1 .. e PROVE inner[i] = Comma <=> i % 2 = 0
  <2>1. CASE i % 2 = 0
    <3>1. PICK j \in 1 .. n : i = 2 * j
      <4>1. i \div 2 \in 1 .. n /\ i = 2 * (i \div 2)
        BY <1>2, <1>5, <2>1
      <4> QED
        BY <4>1
    <3>2. d[i] = Comma
      BY <1>3, <3>1
    <3> QED
      BY <1>10, <2>1, <3>2
  <2>2. CASE i % 2 # 0
    <3>1. PICK j \in 1 .. n : i = 2 * j - 1
      <4>1. (i + 1) \div 2 \in 1 .. n /\ i = 2 * ((i + 1) \div 2) - 1
        BY <1>2, <1>5, <2>2
      <4> QED
        BY <4>1
    <3>2. d[i] # Comma
      BY <1>3, <3>1
    <3> QED
      BY <1>10, <2>2, <3>2
  <2> QED
    BY <2>1, <2>2
<1>14. array_of(tokens) = [i \in 1 .. (Len(inner) + 1) \div 2 |-> inner[2 * i - 1]]
  BY <1>9, <1>11, <1>12, <1>13 DEF array_of, inner
<1>15. (Len(inner) + 1) \div 2 = n
  BY <1>2, <1>5, <1>10
<1>16. ASSUME NEW i \in 1 .. n PROVE inner[2 * i - 1] = v[i]
  <2>1. 2 * i - 1 \in 1 .. e
    BY <1>2, <1>5
  <2> QED
    BY <1>3, <1>10, <2>1
<1>17. array_of(tokens) = [i \in 1 .. n |-> v[i]]
  BY <1>14, <1>15, <1>16
<1>18. v = [i \in 1 .. n |-> v[i]]
  BY <1>1, <1>2
<1> QED
  BY <1>17, <1>18 DEF tokens, rest

(* What create_fork parses of the message it cuts from.                     *)
LEMMA Parsed ==
    ASSUME NEW d \in Seq(Token), Alternates(d)
    PROVE  wrapped(d) = values_of(d)
<1>1. Pairs(d, values_of(d))
  BY PairsOfOne
<1>2. array_of(<<Open>> \o without_last_comma(d) \o <<Close>>) = values_of(d)
  BY <1>1, ArrayOfPairs
<1> QED
  BY <1>2 DEF wrapped

(* Flattening, step by step. *)
Runs(f, s, n) ==
    /\ f \in [1 .. n -> Seq(Token)] /\ f[1] = s[1]
    /\ \A i \in 2 .. n : f[i] = f[i - 1] \o s[i]

LEMMA RunsExist ==
    ASSUME NEW s \in Seq(Seq(Token)), NEW n \in 1 .. Len(s)
    PROVE  \E f : Runs(f, s, n)
<1> DEFINE S == {k \in Nat : k + 1 <= Len(s) => \E f : Runs(f, s, k + 1)}
<1>0. Len(s) \in Nat /\ \A i \in 1 .. Len(s) : s[i] \in Seq(Token)
  BY LenProperties
<1>1. 0 \in S
  <2> SUFFICES ASSUME 1 <= Len(s) PROVE \E f : Runs(f, s, 1)
    OBVIOUS
  <2> DEFINE f == [i \in 1 .. 1 |-> s[1]]
  <2>1. s[1] \in Seq(Token)
    BY <1>0
  <2>2. f \in [1 .. 1 -> Seq(Token)] /\ f[1] = s[1]
    BY <2>1
  <2>3. \A i \in 2 .. 1 : FALSE
    OBVIOUS
  <2> HIDE DEF f
  <2>4. Runs(f, s, 1)
    BY <2>2, <2>3 DEF Runs
  <2> QED
    BY <2>4
<1>2. ASSUME NEW k \in Nat, k \in S PROVE k + 1 \in S
  <2> SUFFICES ASSUME (k + 1) + 1 <= Len(s) PROVE \E f : Runs(f, s, (k + 1) + 1)
    OBVIOUS
  <2>1. PICK f : Runs(f, s, k + 1)
    BY <1>0, <1>2
  <2>2. PICK m : m = (k + 1) + 1
    OBVIOUS
  <2>3. m \in 2 .. Len(s) /\ m - 1 = k + 1 /\ m \in Nat
    BY <1>0, <2>2
  <2>4. f \in [1 .. m - 1 -> Seq(Token)] /\ f[1] = s[1]
    BY <2>1, <2>3 DEF Runs
  <2>5. \A i \in 2 .. m - 1 : f[i] = f[i - 1] \o s[i]
    BY <2>1, <2>3 DEF Runs
  <2>r. PICK run : run = f[m - 1] \o s[m]
    OBVIOUS
  <2> DEFINE g == [i \in 1 .. m |-> IF i = m THEN run ELSE f[i]]
  <2>6. s[m] \in Seq(Token) /\ f[m - 1] \in Seq(Token)
    BY <1>0, <2>3, <2>4
  <2>7. run \in Seq(Token)
    BY <2>6, <2>r
  <2>8. g \in [1 .. m -> Seq(Token)]
    <3>1. \A i \in 1 .. m : i # m => f[i] \in Seq(Token)
      BY <2>3, <2>4
    <3> QED
      BY <2>7, <3>1
  <2>9. g[1] = s[1] /\ g[m] = run /\ \A i \in 1 .. m - 1 : g[i] = f[i]
    <3>1. 1 \in 1 .. m /\ 1 # m /\ m \in 1 .. m
      BY <2>3
    <3>2. \A i \in 1 .. m - 1 : i \in 1 .. m /\ i # m
      BY <2>3
    <3> QED
      BY <2>4, <3>1, <3>2
  <2> HIDE DEF g
  <2>10. ASSUME NEW i \in 2 .. m PROVE g[i] = g[i - 1] \o s[i]
    <3>1. CASE i = m
      <4>1. m - 1 \in 1 .. m - 1
        BY <2>3
      <4>2. g[m] = f[m - 1] \o s[m] /\ g[m - 1] = f[m - 1]
        BY <2>9, <2>r, <4>1
      <4> QED
        BY <3>1, <4>2
    <3>2. CASE i # m
      <4>1. i \in 2 .. m - 1 /\ i \in 1 .. m - 1 /\ i - 1 \in 1 .. m - 1
        BY <2>3, <3>2
      <4> QED
        BY <2>5, <2>9, <4>1
    <3> QED
      BY <3>1, <3>2
  <2>11. Runs(g, s, m)
    BY <2>8, <2>9, <2>10 DEF Runs
  <2> QED
    BY <2>2, <2>11
<1>3. Nat \subseteq S
  <2> HIDE DEF S
  <2> QED BY <1>1, <1>2, Upward
<1>4. n - 1 \in Nat /\ (n - 1) + 1 = n /\ n <= Len(s)
  BY <1>0
<1>5. n - 1 \in S
  BY <1>3, <1>4
<1> QED
  BY <1>4, <1>5

LEMMA Flattened ==
    ASSUME NEW s \in Seq(Seq(Token)), NEW n, n = Len(s), n # 0
    PROVE  \E f : Runs(f, s, n) /\ FlattenSeq(s) = f[n]
<1> DEFINE Rec(f) == [i \in 1 .. Len(s) |-> IF i = 1 THEN s[i] ELSE f[i - 1] \o s[i]]
           flat == CHOOSE f : f = Rec(f)
<1>0. n \in Nat /\ n \in 1 .. n /\ \A i \in 1 .. n : s[i] \in Seq(Token)
  BY LenProperties
<1>1. PICK t : Runs(t, s, n)
  BY <1>0, RunsExist
<1>2. t = Rec(t)
  <2>1. t = [i \in 1 .. n |-> t[i]]
    BY <1>1 DEF Runs
  <2>2. ASSUME NEW i \in 1 .. n
        PROVE  t[i] = IF i = 1 THEN s[i] ELSE t[i - 1] \o s[i]
    <3>1. i = 1 \/ i \in 2 .. n
      BY <1>0
    <3>2. i = 1 => t[i] = s[i]
      BY <1>1 DEF Runs
    <3>3. i \in 2 .. n => t[i] = t[i - 1] \o s[i]
      BY <1>1 DEF Runs
    <3>4. i \in 2 .. n => i # 1
      BY <1>0
    <3> QED
      BY <3>1, <3>2, <3>3, <3>4
  <2> QED
    BY <2>1, <2>2
<1>3. flat = Rec(flat)
  BY <1>2
<1>4. FlattenSeq(s) = flat[n]
  BY DEF FlattenSeq
<1> HIDE DEF flat
<1>5. /\ DOMAIN flat = 1 .. n /\ flat[1] = s[1]
      /\ \A i \in 1 .. n : flat[i] = IF i = 1 THEN s[i] ELSE flat[i - 1] \o s[i]
  <2>1. PICK h : h = Rec(flat)
    OBVIOUS
  <2>2. /\ DOMAIN h = 1 .. n
        /\ \A i \in 1 .. n : h[i] = IF i = 1 THEN s[i] ELSE flat[i - 1] \o s[i]
    BY <2>1
  <2>3. flat = h
    BY <1>3, <2>1
  <2>4. h[1] = s[1]
    <3>1. 1 \in 1 .. n
      BY <1>0
    <3>2. h[1] = IF 1 = 1 THEN s[1] ELSE flat[1 - 1] \o s[1]
      BY <2>2, <3>1
    <3> QED
      BY <3>2
  <2> QED
    BY <2>2, <2>3, <2>4
<1>6. ASSUME NEW i \in 2 .. n PROVE flat[i] = flat[i - 1] \o s[i]
  <2>1. i \in 1 .. n /\ i # 1
    BY <1>0
  <2> QED
    BY <1>5, <2>1
<1>7. Runs(flat, s, n)
  <2> DEFINE S == {i \in Nat : i + 1 <= n => flat[i + 1] \in Seq(Token)}
  <2>1. 0 \in S
    BY <1>0, <1>5
  <2>2. ASSUME NEW i \in Nat, i \in S PROVE i + 1 \in S
    <3> SUFFICES ASSUME (i + 1) + 1 <= n PROVE flat[(i + 1) + 1] \in Seq(Token)
      OBVIOUS
    <3>1. PICK j : j = (i + 1) + 1
      OBVIOUS
    <3>2. j \in 2 .. n /\ j \in 1 .. n /\ j - 1 = i + 1 /\ i + 1 <= n
      BY <1>0, <3>1
    <3>3. flat[j - 1] \in Seq(Token) /\ s[j] \in Seq(Token)
      BY <1>0, <2>2, <3>2
    <3>4. flat[j] = flat[j - 1] \o s[j]
      BY <1>6, <3>2
    <3> QED
      BY <3>1, <3>3, <3>4
  <2>3. Nat \subseteq S
    <3> HIDE DEF S
    <3> QED BY <2>1, <2>2, Upward
  <2>4. \A i \in 1 .. n : flat[i] \in Seq(Token)
    <3> SUFFICES ASSUME NEW i \in 1 .. n PROVE flat[i] \in Seq(Token)
      OBVIOUS
    <3>1. i - 1 \in Nat /\ (i - 1) + 1 = i /\ i <= n
      BY <1>0
    <3>2. i - 1 \in S
      BY <2>3, <3>1
    <3> QED
      BY <3>1, <3>2
  <2>5. flat \in [1 .. n -> Seq(Token)]
    <3>1. flat = [i \in DOMAIN flat |-> flat[i]]
      BY <1>3
    <3> QED
      BY <1>5, <2>4, <3>1
  <2> QED
    BY <1>5, <1>6, <2>5 DEF Runs
<1> QED
  BY <1>4, <1>7

(* Flattening the fragments of a batch, and flattening their values.        *)
LEMMA FlattenedPairs ==
    ASSUME NEW s \in Seq(Seq(Token)), NEW u \in Seq(Seq(Token)), NEW n,
           n = Len(s), n = Len(u), \A i \in 1 .. n : Pairs(s[i], u[i])
    PROVE  Pairs(FlattenSeq(s), FlattenSeq(u))
<1>0. n \in Nat
  BY LenProperties
<1>1. CASE n = 0
  <2>1. FlattenSeq(s) = s /\ FlattenSeq(u) = u
    BY <1>1 DEF FlattenSeq
  <2>2. s = <<>> /\ u = <<>>
    BY <1>1, EmptySeq
  <2>3. Pairs(<<>>, <<>>)
    BY DEF Pairs
  <2> QED
    BY <2>1, <2>2, <2>3
<1>2. CASE n # 0
  <2>1. PICK f : Runs(f, s, n) /\ FlattenSeq(s) = f[n]
    BY <1>2, Flattened
  <2>2. PICK g : Runs(g, u, n) /\ FlattenSeq(u) = g[n]
    BY <1>2, Flattened
  <2> DEFINE S == {i \in Nat : i + 1 <= n => Pairs(f[i + 1], g[i + 1])}
  <2>3. 0 \in S
    <3>1. 1 \in 1 .. n /\ f[1] = s[1] /\ g[1] = u[1]
      BY <1>0, <1>2, <2>1, <2>2 DEF Runs
    <3>2. Pairs(f[1], g[1])
      BY <3>1
    <3> QED
      BY <3>2
  <2>4. ASSUME NEW i \in Nat, i \in S PROVE i + 1 \in S
    <3> SUFFICES ASSUME (i + 1) + 1 <= n PROVE Pairs(f[(i + 1) + 1], g[(i + 1) + 1])
      OBVIOUS
    <3>1. PICK j : j = (i + 1) + 1
      OBVIOUS
    <3>2. j \in 2 .. n /\ j \in 1 .. n /\ j - 1 = i + 1 /\ i + 1 <= n
      BY <1>0, <3>1
    <3>3. Pairs(f[j - 1], g[j - 1]) /\ Pairs(s[j], u[j])
      BY <2>4, <3>2
    <3>4. f[j] = f[j - 1] \o s[j] /\ g[j] = g[j - 1] \o u[j]
      BY <2>1, <2>2, <3>2 DEF Runs
    <3>5. Pairs(f[j - 1] \o s[j], g[j - 1] \o u[j])
      BY <3>3, PairsConcat
    <3> QED
      BY <3>1, <3>4, <3>5
  <2>5. Nat \subseteq S
    <3> HIDE DEF S
    <3> QED BY <2>3, <2>4, Upward
  <2>6. n - 1 \in Nat /\ (n - 1) + 1 = n /\ n <= n
    BY <1>0, <1>2
  <2>7. n - 1 \in S
    BY <2>5, <2>6
  <2>8. Pairs(f[n], g[n])
    BY <2>6, <2>7
  <2> QED
    BY <2>1, <2>2, <2>8
<1> QED
  BY <1>1, <1>2

-----------------------------------------------------------------------------
(* Sub-offsets.  All data alternate between values and commas, so what      *)
(* create_fork parses of a message are its values, and cutting some of them *)
(* off cuts the tokens.                                                     *)

(* The prefix that a sub-offset cuts off is that many values and commas.    *)
LEMMA PrefixCut ==
    ASSUME NEW d \in Seq(Token), Alternates(d), NEW n \in Nat \ {0},
           sub_offset_prefix(d, n) # Refused
    PROVE  /\ sub_offset_prefix(d, n) = SubSeq(d, 1, 2 * n)
           /\ Alternates(sub_offset_prefix(d, n))
<1> DEFINE w == wrapped(d)
           p == [i \in 1 .. n |-> w[i]]
           cut == SubSeq(d, 1, 2 * n)
<1>1. w # Refused /\ ~(n > Len(w)) /\ sub_offset_prefix(d, n) = process_json_append(p)
  BY DEF sub_offset_prefix
<1>2. Len(d) \in Nat
  BY LenProperties
<1>3. /\ w = [i \in 1 .. Len(d) \div 2 |-> d[2 * i - 1]]
      /\ \A i \in 1 .. Len(d) : d[i] = Comma <=> i % 2 = 0
  BY Parsed DEF values_of, Alternates
<1>4. Len(w) = Len(d) \div 2
  <2>1. Len(d) \div 2 \in Nat
    BY <1>2
  <2> HIDE DEF w
  <2> QED
    BY <1>3, <2>1
<1>5. n <= Len(d) \div 2 /\ 2 * n <= Len(d) /\ 2 * n \in Nat
  BY <1>1, <1>2, <1>4
<1>6. \A i \in 1 .. n : p[i] = d[2 * i - 1] /\ p[i] # Comma
  <2> SUFFICES ASSUME NEW i \in 1 .. n PROVE p[i] = d[2 * i - 1] /\ p[i] # Comma
    OBVIOUS
  <2>1. /\ i \in 1 .. Len(d) \div 2 /\ 2 * i - 1 \in 1 .. Len(d)
        /\ (2 * i - 1) % 2 # 0
    BY <1>2, <1>5
  <2>2. p[i] = d[2 * i - 1]
    BY <1>3, <2>1
  <2> QED
    BY <1>3, <2>1, <2>2
<1> HIDE DEF w
<1>7. Len(p) = n
  OBVIOUS
<1> HIDE DEF p
<1>8. process_json_append(p) =
         [i \in 1 .. 2 * n |-> IF i % 2 = 1 THEN p[(i + 1) \div 2] ELSE Comma]
  BY <1>7 DEF process_json_append
<1>9. \A i \in 1 .. 2 * n : (IF i % 2 = 1 THEN p[(i + 1) \div 2] ELSE Comma) = d[i]
  <2> SUFFICES ASSUME NEW i \in 1 .. 2 * n
               PROVE  (IF i % 2 = 1 THEN p[(i + 1) \div 2] ELSE Comma) = d[i]
    OBVIOUS
  <2>1. CASE i % 2 = 1
    <3>1. (i + 1) \div 2 \in 1 .. n /\ 2 * ((i + 1) \div 2) - 1 = i
      BY <2>1
    <3>2. p[(i + 1) \div 2] = d[i]
      BY <1>6, <3>1
    <3> QED
      BY <2>1, <3>2
  <2>2. CASE i % 2 # 1
    <3>1. i % 2 = 0 /\ i \in 1 .. Len(d)
      BY <1>2, <1>5, <2>2
    <3> QED
      BY <1>3, <2>2, <3>1
  <2> QED
    BY <2>1, <2>2
<1>10. process_json_append(p) = [i \in 1 .. 2 * n |-> d[i]]
  BY <1>8, <1>9
<1>11. cut = [i \in 1 .. 2 * n |-> d[i]]
  <2>1. 2 * n - 1 + 1 = 2 * n /\ \A i \in 1 .. 2 * n : 1 + i - 1 = i
    BY <1>5
  <2>2. /\ cut \in Seq(Token) /\ Len(cut) = 2 * n - 1 + 1
        /\ \A i \in 1 .. 2 * n - 1 + 1 : cut[i] = d[1 + i - 1]
    BY <1>5, CutOut
  <2> HIDE DEF cut
  <2>3. Len(cut) = 2 * n /\ \A i \in 1 .. 2 * n : cut[i] = d[i]
    BY <2>1, <2>2
  <2> QED
    BY <2>2, <2>3
<1>12. Alternates(process_json_append(p))
  BY <1>6, <1>7, PostAlternates
<1> QED
  BY <1>1, <1>10, <1>11, <1>12
(* What the history of every generation consists of, and what a fork at a   *)
(* sub-offset begins with: its source is still there, so the message it was *)
(* cut from is still the first one beyond the fork offset.                  *)
IsFirst(m, g, offset) ==
    m \in beyond(g, offset) /\ \A x \in beyond(g, offset) : m.offset <= x.offset

AllAlternate == \A g \in 1 .. MaxGeneration : \A m \in log[g] : Alternates(m.data)

CutFrom(m, n, row) ==
    /\ IsFirst(m, row.generation, row.fork_offset)
    /\ IsFirst(n, row.source_generation, row.fork_offset)
    /\ m.data = SubSeq(n.data, 1, 2 * row.fork_sub_offset)

Prefixed(s) ==
    meta[s] # None /\ meta[s].fork_sub_offset > 0 =>
        /\ meta[s].forked_from # None
        /\ \E m, n \in Message : CutFrom(m, n, meta[s])

PrefixInv == AllAlternate /\ \A s \in Streams : Prefixed(s)

(* The first message is the first for good: appends come after the tail.    *)
LEMMA FirstKept ==
    ASSUME StoreType, StoreInv, NEW s \in Streams, meta[s] # None, Kept(s),
           NEW g, g = meta[s].generation, NEW offset \in Nat,
           NEW m, IsFirst(m, g, offset)
    PROVE  IsFirst(m, g, offset)'
<1> DEFINE L == log[g]
           c == meta[s].current_offset
<1>1. /\ log'[g] \subseteq Message /\ L \subseteq log'[g]
      /\ \A x \in log'[g] : x \notin L => x.offset > c
  BY DEF Kept
<1>2. \A x \in L : x.offset <= c
  BY DEF StoreInv, History
<1>3. \A x \in log'[g] : x.offset \in Nat
  BY <1>1 DEF Message
<1>4. c \in Nat
  BY RowFacts
<1>5. m \in L /\ m.offset > offset /\ \A x \in L : x.offset > offset => m.offset <= x.offset
  BY DEF IsFirst, beyond
<1> HIDE DEF L, c
<1>6. m \in log'[g]
  BY <1>1, <1>5
<1>7. ASSUME NEW x \in log'[g], x.offset > offset PROVE m.offset <= x.offset
  <2>1. CASE x \in L
    BY <1>5, <1>7, <2>1
  <2>2. CASE x \notin L
    <3>1. m.offset <= c /\ x.offset > c
      BY <1>1, <1>2, <1>5, <2>2
    <3> QED
      BY <1>3, <1>4, <1>6, <3>1
  <2> QED
    BY <2>1, <2>2
<1> QED
  BY <1>5, <1>6, <1>7 DEF IsFirst, beyond

LEMMA PrefixKept ==
    ASSUME StoreType, StoreInv, StoreStep, NEW t \in Streams, Prefixed(t),
           meta[t] # None, meta'[t] # None,
           meta'[t].fork_sub_offset = meta[t].fork_sub_offset
    PROVE  Prefixed(t)'
<1> SUFFICES ASSUME meta'[t].fork_sub_offset > 0 PROVE Prefixed(t)'
  BY DEF Prefixed
<1>1. Kept(t)
  BY DEF StoreStep
<1> DEFINE u == meta[t].forked_from
<1>2. u # None /\ u \in Streams
  <2>1. u \in Streams \union {None}
    BY RowFacts
  <2> QED
    BY <2>1 DEF Prefixed
<1>3. meta[u] # None /\ meta[u].generation = meta[t].source_generation
  BY <1>2 DEF StoreInv, History, Source_of
<1>4. Kept(u)
  BY <1>2, <1>3 DEF StoreStep, pinned
<1>5. PICK m, n \in Message : CutFrom(m, n, meta[t])
  BY DEF Prefixed
<1>6. PICK g, h, o, k : /\ g = meta[t].generation /\ h = meta[t].source_generation
                        /\ o = meta[t].fork_offset /\ k = meta[t].fork_sub_offset
  OBVIOUS
<1>7. IsFirst(m, g, o) /\ IsFirst(n, h, o) /\ m.data = SubSeq(n.data, 1, 2 * k)
  BY <1>5, <1>6 DEF CutFrom
<1>8. o \in Nat
  BY <1>6, RowFacts
<1>9. IsFirst(m, g, o)'
  BY <1>1, <1>6, <1>7, <1>8, FirstKept
<1>10. IsFirst(n, h, o)'
  BY <1>2, <1>3, <1>4, <1>6, <1>7, <1>8, FirstKept
<1>11. /\ meta'[t].generation = g /\ meta'[t].source_generation = h
       /\ meta'[t].fork_offset = o /\ meta'[t].forked_from = u
       /\ meta'[t].fork_sub_offset = k
  BY <1>1, <1>6 DEF Kept
<1> HIDE DEF u
<1>12. CutFrom(m, n, meta[t])'
  BY <1>7, <1>9, <1>10, <1>11 DEF CutFrom
<1> QED
  BY <1>2, <1>11, <1>12 DEF Prefixed

(* It is enough to look at the stream that is created and at the new data.  *)
LEMMA PrefixStep ==
    ASSUME IInv, PrefixInv, StoreStep, NEW s \in Streams, AllAlternate',
           \A t \in Streams : t # s => meta'[t] = meta[t],
           meta[s] = None => Prefixed(s)',
           meta[s] # None /\ meta'[s] # None =>
              meta'[s].fork_sub_offset = meta[s].fork_sub_offset
    PROVE  PrefixInv'
<1>1. StoreType /\ StoreInv
  BY TypeParts DEF IInv
<1>2. ASSUME NEW t \in Streams PROVE Prefixed(t)'
  <2>1. CASE meta[t] = None
    BY <2>1 DEF Prefixed
  <2>2. CASE meta'[t] = None
    BY <2>2 DEF Prefixed
  <2>3. CASE meta[t] # None /\ meta'[t] # None
    <3>1. meta'[t].fork_sub_offset = meta[t].fork_sub_offset
      BY <2>3
    <3>2. Prefixed(t)
      BY DEF PrefixInv
    <3> QED
      BY <1>1, <2>3, <3>1, <3>2, PrefixKept
  <2> QED
    BY <2>1, <2>2, <2>3
<1> QED
  BY <1>2 DEF PrefixInv

LEMMA SameStorePrefix ==
    ASSUME PrefixInv, UNCHANGED store
    PROVE  PrefixInv'
<1>1. meta' = meta /\ log' = log
  BY DEF store
<1> QED
  BY <1>1 DEF PrefixInv, AllAlternate, Prefixed, CutFrom, IsFirst, beyond

(* What a stream that is created is. *)
LEMMA CreatedStream ==
    ASSUME StoreType, NEW s \in Streams, NEW from \in Streams \union {None},
           NEW offset, NEW given, NEW sub_offset, NEW prefix,
           create(s, from, offset, given, sub_offset, prefix)
    PROVE  /\ gens + 1 \in 1 .. MaxGeneration
           /\ meta'[s] # None => meta'[s].fork_sub_offset = sub_offset
           /\ meta'[s].generation = gens + 1 /\ meta'[s].forked_from = from
           /\ meta'[s].fork_offset = offset
           /\ from # None => meta'[s].source_generation = meta[from].generation
           /\ \A t \in Streams : t # s => meta'[t] = meta[t]
           /\ \A h \in 1 .. MaxGeneration : h # gens + 1 => log'[h] = log[h]
           /\ prefix = <<>> => log'[gens + 1] = given
           /\ prefix # <<>> =>
                 \E m : /\ m.data = prefix /\ m.offset = advance_offset(offset, prefix)
                        /\ m.generation = gens + 1
                        /\ m = [generation |-> gens + 1, data |-> prefix,
                                offset |-> advance_offset(offset, prefix)]
                        /\ log'[gens + 1] = given \union {m}
<1>1. PICK g, end, own, row :
         /\ g = gens + 1
         /\ end = (IF prefix = <<>> THEN offset ELSE advance_offset(offset, prefix))
         /\ own = (IF prefix = <<>> THEN {}
                   ELSE {[generation |-> g, offset |-> end, data |-> prefix]})
         /\ row = Row(g, from, offset, sub_offset, end)
  OBVIOUS
<1>2. /\ g <= MaxGeneration
      /\ meta' = [meta EXCEPT ![s] = row]
      /\ log' = [log EXCEPT ![g] = given \union own]
  BY <1>1 DEF create
<1>3. gens \in Nat /\ g \in 1 .. MaxGeneration
  BY <1>1, <1>2, LimitsArePositive DEF StoreType
<1>4. /\ meta'[s] = row /\ \A t \in Streams : t # s => meta'[t] = meta[t]
      /\ log'[g] = given \union own
      /\ \A h \in 1 .. MaxGeneration : h # g => log'[h] = log[h]
  BY <1>2, <1>3 DEF StoreType
<1>5. /\ row.fork_sub_offset = sub_offset /\ row.generation = g /\ row.forked_from = from
      /\ row.fork_offset = offset
      /\ from # None => row.source_generation = meta[from].generation
  BY <1>1 DEF Row
<1>6. prefix = <<>> => own = {}
  BY <1>1
<1>7. ASSUME prefix # <<>>
      PROVE  \E m : /\ m.data = prefix /\ m.offset = advance_offset(offset, prefix)
                    /\ m.generation = g
                    /\ m = [generation |-> g, data |-> prefix,
                            offset |-> advance_offset(offset, prefix)]
                    /\ own = {m}
  BY <1>1, <1>7
<1> QED
  BY <1>1, <1>3, <1>4, <1>5, <1>6, <1>7

LEMMA PutPrefix ==
    ASSUME IInv, PrefixInv, NEW s \in Streams, handle_put(s)
    PROVE  PrefixInv'
<1>1. PICK zero, nothing, empty : zero = 0 /\ nothing = {} /\ empty = <<>>
  OBVIOUS
<1>2. meta[s] = None /\ create(s, None, zero, nothing, zero, empty)
  BY <1>1 DEF handle_put, ZERO_OFFSET
<1>3. StoreType /\ StoreInv /\ zero \in Nat /\ empty \in Seq(Token)
  BY <1>1, TypeParts DEF IInv
<1>4. StoreStep
  BY <1>1, <1>2, <1>3, CreateEffect
<1>5. /\ meta'[s] # None => meta'[s].fork_sub_offset = 0
      /\ \A t \in Streams : t # s => meta'[t] = meta[t]
      /\ \A h \in 1 .. MaxGeneration : h # gens + 1 => log'[h] = log[h]
      /\ log'[gens + 1] = {}
  BY <1>1, <1>2, <1>3, CreatedStream
<1>6. AllAlternate'
  BY <1>5 DEF PrefixInv, AllAlternate
<1>7. Prefixed(s)'
  BY <1>5 DEF Prefixed
<1> QED
  BY <1>2, <1>4, <1>5, <1>6, <1>7, PrefixStep

LEMMA ForkPrefix ==
    ASSUME IInv, PrefixInv, NEW s \in Streams, create_fork(s)
    PROVE  PrefixInv'
<1> DEFINE from == Source[s]
<1>1. PICK zero, empty : zero = 0 /\ empty = <<>>
  OBVIOUS
<1>2. meta[s] = None /\ from # None /\ meta[from] # None
  BY DEF create_fork
<1>3. PICK offset \in offsets(from) :
         create(s, from, offset, upto(meta[from].generation, offset), zero, empty)
  BY <1>1 DEF create_fork
<1>4. StoreType /\ StoreInv
  BY TypeParts DEF IInv
<1>5. zero \in Nat /\ empty \in Seq(Token) /\ from \in Streams
  BY <1>1, <1>2, LimitsArePositive
<1> HIDE DEF from
<1>6. offset \in Nat /\ offset <= meta[from].current_offset
  BY <1>2, <1>4, <1>5, OffsetFacts
<1>7. PICK given : given = upto(meta[from].generation, offset)
  OBVIOUS
<1>8. create(s, from, offset, given, zero, empty)
  BY <1>3, <1>7
<1>9. StoreStep
  BY <1>2, <1>4, <1>5, <1>6, <1>7, <1>8, CreateEffect
<1>10. /\ meta'[s] # None => meta'[s].fork_sub_offset = 0
       /\ \A t \in Streams : t # s => meta'[t] = meta[t]
       /\ \A h \in 1 .. MaxGeneration : h # gens + 1 => log'[h] = log[h]
       /\ log'[gens + 1] = given
  BY <1>1, <1>4, <1>5, <1>8, CreatedStream
<1>11. \A m \in given : Alternates(m.data)
  <2>1. meta[from].generation \in 1 .. MaxGeneration
    BY <1>2, <1>4, <1>5, RowFacts
  <2> QED
    BY <1>7, <2>1 DEF PrefixInv, AllAlternate, upto
<1>12. AllAlternate'
  BY <1>10, <1>11 DEF PrefixInv, AllAlternate
<1>13. Prefixed(s)'
  BY <1>10 DEF Prefixed
<1> QED
  BY <1>2, <1>9, <1>10, <1>12, <1>13, PrefixStep

LEMMA AppendPrefix ==
    ASSUME IInv, PrefixInv, NEW s \in Streams, append_message(s)
    PROVE  PrefixInv'
<1>1. StoreType /\ StoreInv /\ meta[s] # None
  BY TypeParts DEF IInv, append_message
<1>2. StoreStep
  BY <1>1, AppendEffect
<1>3. PICK c, g : c = meta[s].current_offset /\ g = meta[s].generation
  OBVIOUS
<1>4. PICK n \in Sizes :
          LET h == meta[s].generation
              data == process_json_append(
                          [i \in 1 .. n |-> <<h, meta[s].current_offset, i>>])
              end == advance_offset(meta[s].current_offset, data)
              m == [generation |-> h, offset |-> end, data |-> data]
          IN  /\ meta' = [meta EXCEPT ![s].current_offset = end]
              /\ log' = [log EXCEPT ![h] = @ \union {m}]
  BY DEF append_message
<1>5. PICK data, m :
         /\ data = process_json_append([i \in 1 .. n |-> <<g, c, i>>])
         /\ m = [generation |-> g, offset |-> advance_offset(c, data), data |-> data]
         /\ meta' = [meta EXCEPT ![s].current_offset = advance_offset(c, data)]
         /\ log' = [log EXCEPT ![g] = @ \union {m}]
  BY <1>3, <1>4
<1>6. PICK values : values = [i \in 1 .. n |-> <<g, c, i>>]
  OBVIOUS
<1>7. Alternates(data) /\ m.data = data
  <2>1. n \in Nat \ {0}
    BY LimitsArePositive
  <2>2. Len(values) = n
    BY <1>6, <2>1
  <2>3. ASSUME NEW i \in 1 .. n PROVE values[i] # Comma
    <3>1. values[i] = <<g, c, i>>
      BY <1>6
    <3>2. Len(<<g, c, i>>) = 3 /\ Len(Comma) = 1
      BY DEF Comma
    <3> QED
      BY <3>1, <3>2
  <2>4. Alternates(process_json_append(values))
    BY <2>1, <2>2, <2>3, PostAlternates
  <2> QED
    BY <1>5, <1>6, <2>4
<1>8. g \in 1 .. MaxGeneration /\ meta[s] \in MetaRow
  BY <1>1, <1>3, RowFacts
<1>9. /\ log'[g] = log[g] \union {m}
      /\ \A h \in 1 .. MaxGeneration : h # g => log'[h] = log[h]
  BY <1>1, <1>5, <1>8 DEF StoreType
<1>10. AllAlternate'
  BY <1>7, <1>8, <1>9 DEF PrefixInv, AllAlternate
<1>11. /\ \A t \in Streams : t # s => meta'[t] = meta[t]
      /\ meta'[s].fork_sub_offset = meta[s].fork_sub_offset
  BY <1>1, <1>5, <1>8 DEF StoreType, MetaRow
<1> QED
  BY <1>1, <1>2, <1>10, <1>11, PrefixStep

LEMMA PurgePrefix ==
    ASSUME IInv, PrefixInv, NEW s \in Streams, meta[s] # None, ~pinned(s), purge(s),
           UNCHANGED gens
    PROVE  PrefixInv'
<1>1. StoreType /\ StoreInv
  BY TypeParts DEF IInv
<1>2. StoreStep
  BY <1>1, PurgeEffect
<1>3. PICK g : g = meta[s].generation
  OBVIOUS
<1>4. meta' = [meta EXCEPT ![s] = None] /\ log' = [log EXCEPT ![g] = {}]
  BY <1>3 DEF purge
<1>5. meta'[s] = None /\ \A t \in Streams : t # s => meta'[t] = meta[t]
  BY <1>1, <1>4 DEF StoreType
<1>6. \A h \in 1 .. MaxGeneration : log'[h] = {} \/ log'[h] = log[h]
  BY <1>1, <1>4 DEF StoreType
<1>7. AllAlternate'
  BY <1>6 DEF PrefixInv, AllAlternate
<1> QED
  BY <1>2, <1>5, <1>7, PrefixStep

LEMMA DeletePrefix ==
    ASSUME IInv, PrefixInv, NEW s \in Streams, handle_delete(s)
    PROVE  PrefixInv'
<1>1. StoreType /\ StoreInv /\ meta[s] # None /\ UNCHANGED gens
  BY TypeParts DEF IInv, handle_delete
<1>2. CASE pinned(s)
  <2>1. meta' = [meta EXCEPT ![s].soft_deleted = TRUE] /\ UNCHANGED <<messages, log, gens>>
    BY <1>2 DEF handle_delete
  <2>2. StoreStep
    BY <1>1, <2>1, SoftDeleteEffect
  <2>3. AllAlternate'
    BY <2>1 DEF PrefixInv, AllAlternate
  <2>4. meta[s] \in MetaRow
    BY <1>1, RowFacts
  <2>5. /\ \A t \in Streams : t # s => meta'[t] = meta[t]
        /\ meta'[s].fork_sub_offset = meta[s].fork_sub_offset
    BY <1>1, <2>1, <2>4 DEF StoreType, MetaRow
  <2> QED
    BY <1>1, <2>2, <2>3, <2>5, PrefixStep
<1>3. CASE ~pinned(s)
  BY <1>1, <1>3, PurgePrefix DEF handle_delete
<1> QED
  BY <1>2, <1>3

(* The message a fork is cut from: what its read returned first is the      *)
(* first message beyond the fork offset.                                    *)
LEMMA HeadIsFirst ==
    ASSUME IInv, finished, Fresh, reply.messages # <<>>, request.kind = "fork"
    PROVE  /\ Head(reply.messages) \in Message
           /\ IsFirst(Head(reply.messages), request.generation, request.after)
<1> DEFINE W == Within(first_ask(request))
           b == reply.messages
           g == request.generation
           o == request.after
<1>1. /\ reply \in Batch /\ request \in Request
      /\ Lists(b, ToSet(b)) /\ ToSet(b) \subseteq W
      /\ \A m \in W, x \in ToSet(b) : m.offset <= x.offset => m \in ToSet(b)
  BY FinishedIsGood DEF GoodFor
<1>2. W = {m \in log[g] : o < m.offset}
  BY DEF Within, first_ask, in_range
<1>3. /\ g \in 1 .. MaxGeneration /\ o \in Int /\ log[g] \subseteq Message
  BY <1>1 DEF Request, IInv, TypeOK
<1>4. \A m \in log[g] : m.offset \in Nat
  BY <1>3 DEF Message
<1>5. /\ b \in Seq(Message) /\ ascending(b) /\ b # <<>> /\ ToSet(b) = {b[i] : i \in DOMAIN b}
  BY <1>1 DEF Lists, ToSet
<1> HIDE DEF W, b, g, o
<1>6. Head(b) = b[1] /\ 1 \in DOMAIN b /\ b[1] \in Message
  BY <1>5
<1>7. b[1] \in ToSet(b) /\ b[1] \in log[g] /\ b[1].offset > o
  <2>1. b[1] \in ToSet(b)
    BY <1>5, <1>6
  <2>2. b[1] \in W
    BY <1>1, <2>1
  <2> QED
    BY <1>2, <1>3, <1>4, <2>1, <2>2
<1>8. ASSUME NEW x \in log[g], x.offset > o PROVE b[1].offset <= x.offset
  <2> SUFFICES ASSUME ~(b[1].offset <= x.offset) PROVE FALSE
    OBVIOUS
  <2>1. x.offset <= b[1].offset /\ x.offset < b[1].offset
    BY <1>4, <1>7
  <2>2. x \in W
    BY <1>2, <1>3, <1>4, <1>8
  <2>3. x \in ToSet(b)
    BY <1>1, <1>7, <2>1, <2>2 DEF b, W
  <2>4. PICK i \in DOMAIN b : x = b[i]
    BY <1>5, <2>3
  <2>5. i \in 1 .. Len(b) /\ Len(b) \in Nat
    BY <1>5
  <2>6. CASE i = 1
    BY <2>1, <2>4, <2>6, <1>4, <1>7
  <2>7. CASE i # 1
    <3>1. 1 < i
      BY <2>5, <2>7
    <3>2. b[1].offset < b[i].offset
      BY <1>5, <1>6, <3>1 DEF ascending
    <3> QED
      BY <2>1, <2>4, <3>2, <1>4, <1>7
  <2> QED
    BY <2>6, <2>7
<1>9. IsFirst(b[1], g, o)
  BY <1>7, <1>8 DEF IsFirst, beyond
<1> QED
  BY <1>6, <1>9 DEF b, g, o

LEMMA PrefixPrefix ==
    ASSUME IInv, PrefixInv, create_fork_prefix
    PROVE  PrefixInv'
<1>1. finished /\ request.kind = "fork" /\ request # None /\ reply # None
  BY DEF create_fork_prefix, finished
<1>2. StoreType /\ StoreInv /\ ReadType /\ RequestInv
  BY TypeParts DEF IInv
<1>3. /\ Fresh /\ request.child \in Streams /\ meta[request.child] = None
      /\ request.after \in Nat /\ request.after <= meta[request.stream].current_offset
  BY <1>1, <1>2 DEF RequestInv
<1>4. CASE UNCHANGED store
  BY <1>4, SameStorePrefix
<1>5. CASE ~UNCHANGED store
  <2>1. PICK k \in SubOffsets :
           LET prefix == sub_offset_prefix(Head(reply.messages).data, k)
           IN  /\ reply.messages # <<>> /\ prefix # Refused
               /\ create(request.child, request.stream, request.after,
                         upto(request.generation, request.after), k, prefix)
    BY <1>5 DEF create_fork_prefix
  <2>2. PICK n, s, from, offset, h, given, prefix, g :
           /\ n = Head(reply.messages) /\ s = request.child /\ from = request.stream
           /\ offset = request.after /\ h = request.generation
           /\ given = upto(h, offset) /\ prefix = sub_offset_prefix(n.data, k)
           /\ g = gens + 1
    OBVIOUS
  <2>3. /\ reply.messages # <<>> /\ prefix # Refused
        /\ create(s, from, offset, given, k, prefix)
    BY <2>1, <2>2
  <2>4. /\ s \in Streams /\ meta[s] = None /\ from \in Streams /\ from # None
        /\ offset \in Nat /\ offset <= meta[from].current_offset
        /\ meta[from] # None /\ meta[from].generation = h
        /\ given = upto(meta[from].generation, offset)
    BY <1>1, <1>2, <1>3, <2>2, TailIsNumber, StreamsAreNamed DEF Fresh
  <2>5. n \in Message /\ IsFirst(n, h, offset)
    BY <1>1, <1>3, <2>2, <2>3, HeadIsFirst
  <2>6. k \in Nat \ {0} /\ n.data \in Seq(Token) /\ h \in 1 .. MaxGeneration
    BY <1>2, <2>4, <2>5, RowFacts, LimitsArePositive DEF Message
  <2>7. n \in log[h]
    BY <2>5 DEF IsFirst, beyond
  <2>8. Alternates(n.data)
    BY <2>6, <2>7 DEF PrefixInv, AllAlternate
  <2>9. prefix = SubSeq(n.data, 1, 2 * k) /\ Alternates(prefix) /\ prefix \in Seq(Token)
    BY <2>2, <2>3, <2>6, <2>8, PrefixCut, PrefixTokens
  <2>10. prefix # <<>>
    BY <2>9 DEF Alternates
  <2>11. StoreStep
    BY <1>2, <2>3, <2>4, <2>6, <2>9, CreateEffect
  <2>12. /\ gens + 1 \in 1 .. MaxGeneration
         /\ meta'[s] # None => meta'[s].fork_sub_offset = k
         /\ meta'[s].generation = gens + 1 /\ meta'[s].forked_from = from
         /\ meta'[s].fork_offset = offset
         /\ meta'[s].source_generation = h
         /\ \A t \in Streams : t # s => meta'[t] = meta[t]
         /\ \A x \in 1 .. MaxGeneration : x # gens + 1 => log'[x] = log[x]
    BY <1>2, <2>3, <2>4, CreatedStream
  <2>13. PICK m : /\ m.data = prefix /\ m.offset = advance_offset(offset, prefix)
                  /\ m.generation = gens + 1
                  /\ m = [generation |-> gens + 1, data |-> prefix,
                          offset |-> advance_offset(offset, prefix)]
                  /\ log'[gens + 1] = given \union {m}
    BY <1>2, <2>3, <2>4, <2>10, CreatedStream
  <2>14. m \in Message
    BY <2>4, <2>9, <2>12, <2>13, Advances DEF Message
  <2>15. m.offset > offset /\ m.offset \in Nat
    BY <2>4, <2>9, <2>13, Advances
  <2>16. \A x \in given : x.offset \in Nat /\ x.offset <= offset /\ Alternates(x.data)
    <3>1. log[h] \subseteq Message
      BY <2>6, <1>2 DEF StoreType
    <3> QED
      BY <2>2, <2>6, <3>1 DEF upto, PrefixInv, AllAlternate, Message
  <2>17. AllAlternate'
    BY <2>9, <2>12, <2>13, <2>16 DEF PrefixInv, AllAlternate
  <2>18. IsFirst(m, g, offset)'
    <3>1. {x \in log'[g] : x.offset > offset} = {m}
      BY <2>2, <2>4, <2>13, <2>15, <2>16
    <3> QED
      BY <2>15, <3>1 DEF IsFirst, beyond
  <2>19. IsFirst(n, h, offset)'
    <3>1. h <= gens /\ h # gens + 1
      BY <1>1, <1>2, <2>2, <2>6, LimitsArePositive DEF RequestInv, StoreType
    <3>2. log'[h] = log[h]
      BY <2>6, <2>12, <3>1
    <3> QED
      BY <2>5, <3>2 DEF IsFirst, beyond
  <2>20. Prefixed(s)'
    <3> SUFFICES ASSUME meta'[s] # None PROVE Prefixed(s)'
      BY DEF Prefixed
    <3>1. CutFrom(m, n, meta[s])'
      <4>1. /\ meta'[s].generation = g /\ meta'[s].source_generation = h
            /\ meta'[s].fork_offset = offset /\ meta'[s].fork_sub_offset = k
        BY <2>2, <2>12
      <4>2. m.data = SubSeq(n.data, 1, 2 * k)
        BY <2>9, <2>13
      <4> QED
        BY <2>18, <2>19, <4>1, <4>2 DEF CutFrom
    <3> QED
      BY <2>4, <2>5, <2>12, <2>14, <3>1 DEF Prefixed
  <2> QED
    BY <2>4, <2>11, <2>12, <2>17, <2>20, PrefixStep
<1> QED
  BY <1>4, <1>5

LEMMA PrefixInductive == IInv /\ PrefixInv /\ [Next]_vars => PrefixInv'
<1> SUFFICES ASSUME IInv, PrefixInv, [Next]_vars PROVE PrefixInv'
  OBVIOUS
<1>1. ASSUME NEW s \in Streams, handle_put(s) PROVE PrefixInv'
  BY <1>1, PutPrefix
<1>2. ASSUME NEW s \in Streams, create_fork(s) PROVE PrefixInv'
  BY <1>2, ForkPrefix
<1>3. ASSUME NEW s \in Streams, append_message(s) PROVE PrefixInv'
  BY <1>3, AppendPrefix
<1>4. ASSUME NEW s \in Streams, handle_delete(s) PROVE PrefixInv'
  BY <1>4, DeletePrefix
<1>5. ASSUME NEW s \in Streams, fork_release(s) PROVE PrefixInv'
  BY <1>5, PurgePrefix DEF fork_release
<1>6. ASSUME NEW s \in Streams, read_snapshot(s) PROVE PrefixInv'
  BY <1>6, SameStorePrefix DEF read_snapshot, serve
<1>7. ASSUME NEW s \in Streams, create_fork_read(s) PROVE PrefixInv'
  BY <1>7, SameStorePrefix DEF create_fork_read, serve
<1>8. CASE ReadRange
  BY <1>8, SameStorePrefix DEF ReadRange
<1>9. CASE inherited
  BY <1>9, SameStorePrefix DEF inherited
<1>10. CASE lengths
  BY <1>10, SameStorePrefix DEF lengths
<1>11. CASE rows
  BY <1>11, SameStorePrefix DEF rows
<1>12. CASE read_snapshot_fresh
  BY <1>12, SameStorePrefix DEF read_snapshot_fresh
<1>13. CASE create_fork_prefix
  BY <1>13, PrefixPrefix
<1>14. CASE UNCHANGED vars
  BY <1>14, SameStorePrefix DEF vars
<1> QED
  BY <1>1, <1>2, <1>3, <1>4, <1>5, <1>6, <1>7, <1>8, <1>9, <1>10, <1>11, <1>12, <1>13, <1>14
  DEF Next

(* There is only one first message. *)
LEMMA OneFirst ==
    ASSUME StoreType, StoreInv, NEW s \in Streams, meta[s] # None,
           NEW g, g = meta[s].generation, NEW offset, NEW m, IsFirst(m, g, offset)
    PROVE  following(g, offset) = m
<1> DEFINE B == beyond(g, offset)
           x == following(g, offset)
<1>1. /\ m \in B /\ \A n \in B : m.offset <= n.offset
  BY DEF IsFirst
<1>2. x = CHOOSE y \in B : \A n \in B : y.offset <= n.offset
  BY DEF following
<1>3. B \subseteq log[g]
  BY DEF beyond
<1>4. Distinct(log[g]) /\ \A n \in log[g] : n.offset \in Nat
  BY RowFacts DEF StoreInv, History
<1> HIDE DEF B, x
<1>5. x \in B /\ \A n \in B : x.offset <= n.offset
  BY <1>1, <1>2
<1>6. x.offset = m.offset
  <2>1. x.offset <= m.offset /\ m.offset <= x.offset
    BY <1>1, <1>5
  <2> QED
    BY <1>1, <1>3, <1>4, <1>5, <2>1
<1>7. x = m
  BY <1>1, <1>3, <1>4, <1>5, <1>6 DEF Distinct
<1> QED
  BY <1>7 DEF x

LEMMA SubOffsetInvariant == Spec => []PrefixInv
<1>1. Init => PrefixInv
  BY DEF Init, PrefixInv, AllAlternate, Prefixed
<1>2. IInv /\ PrefixInv /\ [Next]_vars => PrefixInv'
  BY PrefixInductive
<1> QED
  BY <1>1, <1>2, Always, PTL DEF Spec

(* A fork at a sub-offset begins with exactly that many values of the       *)
(* message that follows the fork offset in its source, for as long as the   *)
(* fork exists, whatever is appended to or becomes of the source and of the *)
(* chain behind it while create_fork reads the message (create_fork).       *)
THEOREM SubOffsetsAreOfTheSource == Spec => []SubOffsetOfSource
<1>1. IInv /\ PrefixInv => SubOffsetOfSource
  <2> SUFFICES ASSUME IInv, PrefixInv, NEW f \in Streams,
                      meta[f] # None, meta[f].fork_sub_offset > 0
               PROVE  following(meta[f].generation, meta[f].fork_offset).data =
                         SubSeq(following(meta[f].source_generation,
                                          meta[f].fork_offset).data,
                                1, 2 * meta[f].fork_sub_offset)
    BY DEF SubOffsetOfSource
  <2>1. StoreType /\ StoreInv
    BY TypeParts DEF IInv
  <2>2. meta[f].forked_from # None
    BY DEF PrefixInv, Prefixed
  <2>3. PICK m, n \in Message : CutFrom(m, n, meta[f])
    BY DEF PrefixInv, Prefixed
  <2>4. PICK u : u = meta[f].forked_from
    OBVIOUS
  <2>5. u \in Streams
    BY <2>1, <2>2, <2>4, RowFacts
  <2>6. meta[u] # None /\ meta[u].generation = meta[f].source_generation
    BY <2>1, <2>2, <2>4 DEF StoreInv, History, Source_of
  <2>7. following(meta[f].generation, meta[f].fork_offset) = m
    BY <2>1, <2>3, OneFirst DEF CutFrom
  <2>8. following(meta[f].source_generation, meta[f].fork_offset) = n
    BY <2>1, <2>3, <2>5, <2>6, OneFirst DEF CutFrom
  <2> QED
    BY <2>3, <2>7, <2>8 DEF CutFrom
<1> QED
  BY <1>1, SubOffsetInvariant, Always, PTL

(* The messages of an answer, as fragments, alternate like all data do.     *)
LEMMA AnswerPairs ==
    ASSUME IInv, PrefixInv, answer # None, NEW b, b = answer.batch.messages
    PROVE  /\ b \in Seq(Message) /\ DOMAIN b = 1 .. Len(b) /\ Len(b) \in Nat
           /\ \A i \in 1 .. Len(b) : Pairs(b[i].data, values_of(b[i].data))
<1>1. PICK W : W = Within(first_ask(answer.request))
  OBVIOUS
<1>2. Lists(b, ToSet(b)) /\ ToSet(b) \subseteq W
  BY <1>1 DEF IInv, Answered, GoodFor
<1>3. b \in Seq(Message) /\ Len(b) \in Nat /\ DOMAIN b = 1 .. Len(b)
  BY <1>2, LenProperties DEF Lists
<1>4. PICK g : g = answer.request.generation
  OBVIOUS
<1>5. g \in 1 .. MaxGeneration
  BY <1>4 DEF IInv, TypeOK, Request
<1>6. W \subseteq log[g]
  BY <1>1, <1>4 DEF Within, first_ask
<1>7. ASSUME NEW i \in 1 .. Len(b) PROVE Pairs(b[i].data, values_of(b[i].data))
  <2>1. b[i] \in ToSet(b)
    BY <1>3 DEF ToSet
  <2>2. b[i] \in log[g] /\ b[i] \in Message
    BY <1>2, <1>3, <1>6, <2>1
  <2>3. Alternates(b[i].data) /\ b[i].data \in Seq(Token)
    BY <1>5, <2>2 DEF PrefixInv, AllAlternate, Message
  <2> QED
    BY <2>3, PairsOfOne
<1> QED
  BY <1>3, <1>7

(* Whatever a batch was stitched from, its body parses as one JSON array,   *)
(* of exactly the values that were posted, in order: every fragment brings  *)
(* the commas behind its values and only the last one is taken away         *)
(* (build_read_response, format_json_messages).                             *)
THEOREM BodiesAreOneArray == Spec => []BodyIsOneArray
<1>1. IInv /\ PrefixInv => BodyIsOneArray
  <2> SUFFICES ASSUME IInv, PrefixInv, answer # None PROVE BodyIsOneArray
    BY DEF BodyIsOneArray
  <2>1. PICK b : b = answer.batch.messages
    OBVIOUS
  <2>2. PICK n : n = Len(b)
    OBVIOUS
  <2>3. /\ b \in Seq(Message) /\ DOMAIN b = 1 .. n /\ n \in Nat
        /\ \A i \in 1 .. n : Pairs(b[i].data, values_of(b[i].data))
    BY <2>1, <2>2, AnswerPairs
  <2>4. PICK s, u : /\ s = [i \in DOMAIN b |-> b[i].data]
                    /\ u = [i \in DOMAIN b |-> values_of(b[i].data)]
    OBVIOUS
  <2>5. s = [i \in 1 .. n |-> b[i].data] /\ u = [i \in 1 .. n |-> values_of(b[i].data)]
    BY <2>3, <2>4
  <2>6. \A i \in 1 .. n : b[i].data \in Seq(Token) /\ values_of(b[i].data) \in Seq(Token)
    BY <2>3 DEF Pairs
  <2>7. s \in Seq(Seq(Token)) /\ n = Len(s) /\ \A i \in 1 .. n : s[i] = b[i].data
    BY <2>3, <2>5, <2>6
  <2>8. /\ u \in Seq(Seq(Token)) /\ n = Len(u)
        /\ \A i \in 1 .. n : u[i] = values_of(b[i].data)
    BY <2>3, <2>5, <2>6
  <2>9. \A i \in 1 .. n : Pairs(s[i], u[i])
    BY <2>3, <2>7, <2>8
  <2>10. Pairs(FlattenSeq(s), FlattenSeq(u))
    BY <2>7, <2>8, <2>9, FlattenedPairs
  <2>11. array_of(<<Open>> \o without_last_comma(FlattenSeq(s)) \o <<Close>>) = FlattenSeq(u)
    BY <2>10, ArrayOfPairs
  <2>12. array_of(format_json_messages(s)) = FlattenSeq(u)
    BY <2>11 DEF format_json_messages
  <2> QED
    BY <2>1, <2>4, <2>12 DEF BodyIsOneArray
<1> QED
  BY <1>1, SubOffsetInvariant, Always, PTL
-----------------------------------------------------------------------------
(* The format, whatever becomes of the streams.                             *)

(* Values as process_json_append writes them.                               *)
LEMMA PostPairs ==
    ASSUME NEW v \in Seq(Token \ {Comma})
    PROVE  Pairs(process_json_append(v), v)
<1>1. PICK n : n = Len(v)
  OBVIOUS
<1>2. PICK d : d = process_json_append(v)
  OBVIOUS
<1>3. n \in Nat /\ v \in Seq(Token) /\ \A i \in 1 .. n : v[i] \in Token /\ v[i] # Comma
  BY <1>1, LenProperties
<1>4. d = [i \in 1 .. 2 * n |-> IF i % 2 = 1 THEN v[(i + 1) \div 2] ELSE Comma]
  BY <1>1, <1>2 DEF process_json_append
<1>5. ASSUME NEW i \in 1 .. 2 * n
      PROVE  (IF i % 2 = 1 THEN v[(i + 1) \div 2] ELSE Comma) \in Token
  <2>1. CASE i % 2 = 1
    <3>1. (i + 1) \div 2 \in 1 .. n
      BY <1>3, <2>1
    <3> QED
      BY <1>3, <2>1, <3>1
  <2>2. CASE i % 2 # 1
    BY <2>2 DEF Token
  <2> QED
    BY <2>1, <2>2
<1>6. 2 * n \in Nat
  BY <1>3
<1>7. d \in Seq(Token) /\ Len(d) = 2 * n
  BY <1>4, <1>5, <1>6
<1>8. ASSUME NEW i \in 1 .. n PROVE d[2 * i - 1] = v[i] /\ d[2 * i] = Comma
  <2>1. 2 * i - 1 \in 1 .. 2 * n /\ (2 * i - 1) % 2 = 1 /\ ((2 * i - 1) + 1) \div 2 = i
    BY <1>3
  <2>2. 2 * i \in 1 .. 2 * n /\ (2 * i) % 2 # 1
    BY <1>3
  <2>3. d[2 * i - 1] = v[((2 * i - 1) + 1) \div 2]
    BY <1>4, <2>1
  <2>4. d[2 * i] = Comma
    BY <1>4, <2>2
  <2> QED
    BY <2>1, <2>3, <2>4
<1>9. Pairs(d, v)
  BY <1>1, <1>3, <1>7, <1>8 DEF Pairs
<1> QED
  BY <1>2, <1>9

(* However many values are divided among however many POSTs, the fragments  *)
(* of these POSTs join to one JSON array of all of them in order, an empty  *)
(* batch to the empty array (process_json_append, format_json_messages).    *)
THEOREM FragmentsJoin ==
    ASSUME NEW posts \in Seq(Seq(Token \ {Comma}))
    PROVE  array_of(format_json_messages(
                        [i \in DOMAIN posts |-> process_json_append(posts[i])]))
           = FlattenSeq(posts)
<1>1. PICK n : n = Len(posts)
  OBVIOUS
<1>2. n \in Nat /\ DOMAIN posts = 1 .. n
  BY <1>1, LenProperties
<1>3. \A i \in 1 .. n : posts[i] \in Seq(Token \ {Comma})
  BY <1>2
<1>4. \A i \in 1 .. n : Pairs(process_json_append(posts[i]), posts[i])
  BY <1>3, PostPairs
<1>5. \A i \in 1 .. n : process_json_append(posts[i]) \in Seq(Token) /\ posts[i] \in Seq(Token)
  BY <1>4 DEF Pairs
<1>6. PICK s : s = [i \in DOMAIN posts |-> process_json_append(posts[i])]
  OBVIOUS
<1>7. s = [i \in 1 .. n |-> process_json_append(posts[i])]
  BY <1>2, <1>6
<1>8. s \in Seq(Seq(Token)) /\ n = Len(s) /\ \A i \in 1 .. n : s[i] = process_json_append(posts[i])
  BY <1>2, <1>5, <1>7
<1>9. posts \in Seq(Seq(Token))
  <2>1. posts = [i \in 1 .. n |-> posts[i]]
    BY <1>2
  <2> QED
    BY <1>2, <1>5, <2>1
<1>10. \A i \in 1 .. n : Pairs(s[i], posts[i])
  BY <1>4, <1>8
<1>11. Pairs(FlattenSeq(s), FlattenSeq(posts))
  BY <1>1, <1>8, <1>9, <1>10, FlattenedPairs
<1>12. array_of(<<Open>> \o without_last_comma(FlattenSeq(s)) \o <<Close>>) = FlattenSeq(posts)
  BY <1>11, ArrayOfPairs
<1> QED
  BY <1>6, <1>12 DEF format_json_messages
=============================================================================
