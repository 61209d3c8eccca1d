------------------------- MODULE OutboxTraceProofs -------------------------
(***************************************************************************)
(* Safety of the traced batches, for any number of traces, partitions and  *)
(* instances: the counters of the trace rows, what subscribers are told    *)
(* and what becomes of a claimed completion.                               *)
(***************************************************************************)
EXTENDS OutboxTrace, FiniteSetTheorems, SequenceTheorems, WellFoundedInduction, TLAPS
-----------------------------------------------------------------------------
(* The inductive invariant.                                                *)

CursorsInQueue == \A p \in Partitions : cursor[p] <= Len(queue[p])

\* A trace is used for one batch: nothing is known of it before.
BatchesAreNew ==
    \A t \in Traces : ~Enqueued(t) =>
      ~Present(t) /\ dead[t] = 0 /\ sub[t] # "completed"

NotifiedIsComplete ==
    \A t \in Traces : Present(t) /\ row[t].notified => row[t].pending = 0

\* A completion on its way is as true as one that was delivered.
MailIsTrue ==
    \A i \in Instances : \A o \in mail[i] :
      Enqueued(o.trace) /\ Unsettled(o.trace) = {} /\ o.failures = dead[o.trace]

Settlement ==
    /\ CountsAreExact /\ ToldTheTruth /\ NoMailLost
    /\ CursorsInQueue /\ BatchesAreNew /\ NotifiedIsComplete /\ MailIsTrue

JobsAreSlices ==
    \A i \in Instances : job[i] # None =>
      /\ mail[i] = {}
      /\ job[i].from <= job[i].upto /\ job[i].upto <= job[i].last
      /\ job[i].last <= Len(queue[job[i].p])
      /\ job[i].bad \subseteq job[i].from + 1..job[i].upto

\* Whoever still has the lease of its batch has read it at the cursor.
LeasesAreFresh ==
    \A i \in Instances : job[i] # None /\ lease[job[i].p] = i =>
      cursor[job[i].p] = job[i].from

LocksAreHeld ==
    /\ \A r \in Rows : lock[r] # None => job[lock[r]] # None
    /\ \A t \in Traces : lock[t] # None => Open(t)
    /\ \A p \in Partitions : lock[p] # None =>
          job[lock[p]].p = p /\ lease[p] = lock[p]

ToWrite(i, r) == \E n \in 1..Len(todo[i]) : r \in todo[i][n]

\* The cursor's row is fenced before any trace is counted down, and every trace
\* with a settled message is written unless its row was collected.
Covered(i) ==
    job[i] # None =>
      /\ \A n \in 1..Len(todo[i]) :
            todo[i][n] = {job[i].p} \/ (todo[i][n] # {} /\ todo[i][n] \subseteq Traces)
      /\ lock[job[i].p] # i => ToWrite(i, job[i].p)
      /\ lock[job[i].p] # i /\ job[i].from < job[i].upto => Head(todo[i]) = {job[i].p}
      /\ \A k \in job[i].from + 1..job[i].upto :
            LET t == queue[job[i].p][k]
            IN  lock[t] = i \/ ~Present(t) \/ ToWrite(i, t)

StatementsCover == \A i \in Instances : Covered(i)

Locking == JobsAreSlices /\ LeasesAreFresh /\ LocksAreHeld /\ StatementsCover

Inv == TypeOK /\ Settlement /\ Locking
-----------------------------------------------------------------------------
(* Operators of the model.                                                 *)

LEMMA MaxAgeIsNat == MaxAge \in Nat
<1>. DEFINE S == {Retention, OrphanAfter, LeftoverAfter}
<1>1. S \subseteq Nat /\ \E x \in S : \A y \in S : x >= y
  BY TraceAssumption
<1>2. Max(S) \in S
  BY <1>1 DEF Max
<1>. QED
  BY <1>1, <1>2 DEF MaxAge

LEMMA MinOfTwo ==
    ASSUME NEW a \in Nat, NEW b \in Nat
    PROVE  Min({a, b}) \in Nat /\ Min({a, b}) <= a /\ Min({a, b}) <= b
<1>1. \E x \in {a, b} : \A y \in {a, b} : x <= y
  OBVIOUS
<1>2. Min({a, b}) \in {a, b} /\ \A y \in {a, b} : Min({a, b}) <= y
  BY <1>1 DEF Min
<1>. QED
  BY <1>2

LEMMA BatchEndInQueue ==
    ASSUME TypeOK, NEW p \in Partitions
    PROVE  BatchEnd(p) \in Nat /\ BatchEnd(p) <= Len(queue[p])
<1>1. Len(queue[p]) \in Nat /\ cursor[p] + MsgBatch \in Nat
  BY TraceAssumption, LenProperties DEF TypeOK
<1>. QED
  BY <1>1, MinOfTwo DEF BatchEnd

\* A group of statements starts with a row of its own.
LEMMA LeastIsMember ==
    ASSUME NEW S, S # {}, S \subseteq Traces \/ \E p : S = {p} PROVE Least(S) \in S
<1>1. CASE S \subseteq Traces
  <2>1. S \subseteq Nat
    BY <1>1, TraceAssumption
  <2>2. PICK x \in S : \A y \in S : ~(<<y, x>> \in OpToRel(<, Nat))
    BY <2>1, NatLessThanWellFounded, WFMin
  <2>3. ASSUME NEW y \in S \ {x} PROVE x < y
    <3>1. <<y, x>> \in Nat \X Nat /\ ~(<<y, x>> \in OpToRel(<, Nat))
      BY <2>1, <2>2
    <3>2. ~(y < x)
      BY <3>1 DEF OpToRel
    <3>. QED
      BY <2>1, <3>2
  <2>. QED
    BY <2>3 DEF Least
<1>2. CASE \E p : S = {p}
  BY <1>2 DEF Least
<1>. QED
  BY <1>1, <1>2

LEMMA RowOperations ==
    ASSUME NEW r \in RowType
    PROVE  /\ Claimed(r) \in RowType /\ Claimed(r).pending = r.pending
           /\ Claimed(r).failures = r.failures /\ Claimed(r).notified = TRUE
           /\ Retried(r) \in RowType /\ Retried(r).pending = r.pending
           /\ Retried(r).failures = r.failures /\ Retried(r).notified = r.notified
<1>1. 0 \in 0..MaxAge /\ TRUE \in BOOLEAN
  BY MaxAgeIsNat
<1>2. /\ Claimed(r) \in RowType /\ Claimed(r).pending = r.pending
      /\ Claimed(r).failures = r.failures /\ Claimed(r).notified = TRUE
  BY <1>1, Zenon DEF RowType, Claimed
<1>3. /\ Retried(r) \in RowType /\ Retried(r).pending = r.pending
      /\ Retried(r).failures = r.failures /\ Retried(r).notified = r.notified
  BY <1>1, Zenon DEF RowType, Retried
<1>. QED
  BY <1>2, <1>3

LEMMA Ageing ==
    ASSUME NEW r \in RowType, r.age < MaxAge
    PROVE  LET o == [r EXCEPT !.age = @ + 1]
           IN  /\ o \in RowType /\ o.pending = r.pending /\ o.failures = r.failures
               /\ o.notified = r.notified
  BY MaxAgeIsNat DEF RowType

LEMMA Presence ==
    ASSUME TypeOK, NEW t \in Traces PROVE Present(t) <=> row[t] \in RowType
  BY NoneAssumption DEF TypeOK, Present

\* Unsettled messages, one by one.
LEMMA UnsettledElements ==
    ASSUME NEW t
    PROVE  /\ \A e \in Unsettled(t) : \E p \in Partitions, k \in Int :
                 /\ e = <<p, k>> /\ queue[p][k] = t
                 /\ k \in cursor[p] + 1..Len(queue[p])
           /\ \A p \in Partitions : \A k \in cursor[p] + 1..Len(queue[p]) :
                 queue[p][k] = t => <<p, k>> \in Unsettled(t)
  BY DEF Unsettled

\* Finitely many partitions with finitely many places each.
LEMMA FinitePlaces ==
    ASSUME NEW f \in [Partitions -> Nat]
    PROVE  IsFiniteSet(UNION {{p} \X (1..f[p]) : p \in Partitions})
<1>. DEFINE T == {{p} \X (1..f[p]) : p \in Partitions}
            g == [p \in Partitions |-> {p} \X (1..f[p])]
<1>1. g \in Surjection(Partitions, T)
  BY DEF Surjection
<1>2. IsFiniteSet(Partitions)
  BY TraceAssumption
<1>3. IsFiniteSet(T)
  BY <1>1, <1>2, FS_Surjection
<1>4. ASSUME NEW S \in T PROVE IsFiniteSet(S)
  <2>1. PICK p \in Partitions : S = {p} \X (1..f[p])
    OBVIOUS
  <2>2. IsFiniteSet({p}) /\ IsFiniteSet(1..f[p])
    <3>1. 1 \in Int /\ f[p] \in Int
      OBVIOUS
    <3>. QED
      BY <3>1, FS_Singleton, FS_Interval
  <2>. QED
    BY <2>1, <2>2, FS_Product
<1>. HIDE DEF T
<1>5. IsFiniteSet(UNION T)
  BY <1>3, <1>4, FS_UNION
<1>. QED
  BY <1>5 DEF T

LEMMA UnsettledFinite ==
    ASSUME TypeOK, NEW t
    PROVE  /\ IsFiniteSet(Unsettled(t)) /\ Cardinality(Unsettled(t)) \in Nat
           /\ Cardinality(Unsettled(t)) = 0 <=> Unsettled(t) = {}
<1>. DEFINE f == [p \in Partitions |-> Len(queue[p])]
            U == UNION {{p} \X (1..f[p]) : p \in Partitions}
<1>1. f \in [Partitions -> Nat] /\ cursor \in [Partitions -> Nat]
  BY LenProperties DEF TypeOK
<1>2. IsFiniteSet(U)
  BY <1>1, FinitePlaces
<1>3. Unsettled(t) \subseteq U
  BY <1>1, UnsettledElements
<1>. HIDE DEF U
<1>4. IsFiniteSet(Unsettled(t))
  BY <1>2, <1>3, FS_Subset
<1>. QED
  BY <1>4, FS_CardinalityType, FS_EmptySet

LEMMA EntitiesFinite ==
    ASSUME NEW t \in Traces
    PROVE  IsFiniteSet(Entities(t)) /\ Cardinality(Entities(t)) \in Nat \ {0}
<1>1. Batch[t] \in [Partitions -> Nat]
  BY TraceAssumption
<1>2. IsFiniteSet(Entities(t))
  BY <1>1, FinitePlaces DEF Entities
<1>3. PICK p \in Partitions : Batch[t][p] > 0
  BY TraceAssumption
<1>4. <<p, 1>> \in Entities(t)
  BY <1>1, <1>3 DEF Entities
<1>. QED
  BY <1>2, <1>4, FS_CardinalityType, FS_EmptySet

\* What a commit takes off the unsettled messages of t: as many as the job counts.
LEMMA SettledByCommit ==
    ASSUME TypeOK, NEW j \in JobType, NEW t,
           cursor[j.p] = j.from, j.from <= j.upto, j.upto <= Len(queue[j.p]),
           cursor' = [cursor EXCEPT ![j.p] = j.upto], queue' = queue
    PROVE  /\ Terminal(j, t) \in Nat /\ Unsettled(t)' \subseteq Unsettled(t)
           /\ Cardinality(Unsettled(t)') = Cardinality(Unsettled(t)) - Terminal(j, t)
           /\ Terminal(j, t) > 0 <=> \E k \in j.from + 1..j.upto : queue[j.p][k] = t
<1>. DEFINE K == {k \in j.from + 1..j.upto : queue[j.p][k] = t}
            D == {<<j.p, k>> : k \in K}
            f == [k \in K |-> <<j.p, k>>]
<1>0. /\ j.p \in Partitions /\ j.from \in Nat /\ j.upto \in Nat
      /\ cursor \in [Partitions -> Nat]
      /\ \A p \in Partitions : Len(queue[p]) \in Nat
  BY LenProperties DEF JobType, TypeOK
<1>1. IsFiniteSet(K)
  <2>0. j.from + 1 \in Int /\ j.upto \in Int
    BY <1>0
  <2>1. IsFiniteSet(j.from + 1..j.upto)
    BY <2>0, FS_Interval, Zenon
  <2>. QED
    BY <2>1, FS_Subset
<1>2. f \in Bijection(K, D)
  <2>1. f \in [K -> D] /\ \A k, l \in K : f[k] = f[l] => k = l
    OBVIOUS
  <2>2. \A d \in D : \E k \in K : f[k] = d
    OBVIOUS
  <2>. HIDE DEF f, K, D
  <2>. QED
    BY <2>1, <2>2 DEF Bijection, Injection, Surjection, IsInjective
<1>3. Cardinality(D) = Cardinality(K) /\ Cardinality(K) \in Nat
  <2>1. ExistsBijection(K, D)
    BY <1>2 DEF ExistsBijection
  <2>. QED
    BY <1>1, <2>1, FS_Bijection, FS_CardinalityType
<1>4. D \subseteq Unsettled(t)
  <2>1. ASSUME NEW k \in K PROVE <<j.p, k>> \in Unsettled(t)
    <3>1. k \in cursor[j.p] + 1..Len(queue[j.p]) /\ queue[j.p][k] = t
      BY <1>0
    <3>. QED
      BY <1>0, <3>1, UnsettledElements
  <2>. QED
    BY <2>1
<1>5. Unsettled(t)' = Unsettled(t) \ D
  <2>1. ASSUME NEW e \in Unsettled(t)' PROVE e \in Unsettled(t) \ D
    <3>1. PICK p \in Partitions, k \in Int :
             /\ e = <<p, k>> /\ queue[p][k] = t /\ k \in cursor'[p] + 1..Len(queue[p])
      BY <2>1 DEF Unsettled
    <3>2. k \in cursor[p] + 1..Len(queue[p]) /\ ~(p = j.p /\ k <= j.upto)
      BY <1>0, <3>1
    <3>3. e \in Unsettled(t)
      BY <3>1, <3>2, UnsettledElements
    <3>4. e \notin D
      BY <1>0, <3>1, <3>2
    <3>. QED
      BY <3>3, <3>4
  <2>2. ASSUME NEW e \in Unsettled(t) \ D PROVE e \in Unsettled(t)'
    <3>1. PICK p \in Partitions, k \in Int :
             /\ e = <<p, k>> /\ queue[p][k] = t /\ k \in cursor[p] + 1..Len(queue[p])
      BY <2>2, UnsettledElements
    <3>2. k \in cursor'[p] + 1..Len(queue'[p]) /\ queue'[p][k] = t
      BY <1>0, <2>2, <3>1
    <3>. QED
      BY <3>1, <3>2 DEF Unsettled
  <2>. QED
    BY <2>1, <2>2
<1>6. Cardinality(Unsettled(t) \ D) = Cardinality(Unsettled(t)) - Cardinality(D)
  <2>1. Unsettled(t) \cap D = D
    BY <1>4
  <2>2. IsFiniteSet(Unsettled(t))
    BY UnsettledFinite
  <2>. HIDE DEF D
  <2>. QED
    BY <2>1, <2>2, FS_Difference
<1>7. Terminal(j, t) = Cardinality(K)
  BY DEF Terminal
<1>. HIDE DEF D
<1>8. K = {} <=> Cardinality(K) = 0
  BY <1>1, FS_EmptySet, Zenon
<1>9. Unsettled(t)' \subseteq Unsettled(t)
  BY <1>5
<1>10. Cardinality(Unsettled(t)') = Cardinality(Unsettled(t)) - Terminal(j, t)
  BY <1>3, <1>5, <1>6, <1>7
<1>. QED
  BY <1>3, <1>7, <1>8, <1>9, <1>10

LEMMA RejectedByCommit ==
    ASSUME NEW j \in JobType, NEW t, j.bad \subseteq j.from + 1..j.upto
    PROVE  /\ Rejected(j, t) \in Nat
           /\ Rejected(j, t) > 0 => \E k \in j.from + 1..j.upto : queue[j.p][k] = t
<1>. DEFINE K == {k \in j.bad : queue[j.p][k] = t}
<1>1. IsFiniteSet(K)
  <2>1. j.from + 1 \in Int /\ j.upto \in Int
    BY DEF JobType
  <2>2. IsFiniteSet(j.from + 1..j.upto)
    BY <2>1, FS_Interval
  <2>. QED
    BY <2>2, FS_Subset
<1>2. Cardinality(K) \in Nat
  BY <1>1, FS_CardinalityType
<1>3. K = {} => Cardinality(K) = 0
  BY FS_EmptySet, Zenon
<1>4. Rejected(j, t) = Cardinality(K)
  BY DEF Rejected
<1>. QED
  BY <1>2, <1>3, <1>4

\* A batch is appended behind what its partitions hold.
LEMMA QueueGrows ==
    ASSUME TypeOK, NEW t \in Traces, NEW p \in Partitions,
           queue' = [q \in Partitions |-> queue[q] \o [k \in 1..Batch[t][q] |-> t]]
    PROVE  /\ queue'[p] \in Seq(Traces) /\ Len(queue[p]) \in Nat /\ Batch[t][p] \in Nat
           /\ Len(queue'[p]) = Len(queue[p]) + Batch[t][p]
           /\ \A k \in 1..Len(queue[p]) : queue'[p][k] = queue[p][k]
           /\ \A k \in Len(queue[p]) + 1..Len(queue'[p]) : queue'[p][k] = t
<1>. DEFINE s == queue[p]
            n == Batch[t][p]
            u == [k \in 1..n |-> t]
<1>1. s \in Seq(Traces) /\ Len(s) \in Nat /\ n \in Nat
  BY TraceAssumption, LenProperties DEF TypeOK
<1>2. u \in Seq(Traces) /\ Len(u) = n
  BY <1>1
<1>3. queue'[p] = s \o u
  OBVIOUS
<1>. HIDE DEF s, n, u
<1>4. /\ s \o u \in Seq(Traces) /\ Len(s \o u) = Len(s) + Len(u)
      /\ \A k \in 1..Len(s) + Len(u) :
            (s \o u)[k] = IF k <= Len(s) THEN s[k] ELSE u[k - Len(s)]
  BY <1>1, <1>2, ConcatProperties
<1>5. \A k \in 1..Len(s) : (s \o u)[k] = s[k]
  BY <1>1, <1>2, <1>4
<1>6. ASSUME NEW k \in Len(s) + 1..Len(s \o u) PROVE (s \o u)[k] = t
  <2>1. /\ k \in 1..Len(s) + Len(u) /\ ~(k <= Len(s))
        /\ k - Len(s) \in 1..n
    BY <1>1, <1>2, <1>4
  <2>. QED
    BY <1>4, <2>1 DEF u
<1>. QED
  BY <1>1, <1>2, <1>3, <1>4, <1>5, <1>6 DEF s, n

LEMMA EnqueuedElements ==
    ASSUME TypeOK, NEW t
    PROVE  Enqueued(t) <=>
             \E p \in Partitions : \E k \in 1..Len(queue[p]) : queue[p][k] = t
<1>1. \A p \in Partitions : DOMAIN queue[p] = 1..Len(queue[p])
  BY LenProperties DEF TypeOK
<1>. QED
  BY <1>1 DEF Enqueued, Range

\* The row of a new batch counts exactly the messages that come with it.
LEMMA CountedByEnqueue ==
    ASSUME TypeOK, CursorsInQueue, NEW t \in Traces, EnqueueBatch(t)
    PROVE  /\ Cardinality(Unsettled(t)') = Cardinality(Entities(t))
           /\ \A u \in Traces \ {t} : Unsettled(u)' = Unsettled(u)
<1>0. /\ cursor' = cursor /\ cursor \in [Partitions -> Nat] /\ ~Enqueued(t)
      /\ queue' = [q \in Partitions |-> queue[q] \o [k \in 1..Batch[t][q] |-> t]]
  BY DEF TypeOK, EnqueueBatch
<1>1. ASSUME NEW p \in Partitions
      PROVE  /\ Len(queue[p]) \in Nat /\ Batch[t][p] \in Nat /\ cursor[p] <= Len(queue[p])
             /\ Len(queue'[p]) = Len(queue[p]) + Batch[t][p]
             /\ \A k \in 1..Len(queue[p]) : queue'[p][k] = queue[p][k] /\ queue[p][k] # t
             /\ \A k \in Len(queue[p]) + 1..Len(queue'[p]) : queue'[p][k] = t
  <2>1. /\ Len(queue[p]) \in Nat /\ Batch[t][p] \in Nat
        /\ Len(queue'[p]) = Len(queue[p]) + Batch[t][p]
        /\ \A k \in 1..Len(queue[p]) : queue'[p][k] = queue[p][k]
        /\ \A k \in Len(queue[p]) + 1..Len(queue'[p]) : queue'[p][k] = t
    BY <1>0, QueueGrows
  <2>2. \A k \in 1..Len(queue[p]) : queue[p][k] # t
    BY <1>0, EnqueuedElements
  <2>. QED
    BY <2>1, <2>2 DEF CursorsInQueue
<1>. DEFINE g == [e \in Entities(t) |-> <<e[1], Len(queue[e[1]]) + e[2]>>]
<1>2. /\ \A e \in Entities(t) : \E p \in Partitions : \E n \in 1..Batch[t][p] : e = <<p, n>>
      /\ \A p \in Partitions : \A n \in 1..Batch[t][p] : <<p, n>> \in Entities(t)
  BY DEF Entities
<1>3. /\ \A e \in Unsettled(t)' : \E p \in Partitions : \E n \in 1..Batch[t][p] :
            e = <<p, Len(queue[p]) + n>>
      /\ \A p \in Partitions : \A n \in 1..Batch[t][p] :
            <<p, Len(queue[p]) + n>> \in Unsettled(t)'
  <2>1. ASSUME NEW e \in Unsettled(t)'
        PROVE  \E p \in Partitions : \E n \in 1..Batch[t][p] : e = <<p, Len(queue[p]) + n>>
    <3>0. PICK p \in Partitions :
             e \in {<<p, k>> : k \in {n \in cursor'[p] + 1..Len(queue'[p]) :
                                       queue'[p][n] = t}}
      BY <2>1, Zenon DEF Unsettled
    <3>1. PICK k \in Int :
             e = <<p, k>> /\ queue'[p][k] = t /\ k \in cursor[p] + 1..Len(queue'[p])
      BY <1>0, <1>1, <3>0
    <3>2. k \in Len(queue[p]) + 1..Len(queue'[p])
      <4>. DEFINE l == Len(queue[p])
                  m == Len(queue'[p])
                  c == cursor[p]
      <4>0. c \in Nat
        BY <1>0
      <4>1. l \in Nat /\ m \in Nat
        <5>1. Batch[t][p] \in Nat
          BY <1>1
        <5>. QED
          BY <1>1, <5>1
      <4>2. k \notin 1..l
        BY <1>1, <3>1
      <4>3. k \in c + 1..m
        BY <3>1
      <4>. HIDE DEF l, m, c
      <4>4. k \in l + 1..m
        BY <4>0, <4>1, <4>2, <4>3
      <4>. QED
        BY <4>4 DEF l, m
    <3>3. k - Len(queue[p]) \in 1..Batch[t][p] /\ k = Len(queue[p]) + (k - Len(queue[p]))
      BY <1>1, <3>2
    <3>. QED
      BY <3>1, <3>3
  <2>2. ASSUME NEW p \in Partitions, NEW n \in 1..Batch[t][p]
        PROVE  <<p, Len(queue[p]) + n>> \in Unsettled(t)'
    <3>1. /\ Len(queue[p]) + n \in cursor'[p] + 1..Len(queue'[p])
          /\ queue'[p][Len(queue[p]) + n] = t
      BY <1>0, <1>1
    <3>. QED
      BY <3>1 DEF Unsettled
  <2>. QED
    BY <2>1, <2>2
<1>4. ExistsBijection(Entities(t), Unsettled(t)')
  <2>1. g \in [Entities(t) -> Unsettled(t)']
    <3>1. ASSUME NEW e \in Entities(t) PROVE g[e] \in Unsettled(t)'
      <4>1. PICK p \in Partitions : \E n \in 1..Batch[t][p] : e = <<p, n>>
        BY <1>2
      <4>2. PICK n \in 1..Batch[t][p] : e = <<p, n>>
        BY <4>1
      <4>3. g[e] = <<p, Len(queue[p]) + n>>
        BY <4>2
      <4>. QED
        BY <1>3, <4>3
    <3>. QED
      BY <3>1
  <2>2. ASSUME NEW d \in Entities(t), NEW e \in Entities(t), g[d] = g[e] PROVE d = e
    BY <1>1, <1>2, <2>2
  <2>3. ASSUME NEW e \in Unsettled(t)' PROVE \E d \in Entities(t) : g[d] = e
    BY <1>2, <1>3
  <2>. HIDE DEF g
  <2>4. g \in Bijection(Entities(t), Unsettled(t)')
    BY <2>1, <2>2, <2>3 DEF Bijection, Injection, Surjection, IsInjective
  <2>. QED
    BY <2>4 DEF ExistsBijection
<1>5. Cardinality(Unsettled(t)') = Cardinality(Entities(t))
  BY <1>4, EntitiesFinite, FS_Bijection
<1>6. ASSUME NEW u \in Traces \ {t} PROVE Unsettled(u)' = Unsettled(u)
  <2>1. ASSUME NEW p \in Partitions, NEW k \in Int
        PROVE  k \in cursor'[p] + 1..Len(queue'[p]) /\ queue'[p][k] = u
               <=> k \in cursor[p] + 1..Len(queue[p]) /\ queue[p][k] = u
    BY <1>0, <1>1
  <2>2. \A p \in Partitions :
          {n \in cursor'[p] + 1..Len(queue'[p]) : queue'[p][n] = u}
          = {n \in cursor[p] + 1..Len(queue[p]) : queue[p][n] = u}
    BY <1>0, <1>1, <2>1
  <2>. QED
    BY <2>2 DEF Unsettled
<1>. QED
  BY <1>5, <1>6
-----------------------------------------------------------------------------
(* What the parts of the invariant depend on.                              *)

USE DEF msgVars, ackVars, subVars, workerVars

LEMMA SameMessages ==
    ASSUME UNCHANGED <<queue, cursor>>
    PROVE  \A t : Unsettled(t)' = Unsettled(t) /\ Enqueued(t)' = Enqueued(t)
  BY DEF Unsettled, Enqueued, Range

\* No message is enqueued or settled: completions are claimed, delivered, lost
\* and collected.
LEMMA SettlementKept ==
    ASSUME Settlement, UNCHANGED <<queue, cursor, dead>>, NoMailLost',
           \A t \in Traces : Present(t)' =>
             /\ Present(t) /\ row'[t].pending = row[t].pending
             /\ row'[t].failures = row[t].failures
             /\ row'[t].notified => row[t].notified \/ row[t].pending = 0,
           \A t \in Traces : sub'[t] = "completed" =>
             \/ sub[t] = "completed" /\ told'[t] = told[t]
             \/ Enqueued(t) /\ Unsettled(t) = {} /\ told'[t] = dead[t],
           \A i \in Instances : mail'[i] \subseteq mail[i]
    PROVE  Settlement'
<1>0. \A t : Unsettled(t)' = Unsettled(t) /\ Enqueued(t)' = Enqueued(t)
  BY SameMessages
<1>1. CountsAreExact'
  BY <1>0 DEF Settlement, CountsAreExact
<1>2. ToldTheTruth'
  BY <1>0 DEF Settlement, ToldTheTruth
<1>3. CursorsInQueue'
  BY DEF Settlement, CursorsInQueue
<1>4. BatchesAreNew'
  BY <1>0 DEF Settlement, BatchesAreNew
<1>5. NotifiedIsComplete'
  BY DEF Settlement, NotifiedIsComplete
<1>6. MailIsTrue'
  BY <1>0 DEF Settlement, MailIsTrue
<1>. QED
  BY <1>1, <1>2, <1>3, <1>4, <1>5, <1>6 DEF Settlement

\* Not even a row changes: at most, subscriptions come and go.
LEMMA SettlementQuiet ==
    ASSUME TypeOK, Settlement, UNCHANGED <<queue, cursor, dead, row, told, lost>>,
           \A t \in Traces : sub'[t] = "completed" => sub[t] = "completed",
           \A t \in Traces : Waiting(t)' =>
             /\ Waiting(t) \/ ~Present(t)
             /\ mail'[Owner[t]] = mail[Owner[t]],
           \A i \in Instances : mail'[i] \subseteq mail[i]
    PROVE  Settlement'
<1>1. \A t : Present(t)' = Present(t)
  BY DEF Present
<1>2. NoMailLost'
  BY <1>1 DEF Settlement, NoMailLost
<1>. QED
  BY <1>1, <1>2, SettlementKept

LEMMA JobMessages ==
    ASSUME TypeOK, Locking, NEW i \in Instances, job[i] # None
    PROVE  /\ job[i] \in JobType /\ job[i].p \in Partitions /\ job[i].from \in Nat
           /\ job[i].upto \in Nat /\ job[i].from <= job[i].upto
           /\ Len(queue[job[i].p]) \in Nat /\ job[i].upto <= Len(queue[job[i].p])
           /\ \A k \in job[i].from + 1..job[i].upto : queue[job[i].p][k] \in Traces
<1>1. /\ job[i] \in JobType /\ job[i].p \in Partitions /\ job[i].from \in Nat
      /\ job[i].upto \in Nat /\ job[i].last \in Nat
      /\ job[i].from <= job[i].upto /\ job[i].upto <= job[i].last
      /\ job[i].last <= Len(queue[job[i].p]) /\ queue[job[i].p] \in Seq(Traces)
  BY DEF TypeOK, JobType, Locking, JobsAreSlices
<1>2. Len(queue[job[i].p]) \in Nat
  BY <1>1, LenProperties
<1>3. \A k \in job[i].from + 1..job[i].upto : k \in 1..Len(queue[job[i].p])
  BY <1>1, <1>2
<1>. QED
  BY <1>1, <1>2, <1>3, ElementOfSeq

\* Nobody writes: rows may be claimed or collected while they are not locked.
LEMMA LockingKept ==
    ASSUME TypeOK, Locking, UNCHANGED <<queue, cursor, lease, lock, job, todo>>,
           \A i \in Instances : mail'[i] \subseteq mail[i],
           \A t \in Traces : Present(t)' => Present(t),
           \A t \in Traces : lock[t] # None /\ Open(t) => Open(t)'
    PROVE  Locking'
<1>1. JobsAreSlices'
  BY DEF Locking, JobsAreSlices
<1>2. LeasesAreFresh'
  BY DEF Locking, LeasesAreFresh
<1>3. LocksAreHeld'
  BY DEF Locking, LocksAreHeld
<1>4. StatementsCover'
  BY JobMessages DEF Locking, StatementsCover, Covered, ToWrite
<1>. QED
  BY <1>1, <1>2, <1>3, <1>4 DEF Locking
-----------------------------------------------------------------------------
(* Subscriptions, the notifier and the reporter.                           *)

LEMMA InitInv == Init => Inv
<1>. SUFFICES ASSUME Init PROVE Inv
  OBVIOUS
<1>1. TypeOK
  BY TraceAssumption, EmptySeq DEF Init, TypeOK
<1>2. \A t \in Traces : ~Present(t)
  BY DEF Init, Present
<1>3. Settlement
  BY <1>2 DEF Init, Settlement, CountsAreExact, ToldTheTruth, NoMailLost, CursorsInQueue,
              BatchesAreNew, NotifiedIsComplete, MailIsTrue
<1>4. Locking
  BY DEF Init, Locking, JobsAreSlices, LeasesAreFresh, LocksAreHeld, StatementsCover,
         Covered, Rows
<1>. QED
  BY <1>1, <1>3, <1>4 DEF Inv

LEMMA SubscribeInv == ASSUME Inv, NEW t \in Traces, Subscribe(t) PROVE Inv'
<1>1. TypeOK'
  BY DEF Inv, Subscribe, TypeOK
<1>2. ~Present(t)
  BY DEF Inv, Subscribe, Settlement, BatchesAreNew
<1>3. Settlement'
  BY <1>2, SettlementQuiet DEF Inv, Subscribe, TypeOK, Waiting
<1>4. Locking'
  BY LockingKept DEF Inv, Subscribe, Present, Open
<1>. QED
  BY <1>1, <1>3, <1>4 DEF Inv

LEMMA DropInv == ASSUME Inv, NEW t \in Traces, Drop(t) PROVE Inv'
<1>1. TypeOK'
  BY DEF Inv, Drop, TypeOK
<1>2. Settlement'
  BY SettlementQuiet DEF Inv, Drop, TypeOK, Waiting
<1>3. Locking'
  BY LockingKept DEF Inv, Drop, Present, Open
<1>. QED
  BY <1>1, <1>2, <1>3 DEF Inv

\* Pages are read; what was read is looked at again when it is used.
LEMMA ReadsInv ==
    ASSUME Inv, SweepSelects \/ \E i \in Instances : NotifierReads(i) \/ ReporterReads(i)
    PROVE  Inv'
<1>1. TypeOK'
  <2>1. ASSUME NEW i \in Instances, NotifierReads(i) PROVE TypeOK'
    BY <2>1 DEF Inv, NotifierReads, TypeOK, Pages
  <2>2. ASSUME NEW i \in Instances, ReporterReads(i) PROVE TypeOK'
    BY <2>2 DEF Inv, ReporterReads, TypeOK, Pages, Retrying
  <2>3. CASE SweepSelects
    BY <2>3 DEF Inv, SweepSelects, TypeOK, Pages
  <2>. QED
    BY <2>1, <2>2, <2>3
<1>2. UNCHANGED <<msgVars, row, ackVars, subVars, lost>>
  BY DEF NotifierReads, ReporterReads, SweepSelects
<1>3. Settlement'
  BY <1>2, SettlementQuiet DEF Inv, Waiting
<1>4. Locking'
  BY <1>2, LockingKept DEF Inv, Present, Open
<1>. QED
  BY <1>1, <1>3, <1>4 DEF Inv

LEMMA ReporterPublishesInv ==
    ASSUME Inv, NEW i \in Instances, ReporterPublishes(i) PROVE Inv'
<1>1. TypeOK'
  BY DEF Inv, ReporterPublishes, TypeOK, Entries
<1>2. Settlement'
  BY SettlementQuiet DEF Inv, ReporterPublishes, TypeOK, Waiting
<1>3. Locking'
  BY LockingKept DEF Inv, ReporterPublishes, Present, Open
<1>. QED
  BY <1>1, <1>2, <1>3 DEF Inv

LEMMA ReporterClearsInv ==
    ASSUME Inv, NEW i \in Instances, ReporterClears(i) PROVE Inv'
<1>1. PICK t \in clearing[i] :
         /\ sub' = [sub EXCEPT ![t] = Cleared(@)]
         /\ clearing' = [clearing EXCEPT ![i] = @ \ {t}]
  BY DEF ReporterClears
<1>2. t \in Traces
  BY DEF Inv, TypeOK
<1>3. TypeOK'
  BY <1>1, <1>2 DEF Inv, ReporterClears, TypeOK, Cleared
<1>4. Settlement'
  BY <1>1, <1>2, SettlementQuiet DEF Inv, ReporterClears, TypeOK, Waiting, Cleared
<1>5. Locking'
  BY LockingKept DEF Inv, ReporterClears, Present, Open
<1>. QED
  BY <1>3, <1>4, <1>5 DEF Inv
-----------------------------------------------------------------------------
(* Completions: delivered, claimed, collected.                             *)

LEMMA Delivery ==
    ASSUME TypeOK, NEW o \in Outcomes, Deliver(o), Enqueued(o.trace),
           Unsettled(o.trace) = {}, o.failures = dead[o.trace]
    PROVE  /\ sub' \in [Traces -> {"unused", "inflight", "retrying", "completed", "closed",
                                   "dropped"}]
           /\ told' \in [Traces -> Nat \cup {None}]
           /\ \A t \in Traces : sub'[t] = "completed" =>
                \/ sub[t] = "completed" /\ told'[t] = told[t]
                \/ Enqueued(t) /\ Unsettled(t) = {} /\ told'[t] = dead[t]
           /\ \A t \in Traces : Waiting(t)' => Waiting(t) /\ t # o.trace
<1>1. o.trace \in Traces /\ o.failures \in Nat
  BY DEF Outcomes
<1>. QED
  BY <1>1 DEF TypeOK, Deliver, Waiting

LEMMA DeliverClaimedInv ==
    ASSUME Inv, NEW i \in Instances, DeliverClaimed(i) PROVE Inv'
<1>1. PICK o \in mail[i] : Deliver(o) /\ mail' = [mail EXCEPT ![i] = @ \ {o}]
  BY DEF DeliverClaimed
<1>2. o \in Outcomes /\ mail \in [Instances -> SUBSET Outcomes]
  BY DEF Inv, TypeOK
<1>3. Enqueued(o.trace) /\ Unsettled(o.trace) = {} /\ o.failures = dead[o.trace]
  BY <1>1 DEF Inv, Settlement, MailIsTrue
<1>4. /\ sub' \in [Traces -> {"unused", "inflight", "retrying", "completed", "closed",
                              "dropped"}]
      /\ told' \in [Traces -> Nat \cup {None}]
      /\ \A t \in Traces : sub'[t] = "completed" =>
           \/ sub[t] = "completed" /\ told'[t] = told[t]
           \/ Enqueued(t) /\ Unsettled(t) = {} /\ told'[t] = dead[t]
      /\ \A t \in Traces : Waiting(t)' => Waiting(t) /\ t # o.trace
  BY <1>1, <1>2, <1>3, Delivery DEF Inv
<1>5. /\ UNCHANGED <<queue, cursor, lease, dead, row, lock, job, todo, lost>>
      /\ \A k \in Instances : mail'[k] \subseteq mail[k] /\ mail[k] \ {o} \subseteq mail'[k]
  BY <1>1, <1>2 DEF DeliverClaimed
<1>6. TypeOK'
  BY <1>1, <1>2, <1>4 DEF Inv, TypeOK, DeliverClaimed
<1>7. NoMailLost'
  BY <1>4, <1>5, TraceAssumption DEF Inv, Settlement, NoMailLost, Present
<1>8. Settlement'
  BY <1>4, <1>5, <1>7, SettlementKept DEF Inv, Present
<1>9. Locking'
  BY <1>5, LockingKept DEF Inv, Present, Open
<1>. QED
  BY <1>6, <1>8, <1>9 DEF Inv

\* A claim of a row that nobody has locked: the count of a completed row is final.
LEMMA ClaimedRow ==
    ASSUME Inv, NEW i \in Instances, NEW t \in Traces, lock[t] = None, Present(t),
           Claimable(i, t, row[t]), row' = [row EXCEPT ![t] = Claimed(@)],
           UNCHANGED <<queue, cursor, lease, dead, lock, job, todo, mail>>
    PROVE  /\ row' \in [Traces -> RowType \cup {None}] /\ Locking'
           /\ Enqueued(t) /\ Unsettled(t) = {} /\ row[t].failures = dead[t]
           /\ row[t].failures \in Nat /\ row'[t].notified
           /\ \A u \in Traces : Present(u)' =>
                /\ Present(u) /\ row'[u].pending = row[u].pending
                /\ row'[u].failures = row[u].failures
                /\ row'[u].notified => row[u].notified \/ row[u].pending = 0
           /\ \A u \in Traces \ {t} : row'[u] = row[u]
<1>1. row[t] \in RowType /\ row \in [Traces -> RowType \cup {None}]
  BY Presence DEF Inv, TypeOK
<1>2. row[t].pending \in Nat /\ row[t].failures \in Nat /\ row[t].pending = 0
  BY <1>1 DEF RowType, Claimable
<1>3. /\ Claimed(row[t]) \in RowType /\ Claimed(row[t]).pending = row[t].pending
      /\ Claimed(row[t]).failures = row[t].failures /\ Claimed(row[t]).notified = TRUE
  BY <1>1, RowOperations
<1>4. row'[t] = Claimed(row[t]) /\ \A u \in Traces \ {t} : row'[u] = row[u]
  BY <1>1
<1>5. row' \in [Traces -> RowType \cup {None}]
  BY <1>1, <1>3
<1>6. /\ Cardinality(Unsettled(t)) = 0 /\ row[t].failures = dead[t]
      /\ Enqueued(t)
  BY <1>2 DEF Inv, Settlement, CountsAreExact, BatchesAreNew
<1>7. Unsettled(t) = {}
  BY <1>6, UnsettledFinite DEF Inv
<1>8. /\ \A u \in Traces : Present(u)' => Present(u)
      /\ \A u \in Traces : lock[u] # None => row'[u] = row[u]
  BY <1>4 DEF Present
<1>9. Locking'
  BY <1>8, LockingKept DEF Inv, Present, Open
<1>10. ASSUME NEW u \in Traces, Present(u)'
       PROVE  /\ Present(u) /\ row'[u].pending = row[u].pending
              /\ row'[u].failures = row[u].failures
              /\ row'[u].notified => row[u].notified \/ row[u].pending = 0
  <2>1. CASE u = t
    BY <1>2, <1>3, <1>4, <2>1
  <2>2. CASE u # t
    BY <1>4, <1>8, <1>10, <2>2
  <2>. QED
    BY <2>1, <2>2
<1>11. row'[t].notified
  BY <1>3, <1>4
<1>. QED
  BY <1>2, <1>4, <1>5, <1>6, <1>7, <1>9, <1>10, <1>11

LEMMA NotifierClaimsInv ==
    ASSUME Inv, NEW i \in Instances, NotifierClaims(i) PROVE Inv'
<1>1. PICK t \in page[i] :
        /\ Free(t, None)
        /\ page' = [page EXCEPT ![i] = @ \ {t}]
        /\ IF Present(t) /\ Claimable(i, t, row[t])
           THEN /\ row' = [row EXCEPT ![t] = Claimed(@)]
                /\ Deliver([trace |-> t, failures |-> row[t].failures])
           ELSE UNCHANGED <<row, subVars>>
        /\ UNCHANGED <<msgVars, ackVars, report, clearing, doomed, up, faults, lost>>
  BY DEF NotifierClaims
<1>2. t \in Traces /\ lock[t] = None /\ page' \in [Instances -> SUBSET Traces]
  BY <1>1 DEF Inv, TypeOK, Free
<1>3. CASE Present(t) /\ Claimable(i, t, row[t])
  <2>. DEFINE o == [trace |-> t, failures |-> row[t].failures]
  <2>1. /\ row' \in [Traces -> RowType \cup {None}] /\ Locking'
        /\ Enqueued(t) /\ Unsettled(t) = {} /\ row[t].failures = dead[t]
        /\ row[t].failures \in Nat /\ row'[t].notified
        /\ \A u \in Traces : Present(u)' =>
             /\ Present(u) /\ row'[u].pending = row[u].pending
             /\ row'[u].failures = row[u].failures
             /\ row'[u].notified => row[u].notified \/ row[u].pending = 0
        /\ \A u \in Traces \ {t} : row'[u] = row[u]
    BY <1>1, <1>2, <1>3, ClaimedRow
  <2>2. o \in Outcomes /\ o.trace = t /\ o.failures = dead[t] /\ Deliver(o)
    BY <1>1, <1>2, <1>3, <2>1 DEF Outcomes
  <2>. HIDE DEF o
  <2>3. /\ sub' \in [Traces -> {"unused", "inflight", "retrying", "completed", "closed",
                                "dropped"}]
        /\ told' \in [Traces -> Nat \cup {None}]
        /\ \A u \in Traces : sub'[u] = "completed" =>
             \/ sub[u] = "completed" /\ told'[u] = told[u]
             \/ Enqueued(u) /\ Unsettled(u) = {} /\ told'[u] = dead[u]
        /\ \A u \in Traces : Waiting(u)' => Waiting(u) /\ u # t
    BY <2>1, <2>2, Delivery DEF Inv
  <2>4. TypeOK'
    BY <1>1, <1>2, <2>1, <2>3 DEF Inv, TypeOK
  <2>5. NoMailLost'
    BY <1>1, <2>1, <2>3 DEF Inv, Settlement, NoMailLost, Present
  <2>6. Settlement'
    BY <1>1, <2>1, <2>3, <2>5, SettlementKept DEF Inv
  <2>. QED
    BY <2>1, <2>4, <2>6 DEF Inv
<1>4. CASE ~(Present(t) /\ Claimable(i, t, row[t]))
  <2>1. UNCHANGED <<msgVars, row, ackVars, subVars, lost>>
    BY <1>1, <1>4
  <2>2. TypeOK'
    BY <1>1, <1>2, <2>1 DEF Inv, TypeOK
  <2>3. Settlement'
    BY <2>1, SettlementQuiet DEF Inv, Waiting
  <2>4. Locking'
    BY <2>1, LockingKept DEF Inv, Present, Open
  <2>. QED
    BY <2>2, <2>3, <2>4 DEF Inv
<1>. QED
  BY <1>3, <1>4

LEMMA ClaimUnheardInv ==
    ASSUME Inv, NEW i \in Instances, ClaimUnheard(i) PROVE Inv'
<1>1. PICK t \in page[i] :
        /\ Free(t, None) /\ Present(t) /\ Claimable(i, t, row[t])
        /\ Fault
        /\ row' = [row EXCEPT ![t] = Claimed(@)]
        /\ lost' = lost \cup {t}
        /\ page' = [page EXCEPT ![i] = {}]
        /\ UNCHANGED <<msgVars, ackVars, report, clearing, subVars, doomed, up>>
  BY DEF ClaimUnheard
<1>2. t \in Traces /\ lock[t] = None /\ page' \in [Instances -> SUBSET Traces]
  BY <1>1 DEF Inv, TypeOK, Free
<1>3. /\ row' \in [Traces -> RowType \cup {None}] /\ Locking'
      /\ \A u \in Traces : Present(u)' =>
           /\ Present(u) /\ row'[u].pending = row[u].pending
           /\ row'[u].failures = row[u].failures
           /\ row'[u].notified => row[u].notified \/ row[u].pending = 0
      /\ \A u \in Traces \ {t} : row'[u] = row[u]
  BY <1>1, <1>2, ClaimedRow
<1>4. TypeOK'
  <2>1. faults' \in 0..MaxFaults
    BY <1>1, TraceAssumption DEF Inv, TypeOK, Fault
  <2>2. lost' \subseteq Traces
    BY <1>1, <1>2 DEF Inv, TypeOK
  <2>. QED
    BY <1>1, <1>2, <1>3, <2>1, <2>2 DEF Inv, TypeOK, msgVars, ackVars, subVars
<1>5. NoMailLost'
  BY <1>1, <1>3 DEF Inv, Settlement, NoMailLost, Waiting
<1>6. Settlement'
  BY <1>1, <1>3, <1>5, SettlementKept DEF Inv
<1>. QED
  BY <1>3, <1>4, <1>6 DEF Inv

LEMMA SweepDeletesInv == ASSUME Inv, SweepDeletes PROVE Inv'
<1>1. /\ UNCHANGED <<msgVars, ackVars, subVars>> /\ \A t \in doomed : lock[t] = None
      /\ row' = [t \in Traces |-> IF t \in doomed THEN None ELSE row[t]]
  BY DEF SweepDeletes
<1>2. \A t \in Traces : Present(t)' => Present(t) /\ row'[t] = row[t]
  BY <1>1 DEF Present
<1>3. \A t \in Traces : lock[t] # None => row'[t] = row[t]
  BY <1>1
<1>4. TypeOK'
  BY DEF Inv, TypeOK, SweepDeletes
<1>5. NoMailLost'
  BY <1>1, <1>2 DEF Inv, Settlement, NoMailLost, SweepDeletes, Waiting
<1>6. Settlement'
  BY <1>1, <1>2, <1>5, SettlementKept DEF Inv
<1>7. Locking'
  BY <1>1, <1>2, <1>3, LockingKept DEF Inv, Present, Open
<1>. QED
  BY <1>4, <1>6, <1>7 DEF Inv

LEMMA TickInv == ASSUME Inv, Tick PROVE Inv'
<1>1. /\ UNCHANGED <<msgVars, ackVars, workerVars, subVars, doomed, up, faults, lost>>
      /\ row' = [t \in Traces |->
                   IF Present(t) /\ row[t].age < MaxAge
                   THEN [row[t] EXCEPT !.age = @ + 1] ELSE row[t]]
  BY DEF Tick
<1>2. ASSUME NEW t \in Traces, Present(t)
      PROVE  /\ row'[t] \in RowType /\ row'[t].pending = row[t].pending
             /\ row'[t].failures = row[t].failures /\ row'[t].notified = row[t].notified
  <2>1. row[t] \in RowType
    BY <1>2, Presence DEF Inv
  <2>2. CASE row[t].age < MaxAge
    BY <1>1, <1>2, <2>1, <2>2, Ageing
  <2>3. CASE ~(row[t].age < MaxAge)
    BY <1>1, <1>2, <2>1, <2>3
  <2>. QED
    BY <2>2, <2>3
<1>3. \A t \in Traces : ~Present(t) => row'[t] = row[t] /\ ~Present(t)'
  BY <1>1 DEF Present
<1>4. row' \in [Traces -> RowType \cup {None}]
  BY <1>1, <1>2, <1>3 DEF Inv, TypeOK
<1>5. TypeOK'
  BY <1>1, <1>4 DEF Inv, TypeOK
<1>6. \A t \in Traces : Present(t)' => Present(t)
  BY <1>3
<1>7. \A t \in Traces : Present(t) => Present(t)'
  BY <1>2, NoneAssumption DEF Present
<1>8. NoMailLost'
  BY <1>1, <1>2, <1>6 DEF Inv, Settlement, NoMailLost, Waiting
<1>9. Settlement'
  BY <1>1, <1>2, <1>6, <1>8, SettlementKept DEF Inv
<1>10. Locking'
  BY <1>1, <1>2, <1>6, <1>7, LockingKept DEF Inv, Open
<1>. QED
  BY <1>5, <1>9, <1>10 DEF Inv
-----------------------------------------------------------------------------
(* Acknowledgements: locks, fences and statements.                         *)

\* An instance ends its transaction, whether it commits or not.
LEMMA LockingReleased ==
    ASSUME TypeOK, Locking, NEW i \in Instances, queue' = queue, lock' = Unlocked(i),
           job' = [job EXCEPT ![i] = None],
           \A k \in Instances \ {i} : todo'[k] = todo[k] /\ mail'[k] \subseteq mail[k],
           \A p \in Partitions : lease'[p] # None =>
             lease'[p] = lease[p] /\ cursor'[p] = cursor[p],
           \A p \in Partitions : lock[p] \notin {None, i} => lease'[p] = lease[p],
           \A t \in Traces : Present(t)' => Present(t),
           \A t \in Traces : lock[t] \notin {None, i} => row'[t] = row[t]
    PROVE  Locking'
<1>1. /\ None \notin Instances /\ job'[i] = None
      /\ \A k \in Instances \ {i} : job'[k] = job[k]
      /\ Rows = Traces \cup Partitions
  BY TraceAssumption DEF TypeOK, Rows
<1>2. \A r \in Rows : /\ lock'[r] # None => lock'[r] = lock[r] /\ lock[r] \notin {None, i}
                      /\ \A k \in Instances \ {i} : lock'[r] = k <=> lock[r] = k
                      /\ lock[r] \in Instances \cup {None}
  BY <1>1 DEF Unlocked, TypeOK
<1>3. JobsAreSlices'
  BY <1>1 DEF Locking, JobsAreSlices
<1>4. LeasesAreFresh'
  <2>1. ASSUME NEW k \in Instances \ {i}, job[k] # None, lease'[job[k].p] = k
        PROVE  cursor'[job[k].p] = job[k].from
    <3>1. job[k].p \in Partitions
      BY <2>1, JobMessages
    <3>2. lease[job[k].p] = k /\ cursor'[job[k].p] = cursor[job[k].p]
      BY <1>1, <2>1, <3>1
    <3>. QED
      BY <2>1, <3>2 DEF Locking, LeasesAreFresh
  <2>. QED
    BY <1>1, <2>1 DEF LeasesAreFresh
<1>5. LocksAreHeld'
  <2>1. ASSUME NEW r \in Rows, lock'[r] # None
        PROVE  /\ job'[lock'[r]] = job[lock[r]] /\ lock'[r] = lock[r] /\ lock[r] # None
               /\ job[lock[r]] # None
    BY <1>1, <1>2, <2>1 DEF Locking, LocksAreHeld
  <2>2. ASSUME NEW t \in Traces, lock'[t] # None PROVE Open(t)'
    <3>1. row'[t] = row[t] /\ Open(t)
      BY <1>1, <1>2, <2>2 DEF Locking, LocksAreHeld
    <3>. QED
      BY <3>1 DEF Open, Present
  <2>3. ASSUME NEW p \in Partitions, lock'[p] # None
        PROVE  job[lock[p]].p = p /\ lease'[p] = lock[p]
    BY <1>1, <1>2, <2>3 DEF Locking, LocksAreHeld
  <2>. QED
    BY <1>1, <2>1, <2>2, <2>3 DEF LocksAreHeld
<1>6. StatementsCover'
  <2>1. ASSUME NEW k \in Instances \ {i}, job[k] # None
        PROVE  /\ job[k].p \in Rows
               /\ \A n \in job[k].from + 1..job[k].upto :
                     queue[job[k].p][n] \in Traces \cap Rows
    BY <1>1, <2>1, JobMessages
  <2>. QED
    BY <1>1, <1>2, <2>1 DEF Locking, StatementsCover, Covered, ToWrite
<1>. QED
  BY <1>3, <1>4, <1>5, <1>6 DEF Locking

LEMMA RolledBackInv ==
    ASSUME Inv, NEW i \in Instances, RolledBack(i), faults' \in 0..MaxFaults PROVE Inv'
<1>1. TypeOK'
  BY EmptySeq DEF Inv, TypeOK, RolledBack, Unlocked
<1>2. Settlement'
  BY SettlementQuiet DEF Inv, RolledBack, Waiting
<1>3. Locking'
  BY LockingReleased DEF Inv, TypeOK, RolledBack, Present
<1>. QED
  BY <1>1, <1>2, <1>3 DEF Inv

LEMMA AbortsInv ==
    ASSUME Inv, NEW i \in Instances, LeaseLost(i) \/ DeadlockAbort(i) \/ TxFails(i)
    PROVE  Inv'
<1>1. RolledBack(i) /\ faults' \in 0..MaxFaults
  BY TraceAssumption DEF Inv, TypeOK, LeaseLost, DeadlockAbort, TxFails, Fault
<1>. QED
  BY <1>1, RolledBackInv

LEMMA StopInv == ASSUME Inv, NEW i \in Instances, Stop(i) PROVE Inv'
<1>1. TypeOK'
  BY EmptySeq, TraceAssumption DEF Inv, TypeOK, Stop, Unlocked, Closed, Fault
<1>2. \A t \in Traces : Waiting(t)' => Waiting(t) /\ Owner[t] # i
  BY DEF Inv, TypeOK, Stop, Closed, Entries, Waiting
<1>3. /\ \A t \in Traces : sub'[t] = "completed" => sub[t] = "completed"
      /\ \A k \in Instances : mail'[k] \subseteq mail[k] /\ (k # i => mail'[k] = mail[k])
      /\ \A k \in Instances \ {i} : todo'[k] = todo[k]
  BY DEF Inv, TypeOK, Stop, Closed
<1>4. Settlement'
  BY <1>2, <1>3, SettlementQuiet, TraceAssumption DEF Inv, Stop
<1>5. Locking'
  BY <1>3, LockingReleased DEF Inv, Stop, Present
<1>. QED
  BY <1>1, <1>4, <1>5 DEF Inv

LEMMA SliceRows ==
    ASSUME TypeOK, NEW p \in Partitions, NEW a \in Nat, NEW b \in Nat, a < b,
           b <= Len(queue[p])
    PROVE  /\ Slice(p, a, b) # {} /\ Slice(p, a, b) \subseteq Traces
           /\ \A k \in a + 1..b : queue[p][k] \in Slice(p, a, b)
<1>1. queue[p] \in Seq(Traces) /\ Len(queue[p]) \in Nat
  BY LenProperties DEF TypeOK
<1>2. \A k \in a + 1..b : k \in 1..Len(queue[p]) /\ queue[p][k] \in Traces
  BY <1>1, ElementOfSeq
<1>3. a + 1 \in a + 1..b
  OBVIOUS
<1>. QED
  BY <1>2, <1>3 DEF Slice

\* The statements of a new transaction: the fence comes before the first trace that
\* is settled, and none of these is left out.
LEMMA StatementsComplete ==
    ASSUME TypeOK, NEW p \in Partitions, NEW from \in Nat, NEW upto \in Nat,
           NEW last \in Nat, from <= upto, upto <= last, from < last,
           last <= Len(queue[p]), NEW s, s = Statements(p, from, upto, last)
    PROVE  /\ s \in Seq(SUBSET Rows)
           /\ \A n \in 1..Len(s) : s[n] = {p} \/ (s[n] # {} /\ s[n] \subseteq Traces)
           /\ \E n \in 1..Len(s) : p \in s[n]
           /\ from < upto => Head(s) = {p}
           /\ \A k \in from + 1..upto : \E n \in 1..Len(s) : queue[p][k] \in s[n]
<1>0. Len(queue[p]) \in Nat /\ {p} \in SUBSET Rows /\ SUBSET Traces \subseteq SUBSET Rows
  BY LenProperties DEF TypeOK, Rows
<1>1. CASE upto = from
  <2>. DEFINE a == Slice(p, from, last)
  <2>1. a # {} /\ a \subseteq Traces
    BY SliceRows
  <2>2. s = <<a, {p}>>
    BY <1>1 DEF Statements
  <2>. HIDE DEF a
  <2>3. s \in Seq(SUBSET Rows) /\ Len(s) = 2 /\ s[1] = a /\ s[2] = {p} /\ Head(s) = s[1]
    BY <1>0, <2>1, <2>2
  <2>4. 1..Len(s) = {1, 2}
    BY <2>3
  <2>. QED
    BY <1>1, <2>1, <2>3, <2>4
<1>2. CASE from < upto /\ upto = last
  <2>. DEFINE a == Slice(p, from, upto)
  <2>1. a # {} /\ a \subseteq Traces /\ \A k \in from + 1..upto : queue[p][k] \in a
    BY <1>2, SliceRows
  <2>2. s = <<{p}, a>>
    BY <1>2 DEF Statements
  <2>. HIDE DEF a
  <2>3. s \in Seq(SUBSET Rows) /\ Len(s) = 2 /\ s[1] = {p} /\ s[2] = a /\ Head(s) = s[1]
    BY <1>0, <2>1, <2>2
  <2>4. 1..Len(s) = {1, 2}
    BY <2>3
  <2>. QED
    BY <1>2, <2>1, <2>3, <2>4
<1>3. CASE from < upto /\ upto < last
  <2>. DEFINE a == Slice(p, from, upto)
              b == Slice(p, upto, last)
  <2>1. a # {} /\ a \subseteq Traces /\ \A k \in from + 1..upto : queue[p][k] \in a
    BY <1>0, <1>3, SliceRows
  <2>2. b # {} /\ b \subseteq Traces
    BY <1>0, <1>3, SliceRows
  <2>3. s = <<{p}, a, b>>
    BY <1>3 DEF Statements
  <2>. HIDE DEF a, b
  <2>. QED
    BY <1>0, <1>3, <2>1, <2>2, <2>3
<1>4. upto = from \/ (from < upto /\ upto = last) \/ (from < upto /\ upto < last)
  OBVIOUS
<1>. QED
  BY <1>1, <1>2, <1>3, <1>4, Zenon

LEMMA TakeAndHandleInv ==
    ASSUME Inv, NEW i \in Instances, NEW p \in Partitions,
           NEW upto \in cursor[p]..BatchEnd(p),
           NEW bad \in SUBSET (cursor[p] + 1..upto), TakeAndHandle(i, p, upto, bad)
    PROVE  Inv'
<1>. DEFINE j == [p |-> p, from |-> cursor[p], upto |-> upto, last |-> BatchEnd(p),
                  bad |-> bad]
            s == Statements(p, cursor[p], upto, BatchEnd(p))
<1>0. /\ TypeOK /\ Locking /\ cursor[p] \in Nat /\ BatchEnd(p) \in Nat /\ upto \in Nat
      /\ cursor[p] <= upto /\ upto <= BatchEnd(p) /\ cursor[p] < BatchEnd(p)
      /\ BatchEnd(p) <= Len(queue[p]) /\ Len(queue[p]) \in Nat
  <2>1. TypeOK /\ Locking /\ cursor[p] < BatchEnd(p)
    BY DEF Inv, TakeAndHandle
  <2>2. cursor[p] \in Nat /\ Len(queue[p]) \in Nat
    BY <2>1, LenProperties DEF TypeOK
  <2>3. BatchEnd(p) \in Nat /\ BatchEnd(p) <= Len(queue[p])
    BY <2>1, BatchEndInQueue
  <2>. QED
    BY <2>1, <2>2, <2>3
<1>1. /\ UNCHANGED <<queue, cursor, dead, row, lock, mail, workerVars, subVars, doomed,
                     up, lost>>
      /\ job[i] = None /\ mail[i] = {} /\ lock[p] = None
      /\ lease' = [lease EXCEPT ![p] = i] /\ job' = [job EXCEPT ![i] = j]
      /\ todo' = [todo EXCEPT ![i] = s]
  BY DEF TakeAndHandle
<1>2. /\ s \in Seq(SUBSET Rows)
      /\ \A n \in 1..Len(s) : s[n] = {p} \/ (s[n] # {} /\ s[n] \subseteq Traces)
      /\ \E n \in 1..Len(s) : p \in s[n]
      /\ cursor[p] < upto => Head(s) = {p}
      /\ \A k \in cursor[p] + 1..upto : \E n \in 1..Len(s) : queue[p][k] \in s[n]
  BY <1>0, StatementsComplete
<1>3. /\ j \in JobType /\ j.p = p /\ j.from = cursor[p] /\ j.upto = upto
      /\ j.last = BatchEnd(p) /\ j.bad = bad
  BY <1>0 DEF JobType
<1>. HIDE DEF j, s
<1>4. faults' \in 0..MaxFaults
  BY <1>0, TraceAssumption DEF TakeAndHandle, TypeOK
<1>5. TypeOK'
  BY <1>0, <1>1, <1>2, <1>3, <1>4 DEF TypeOK
<1>6. Settlement'
  BY <1>1, SettlementQuiet DEF Inv, Waiting
<1>7. /\ job'[i] = j /\ todo'[i] = s /\ lease'[p] = i
      /\ \A k \in Instances \ {i} : job'[k] = job[k] /\ todo'[k] = todo[k]
      /\ \A q \in Partitions \ {p} : lease'[q] = lease[q]
  BY <1>0, <1>1 DEF TypeOK
<1>8. JobsAreSlices'
  BY <1>0, <1>1, <1>3, <1>7 DEF Locking, JobsAreSlices
<1>9. LeasesAreFresh'
  <2>1. ASSUME NEW k \in Instances \ {i}, job[k] # None, lease'[job[k].p] = k
        PROVE  cursor[job[k].p] = job[k].from
    <3>1. job[k].p \in Partitions \ {p}
      BY <1>0, <1>7, <2>1, JobMessages
    <3>. QED
      BY <1>0, <1>7, <2>1, <3>1 DEF Locking, LeasesAreFresh
  <2>. QED
    BY <1>1, <1>3, <1>7, <2>1 DEF LeasesAreFresh
<1>10. LocksAreHeld'
  <2>1. ASSUME NEW r \in Rows, lock[r] # None
        PROVE  lock[r] \in Instances \ {i} /\ job'[lock[r]] # None
    BY <1>0, <1>1, <1>7, <2>1 DEF Locking, LocksAreHeld, TypeOK
  <2>2. \A t \in Traces : lock[t] # None => Open(t)'
    BY <1>0, <1>1 DEF Locking, LocksAreHeld, Open, Present
  <2>. QED
    BY <1>0, <1>1, <1>7, <2>1, <2>2 DEF Locking, LocksAreHeld, Rows
<1>11. StatementsCover'
  <2>1. ASSUME NEW k \in Instances \ {i} PROVE Covered(k)'
    <3>1. Covered(k) /\ job'[k] = job[k] /\ todo'[k] = todo[k]
      BY <1>0, <1>7 DEF Locking, StatementsCover
    <3>. QED
      BY <1>1, <3>1 DEF Covered, ToWrite, Present
  <2>2. Covered(i)'
    BY <1>1, <1>2, <1>3, <1>7 DEF Covered, ToWrite
  <2>. QED
    BY <2>1, <2>2 DEF StatementsCover
<1>. QED
  BY <1>5, <1>6, <1>8, <1>9, <1>10, <1>11 DEF Inv, Locking

\* One row less to write.
Without(s, r) ==
    IF Head(s) \ {r} = {} THEN Tail(s) ELSE <<Head(s) \ {r}>> \o Tail(s)

LEMMA TodoShrinks ==
    ASSUME NEW s \in Seq(SUBSET Rows), s # <<>>, NEW r
    PROVE  /\ Without(s, r) \in Seq(SUBSET Rows)
           /\ \A n \in 1..Len(Without(s, r)) :
                 \/ Without(s, r)[n] = Head(s) \ {r} /\ Without(s, r)[n] # {}
                 \/ \E m \in 1..Len(s) : Without(s, r)[n] = s[m]
           /\ \A x : x # r /\ (\E n \in 1..Len(s) : x \in s[n]) =>
                 \E n \in 1..Len(Without(s, r)) : x \in Without(s, r)[n]
<1>. DEFINE T == Without(s, r)
            h == Head(s) \ {r}
            u == Tail(s)
<1>1. /\ Len(s) \in Nat \ {0} /\ Head(s) = s[1] /\ Head(s) \in SUBSET Rows
      /\ u \in Seq(SUBSET Rows) /\ Len(u) = Len(s) - 1
      /\ \A n \in 1..Len(u) : u[n] = s[n + 1]
  BY HeadTailProperties, EmptySeq
<1>. HIDE DEF u
<1>2. CASE h = {}
  <2>1. T = u
    BY <1>2 DEF u, Without
  <2>2. ASSUME NEW x, x # r, NEW n \in 1..Len(s), x \in s[n]
        PROVE  \E m \in 1..Len(u) : x \in u[m]
    <3>1. n # 1
      BY <1>1, <1>2, <2>2
    <3>2. n - 1 \in 1..Len(u) /\ u[n - 1] = s[n]
      BY <1>1, <3>1
    <3>. QED
      BY <2>2, <3>2
  <2>3. ASSUME NEW n \in 1..Len(u) PROVE \E m \in 1..Len(s) : u[n] = s[m]
    <3>1. n + 1 \in 1..Len(s) /\ u[n] = s[n + 1]
      BY <1>1
    <3>. QED
      BY <3>1
  <2>. QED
    BY <1>1, <2>1, <2>2, <2>3
<1>3. CASE h # {}
  <2>. DEFINE g == <<h>>
  <2>1. T = g \o u
    BY <1>3 DEF u, Without
  <2>2. g \in Seq(SUBSET Rows) /\ Len(g) = 1 /\ g[1] = h
    BY <1>1
  <2>. HIDE DEF g, h
  <2>3. /\ T \in Seq(SUBSET Rows) /\ Len(T) = Len(s)
        /\ \A n \in 1..Len(s) : T[n] = IF n <= 1 THEN h ELSE u[n - 1]
    <3>0. g \in Seq(SUBSET Rows) /\ u \in Seq(SUBSET Rows)
      BY <1>1, <2>2
    <3>1. /\ g \o u \in Seq(SUBSET Rows) /\ Len(g \o u) = Len(g) + Len(u)
          /\ \A n \in 1..Len(g) + Len(u) :
                (g \o u)[n] = IF n <= Len(g) THEN g[n] ELSE u[n - Len(g)]
      BY <3>0, ConcatProperties, Zenon
    <3>2. Len(g) + Len(u) = Len(s)
      BY <1>1, <2>2
    <3>3. ASSUME NEW n \in 1..Len(s) PROVE T[n] = IF n <= 1 THEN h ELSE u[n - 1]
      <4>1. T[n] = IF n <= Len(g) THEN g[n] ELSE u[n - Len(g)]
        BY <2>1, <3>1, <3>2
      <4>2. n <= 1 => g[n] = h
        BY <1>1, <2>2
      <4>. QED
        BY <2>2, <4>1, <4>2
    <3>. QED
      BY <2>1, <3>1, <3>2, <3>3
  <2>4. T[1] = h /\ \A n \in 1..Len(s) : n # 1 => T[n] = s[n]
    <3>1. ASSUME NEW n \in 1..Len(s), n # 1 PROVE T[n] = s[n]
      <4>1. n - 1 \in 1..Len(u) /\ ~(n <= 1) /\ (n - 1) + 1 = n
        BY <1>1, <3>1
      <4>2. T[n] = u[n - 1]
        BY <2>3, <4>1
      <4>3. u[n - 1] = s[(n - 1) + 1]
        BY <1>1, <4>1
      <4>. QED
        BY <4>1, <4>2, <4>3
    <3>2. 1 \in 1..Len(s) /\ 1 <= 1
      BY <1>1
    <3>. QED
      BY <2>3, <3>1, <3>2
  <2>5. ASSUME NEW n \in 1..Len(T)
        PROVE  \/ T[n] = h /\ T[n] # {}
               \/ \E m \in 1..Len(s) : T[n] = s[m]
    BY <1>3, <2>3, <2>4
  <2>6. ASSUME NEW x, x # r, NEW n \in 1..Len(s), x \in s[n]
        PROVE  \E m \in 1..Len(T) : x \in T[m]
    <3>1. CASE n = 1
      BY <1>1, <2>3, <2>4, <2>6, <3>1 DEF h
    <3>2. CASE n # 1
      BY <2>3, <2>4, <2>6, <3>2
    <3>. QED
      BY <3>1, <3>2
  <2>. QED
    BY <2>3, <2>5, <2>6 DEF h
<1>. QED
  BY <1>2, <1>3

\* A trace that is written finds its row, unless the row was collected: the fence
\* was passed before, so its messages are not settled yet and the row is open.
LEMMA WriteRowInv == ASSUME Inv, NEW i \in Instances, WriteRow(i) PROVE Inv'
<1>. DEFINE p == job[i].p
            r == NextRow(i)
<1>0. /\ TypeOK /\ Locking /\ Covered(i) /\ job[i] # None /\ todo[i] # <<>>
      /\ todo[i] \in Seq(SUBSET Rows) /\ Free(r, i) /\ (r \in Partitions => Fenced(i))
      /\ lock' = (IF r \in Partitions \/ Open(r) THEN [lock EXCEPT ![r] = i] ELSE lock)
      /\ todo' = [todo EXCEPT ![i] =
                    IF Head(@) \ {r} = {} THEN Tail(@) ELSE <<Head(@) \ {r}>> \o Tail(@)]
      /\ UNCHANGED <<msgVars, row, job, mail, workerVars, subVars, doomed, up, faults, lost>>
  BY DEF Inv, Locking, StatementsCover, TypeOK, WriteRow
<1>1. /\ p \in Partitions /\ None \notin Instances /\ Traces \cap Partitions = {}
      /\ \A k \in job[i].from + 1..job[i].upto : queue[p][k] \in Traces
      /\ lock \in [Rows -> Instances \cup {None}] /\ Rows = Traces \cup Partitions
  BY <1>0, JobMessages, TraceAssumption DEF TypeOK, Rows
<1>2. /\ Head(todo[i]) = {p} \/ (Head(todo[i]) # {} /\ Head(todo[i]) \subseteq Traces)
      /\ Len(todo[i]) \in Nat \ {0} /\ Head(todo[i]) = todo[i][1]
  <2>1. Len(todo[i]) \in Nat \ {0} /\ Head(todo[i]) = todo[i][1]
    BY <1>0, HeadTailProperties, EmptySeq
  <2>. QED
    BY <1>0, <2>1 DEF Covered
<1>3. r \in Head(todo[i])
  BY <1>2, LeastIsMember DEF NextRow
<1>4. r \in Traces \/ (r = p /\ Head(todo[i]) = {p})
  BY <1>2, <1>3
<1>. HIDE DEF r
<1>5. /\ todo'[i] \in Seq(SUBSET Rows)
      /\ \A n \in 1..Len(todo'[i]) :
            \/ todo'[i][n] = Head(todo[i]) \ {r} /\ todo'[i][n] # {}
            \/ \E m \in 1..Len(todo[i]) : todo'[i][n] = todo[i][m]
      /\ \A x : x # r /\ (\E n \in 1..Len(todo[i]) : x \in todo[i][n]) =>
            \E n \in 1..Len(todo'[i]) : x \in todo'[i][n]
  <2>1. todo'[i] = Without(todo[i], r)
    BY <1>0 DEF TypeOK, Without
  <2>2. todo[i] \in Seq(SUBSET Rows) /\ todo[i] # <<>>
    BY <1>0
  <2>. QED
    BY <2>1, <2>2, TodoShrinks
<1>6. /\ lock[r] \in {None, i}
      /\ \A x \in Rows \ {r} : lock'[x] = lock[x]
      /\ lock'[r] # None => lock'[r] = i
      /\ r \in Partitions \/ Open(r) => lock'[r] = i
      /\ lock'[r] # lock[r] => r \in Partitions \/ Open(r)
  BY <1>0, <1>1, <1>4 DEF Free
<1>7. TypeOK'
  <2>1. todo' \in [Instances -> Seq(SUBSET Rows)] /\ lock' \in [Rows -> Instances \cup {None}]
    BY <1>0, <1>1, <1>5 DEF TypeOK
  <2>. QED
    BY <1>0, <2>1 DEF TypeOK
<1>8. Settlement'
  BY <1>0, SettlementQuiet DEF Inv, Waiting
<1>9. JobsAreSlices' /\ LeasesAreFresh'
  BY <1>0 DEF Locking, JobsAreSlices, LeasesAreFresh
<1>10. LocksAreHeld'
  <2>1. ASSUME NEW x \in Rows, lock'[x] # None PROVE job[lock'[x]] # None
    BY <1>0, <1>6, <2>1 DEF Locking, LocksAreHeld
  <2>2. ASSUME NEW t \in Traces, lock'[t] # None PROVE Open(t)
    BY <1>0, <1>1, <1>6, <2>2 DEF Locking, LocksAreHeld
  <2>3. ASSUME NEW q \in Partitions, lock'[q] # None
        PROVE  job[lock'[q]].p = q /\ lease[q] = lock'[q]
    BY <1>0, <1>1, <1>4, <1>6, <2>3 DEF Locking, LocksAreHeld, Fenced
  <2>. QED
    BY <1>0, <2>1, <2>2, <2>3 DEF LocksAreHeld, Open, Present
<1>11. ASSUME NEW k \in Instances \ {i} PROVE Covered(k)'
  <2>1. Covered(k) /\ job'[k] = job[k] /\ todo'[k] = todo[k]
    BY <1>0 DEF Locking, StatementsCover, TypeOK
  <2>2. \A x \in Rows : lock'[x] = k <=> lock[x] = k
    BY <1>1, <1>6
  <2>3. job[k] # None =>
          /\ job[k].p \in Rows
          /\ \A n \in job[k].from + 1..job[k].upto : queue[job[k].p][n] \in Rows
    BY <1>0, <1>1, JobMessages
  <2>. QED
    BY <1>0, <2>1, <2>2, <2>3 DEF Covered, ToWrite, Present
<1>12. Covered(i)'
  <2>1. ASSUME NEW n \in 1..Len(todo'[i])
        PROVE  todo'[i][n] = {p} \/ (todo'[i][n] # {} /\ todo'[i][n] \subseteq Traces)
    <3>1. CASE todo'[i][n] = Head(todo[i]) \ {r} /\ todo'[i][n] # {}
      BY <1>2, <1>4, <3>1
    <3>2. CASE \E m \in 1..Len(todo[i]) : todo'[i][n] = todo[i][m]
      BY <1>0, <3>2 DEF Covered
    <3>. QED
      BY <1>5, <3>1, <3>2
  <2>2. ASSUME lock'[p] # i
        PROVE  /\ \E n \in 1..Len(todo'[i]) : p \in todo'[i][n]
               /\ ~(job[i].from < job[i].upto)
    <3>1. r # p /\ lock[p] # i
      BY <1>1, <1>6, <2>2
    <3>2. \E n \in 1..Len(todo[i]) : p \in todo[i][n]
      BY <1>0, <3>1 DEF Covered, ToWrite
    <3>3. ~(job[i].from < job[i].upto)
      BY <1>0, <1>3, <3>1 DEF Covered
    <3>. QED
      BY <1>5, <3>1, <3>2, <3>3
  <2>3. ASSUME NEW k \in job[i].from + 1..job[i].upto
        PROVE  LET t == queue[p][k] IN
               \/ lock'[t] = i \/ ~Present(t)
               \/ \E n \in 1..Len(todo'[i]) : t \in todo'[i][n]
    <3>. DEFINE t == queue[p][k]
    <3>1. t \in Traces /\ (lock[t] = i \/ ~Present(t) \/ ToWrite(i, t))
      BY <1>0, <1>1 DEF Covered
    <3>2. CASE t # r
      BY <1>1, <1>5, <1>6, <3>1, <3>2 DEF ToWrite
    <3>3. CASE t = r /\ Present(t)
      <4>1. r # p /\ Head(todo[i]) # {p}
        BY <1>1, <1>3, <3>1, <3>3
      <4>2. /\ job[i].from \in Nat /\ job[i].upto \in Nat /\ job[i].from < job[i].upto
            /\ Len(queue[p]) \in Nat /\ job[i].upto <= Len(queue[p])
        BY <1>0, JobMessages
      <4>3. lock[p] = i
        BY <1>0, <4>1, <4>2 DEF Covered
      <4>4. cursor[p] = job[i].from
        BY <1>0, <1>1, <4>3 DEF Locking, LocksAreHeld, LeasesAreFresh
      <4>5. k \in cursor[p] + 1..Len(queue[p])
        BY <4>2, <4>4
      <4>6. <<p, k>> \in Unsettled(t)
        BY <1>1, <4>5, UnsettledElements
      <4>7. Cardinality(Unsettled(t)) \in Nat \ {0}
        BY <1>0, <4>6, UnsettledFinite
      <4>8. Open(t)
        BY <3>1, <3>3, <4>7 DEF Inv, Settlement, CountsAreExact, Open
      <4>. QED
        BY <1>6, <3>3, <4>8
    <3>. QED
      BY <3>2, <3>3
  <2>. QED
    BY <1>0, <2>1, <2>2, <2>3 DEF Covered, ToWrite, Present
<1>. QED
  BY <1>7, <1>8, <1>9, <1>10, <1>11, <1>12 DEF Inv, Locking, StatementsCover
-----------------------------------------------------------------------------
(* The two actions that move messages: enqueue and commit.                 *)

LEMMA EnqueueBatchInv == ASSUME Inv, NEW t \in Traces, EnqueueBatch(t) PROVE Inv'
<1>0. /\ TypeOK /\ Settlement /\ Locking /\ ~Enqueued(t)
      /\ row' = [row EXCEPT ![t] = NewRow(t)]
      /\ queue' = [p \in Partitions |-> queue[p] \o [k \in 1..Batch[t][p] |-> t]]
      /\ UNCHANGED <<cursor, lease, dead, ackVars, workerVars, subVars, doomed, up,
                     faults, lost>>
  BY DEF Inv, EnqueueBatch
<1>1. /\ NewRow(t) \in RowType /\ NewRow(t).pending = Cardinality(Entities(t))
      /\ NewRow(t).failures = 0 /\ NewRow(t).notified = FALSE
  BY EntitiesFinite, MaxAgeIsNat DEF NewRow, RowType
<1>2. row'[t] = NewRow(t) /\ \A u \in Traces \ {t} : row'[u] = row[u]
  BY <1>0 DEF TypeOK
<1>3. \A p \in Partitions :
        /\ queue'[p] \in Seq(Traces) /\ Len(queue[p]) \in Nat /\ Batch[t][p] \in Nat
        /\ Len(queue'[p]) = Len(queue[p]) + Batch[t][p]
        /\ \A k \in 1..Len(queue[p]) : queue'[p][k] = queue[p][k]
        /\ \A k \in Len(queue[p]) + 1..Len(queue'[p]) : queue'[p][k] = t
  BY <1>0, QueueGrows
<1>4. TypeOK'
  BY <1>0, <1>1, <1>3 DEF TypeOK
<1>5. /\ Cardinality(Unsettled(t)') = Cardinality(Entities(t))
      /\ \A u \in Traces \ {t} : Unsettled(u)' = Unsettled(u)
  BY <1>0, CountedByEnqueue DEF Settlement
<1>6. ~Present(t) /\ dead[t] = 0 /\ sub[t] # "completed"
  BY <1>0 DEF Settlement, BatchesAreNew
<1>7. ASSUME NEW u \in Traces, Enqueued(u) PROVE Enqueued(u)' /\ u # t
  <2>1. PICK p \in Partitions : \E k \in 1..Len(queue[p]) : queue[p][k] = u
    BY <1>0, <1>7, EnqueuedElements
  <2>2. PICK k \in 1..Len(queue[p]) : queue[p][k] = u
    BY <2>1
  <2>3. k \in DOMAIN queue'[p] /\ queue'[p][k] = u
    BY <1>3, <2>2
  <2>. QED
    BY <1>0, <1>7, <2>3 DEF Enqueued, Range
<1>8. Enqueued(t)'
  <2>1. PICK p \in Partitions : Batch[t][p] > 0
    BY TraceAssumption
  <2>2. Len(queue'[p]) \in DOMAIN queue'[p] /\ queue'[p][Len(queue'[p])] = t
    BY <1>3, <2>1
  <2>. QED
    BY <2>2 DEF Enqueued, Range
<1>9. CountsAreExact'
  BY <1>0, <1>1, <1>2, <1>5, <1>6 DEF Settlement, CountsAreExact, Present
<1>10. ToldTheTruth'
  BY <1>0, <1>5, <1>6 DEF Settlement, ToldTheTruth
<1>11. NoMailLost'
  BY <1>0, <1>1, <1>2 DEF Settlement, NoMailLost, Present, Waiting
<1>12. CursorsInQueue'
  <2>1. ASSUME NEW p \in Partitions PROVE cursor'[p] <= Len(queue'[p])
    <3>1. cursor'[p] = cursor[p] /\ cursor[p] \in Nat /\ cursor[p] <= Len(queue[p])
      BY <1>0 DEF Settlement, CursorsInQueue, TypeOK
    <3>. QED
      BY <1>3, <3>1
  <2>. QED
    BY <2>1 DEF CursorsInQueue
<1>13. BatchesAreNew'
  BY <1>0, <1>2, <1>7, <1>8 DEF Settlement, BatchesAreNew, Present
<1>14. NotifiedIsComplete'
  BY <1>0, <1>1, <1>2 DEF Settlement, NotifiedIsComplete, Present
<1>15. MailIsTrue'
  <2>1. ASSUME NEW i \in Instances, NEW o \in mail[i]
        PROVE  /\ o.trace \in Traces /\ Enqueued(o.trace) /\ Unsettled(o.trace) = {}
               /\ o.failures = dead[o.trace]
    <3>1. mail[i] \subseteq Outcomes
      BY <1>0 DEF TypeOK
    <3>2. o.trace \in Traces
      BY <3>1 DEF Outcomes
    <3>. QED
      BY <1>0, <3>2 DEF Settlement, MailIsTrue
  <2>. QED
    BY <1>0, <1>5, <1>7, <2>1 DEF MailIsTrue
<1>16. JobsAreSlices'
  <2>1. ASSUME NEW i \in Instances, job[i] # None
        PROVE  job[i].last \in Nat /\ job[i].last <= Len(queue'[job[i].p])
    <3>1. job[i].p \in Partitions /\ job[i].last \in Nat /\ job[i].last <= Len(queue[job[i].p])
      BY <1>0, <2>1 DEF TypeOK, JobType, Locking, JobsAreSlices
    <3>. QED
      BY <1>3, <3>1
  <2>. QED
    BY <1>0, <2>1 DEF Locking, JobsAreSlices
<1>17. LeasesAreFresh'
  BY <1>0 DEF Locking, LeasesAreFresh
<1>18. LocksAreHeld'
  <2>1. ASSUME NEW u \in Traces, lock[u] # None PROVE Open(u)'
    <3>1. Open(u)
      BY <1>0, <2>1 DEF Locking, LocksAreHeld
    <3>2. u # t
      BY <1>6, <3>1 DEF Open
    <3>. QED
      BY <1>2, <3>1, <3>2 DEF Open, Present
  <2>. QED
    BY <1>0, <2>1 DEF Locking, LocksAreHeld
<1>19. ASSUME NEW i \in Instances PROVE Covered(i)'
  <2>1. ASSUME job[i] # None, NEW k \in job[i].from + 1..job[i].upto
        PROVE  /\ queue'[job[i].p][k] = queue[job[i].p][k]
               /\ queue[job[i].p][k] \in Traces \ {t}
    <3>1. /\ job[i].p \in Partitions /\ job[i].from \in Nat /\ job[i].upto \in Nat
          /\ Len(queue[job[i].p]) \in Nat /\ job[i].upto <= Len(queue[job[i].p])
          /\ queue[job[i].p][k] \in Traces
      BY <1>0, <2>1, JobMessages
    <3>2. k \in 1..Len(queue[job[i].p])
      BY <3>1
    <3>3. Enqueued(queue[job[i].p][k])
      BY <1>0, <3>1, <3>2, EnqueuedElements
    <3>. QED
      BY <1>0, <1>3, <3>1, <3>2, <3>3
  <2>2. Covered(i)
    BY <1>0 DEF Locking, StatementsCover
  <2>3. job'[i] = job[i] /\ todo'[i] = todo[i] /\ lock' = lock
    BY <1>0
  <2>4. \A u \in Traces \ {t} : Present(u)' = Present(u)
    BY <1>2 DEF Present
  <2>. QED
    BY <2>1, <2>2, <2>3, <2>4 DEF Covered, ToWrite
<1>20. Settlement'
  BY <1>9, <1>10, <1>11, <1>12, <1>13, <1>14, <1>15 DEF Settlement
<1>. QED
  BY <1>4, <1>16, <1>17, <1>18, <1>19, <1>20 DEF Inv, Locking, StatementsCover

\* What a commit makes of a row: the settled messages are taken off, the rejected
\* ones added, and only the submitter claims a completion.
LEMMA AckedRow ==
    ASSUME NEW i \in Instances, NEW j, NEW t \in Traces, row[t] \in RowType,
           ~row[t].notified, Terminal(j, t) \in Nat, Rejected(j, t) \in Nat,
           Terminal(j, t) = 0 => Rejected(j, t) = 0, row[t].pending - Terminal(j, t) \in Nat
    PROVE  /\ Acked(i, j, t) \in RowType
           /\ Acked(i, j, t).pending = row[t].pending - Terminal(j, t)
           /\ Acked(i, j, t).failures = row[t].failures + Rejected(j, t)
           /\ Acked(i, j, t).notified => Acked(i, j, t).pending = 0 /\ Owner[t] = i
<1>. DEFINE a == Advanced(row[t], j, t)
            c == IF Claimable(i, t, a) THEN Claimed(a) ELSE a
<1>1. /\ a \in RowType /\ a.pending = row[t].pending - Terminal(j, t)
      /\ a.failures = row[t].failures + Rejected(j, t) /\ ~a.notified
  <2>1. CASE Terminal(j, t) = 0
    BY <2>1 DEF Advanced, RowType
  <2>2. CASE Terminal(j, t) # 0
    <3>. DEFINE n == Terminal(j, t)
                age == IF row[t].pending <= n THEN 0 ELSE row[t].age
    <3>1. age \in 0..MaxAge /\ row[t].failures + Rejected(j, t) \in Nat
      BY MaxAgeIsNat DEF RowType
    <3>. HIDE DEF age
    <3>2. a = [row[t] EXCEPT !.pending = row[t].pending - n,
                             !.failures = row[t].failures + Rejected(j, t),
                             !.stuck = FALSE, !.age = age]
      BY <2>2 DEF Advanced, age
    <3>. HIDE DEF a, n
    <3>. QED
      BY <3>1, <3>2 DEF RowType, n
  <2>. QED
    BY <2>1, <2>2
<1>. HIDE DEF a
<1>2. /\ c \in RowType /\ c.pending = a.pending /\ c.failures = a.failures
      /\ c.notified => c.pending = 0 /\ Owner[t] = i
  <2>1. CASE Claimable(i, t, a)
    <3>1. c = Claimed(a) /\ a.pending <= 0 /\ Owner[t] = i /\ a.pending \in Nat
      BY <1>1, <2>1 DEF Claimable, RowType
    <3>2. /\ Claimed(a) \in RowType /\ Claimed(a).pending = a.pending
          /\ Claimed(a).failures = a.failures
      BY <1>1, RowOperations
    <3>. QED
      BY <3>1, <3>2
  <2>2. CASE ~Claimable(i, t, a)
    BY <1>1, <2>2
  <2>. QED
    BY <2>1, <2>2
<1>3. Acked(i, j, t) = IF t \in Beyond(j) THEN Retried(c) ELSE c
  BY DEF Acked, a
<1>. HIDE DEF c
<1>4. /\ Retried(c) \in RowType /\ Retried(c).pending = c.pending
      /\ Retried(c).failures = c.failures /\ Retried(c).notified = c.notified
  BY <1>2, RowOperations
<1>. QED
  BY <1>1, <1>2, <1>3, <1>4

\* A worker that commits has passed its fence, so nobody settled its batch before.
LEMMA CommitIsFenced ==
    ASSUME Inv, NEW i \in Instances, Committing(i)
    PROVE  /\ lock[job[i].p] = i /\ cursor[job[i].p] = job[i].from
           /\ \A k \in job[i].from + 1..job[i].upto :
                 Present(queue[job[i].p][k]) => lock[queue[job[i].p][k]] = i
<1>1. /\ job[i] # None /\ todo[i] = <<>> /\ Len(todo[i]) = 0 /\ Covered(i)
      /\ TypeOK /\ Locking
  BY EmptySeq DEF Committing, Inv, Locking, StatementsCover
<1>2. \A x : ~ToWrite(i, x)
  BY <1>1 DEF ToWrite
<1>3. lock[job[i].p] = i /\ job[i].p \in Partitions /\ i # None
  BY <1>1, <1>2, JobMessages, TraceAssumption DEF Covered
<1>. QED
  BY <1>1, <1>2, <1>3 DEF Covered, Locking, LocksAreHeld, LeasesAreFresh

LEMMA CommittedRows ==
    ASSUME Inv, NEW i \in Instances, Committing(i), CommitEffects(i), queue' = queue
    PROVE  /\ row' \in [Traces -> RowType \cup {None}] /\ dead' \in [Traces -> Nat]
           /\ \A t \in Traces : lock[t] # i => row'[t] = row[t]
           /\ \A t \in Traces : lock[t] = i =>
                /\ Present(t) /\ row'[t] = Acked(i, job[i], t)
                /\ row'[t].failures = dead'[t] /\ row'[t].failures \in Nat
                /\ row'[t].notified => Owner[t] = i /\ Unsettled(t)' = {}
           /\ CountsAreExact' /\ NotifiedIsComplete'
           /\ \A t \in Traces : Unsettled(t) = {} => Unsettled(t)' = {} /\ dead'[t] = dead[t]
<1>. DEFINE j == job[i]
<1>0. /\ TypeOK /\ j \in JobType /\ j # None /\ j.p \in Partitions
      /\ j.from \in Nat /\ j.upto \in Nat
      /\ j.from <= j.upto /\ j.upto <= Len(queue[j.p]) /\ j.bad \subseteq j.from + 1..j.upto
      /\ Len(queue[j.p]) \in Nat /\ lock[j.p] = i /\ cursor[j.p] = j.from
      /\ \A k \in j.from + 1..j.upto :
            queue[j.p][k] \in Traces
            /\ (Present(queue[j.p][k]) => lock[queue[j.p][k]] = i)
  <2>1. TypeOK /\ Locking /\ j # None
    BY DEF Inv, Committing
  <2>. QED
    BY <2>1, JobMessages, CommitIsFenced DEF Locking, JobsAreSlices
<1>1. /\ cursor' = [cursor EXCEPT ![j.p] = j.upto]
      /\ dead' = [t \in Traces |-> dead[t] + Rejected(j, t)]
      /\ row' = [t \in Traces |-> IF lock[t] = i THEN Acked(i, j, t) ELSE row[t]]
  BY DEF CommitEffects
<1>. HIDE DEF j
<1>2. ASSUME NEW t \in Traces
      PROVE  /\ Terminal(j, t) \in Nat /\ Rejected(j, t) \in Nat
             /\ Terminal(j, t) = 0 => Rejected(j, t) = 0
             /\ Cardinality(Unsettled(t)') = Cardinality(Unsettled(t)) - Terminal(j, t)
             /\ Cardinality(Unsettled(t)') \in Nat
             /\ Cardinality(Unsettled(t)) \in Nat
             /\ Cardinality(Unsettled(t)) = 0 <=> Unsettled(t) = {}
             /\ Cardinality(Unsettled(t)') = 0 <=> Unsettled(t)' = {}
             /\ Unsettled(t)' \subseteq Unsettled(t)
             /\ Terminal(j, t) > 0 /\ Present(t) => lock[t] = i
  <2>1. /\ Terminal(j, t) \in Nat /\ Unsettled(t)' \subseteq Unsettled(t)
        /\ Cardinality(Unsettled(t)') = Cardinality(Unsettled(t)) - Terminal(j, t)
        /\ Terminal(j, t) > 0 <=> \E k \in j.from + 1..j.upto : queue[j.p][k] = t
    BY <1>0, <1>1, SettledByCommit
  <2>2. /\ Rejected(j, t) \in Nat
        /\ Rejected(j, t) > 0 => \E k \in j.from + 1..j.upto : queue[j.p][k] = t
    BY <1>0, RejectedByCommit
  <2>3. /\ IsFiniteSet(Unsettled(t)) /\ Cardinality(Unsettled(t)) \in Nat
        /\ Cardinality(Unsettled(t)) = 0 <=> Unsettled(t) = {}
    BY <1>0, UnsettledFinite
  <2>4. IsFiniteSet(Unsettled(t)')
    BY <2>1, <2>3, FS_Subset
  <2>5. /\ Cardinality(Unsettled(t)') \in Nat
        /\ Cardinality(Unsettled(t)') = 0 <=> Unsettled(t)' = {}
    BY <2>4, FS_CardinalityType, FS_EmptySet
  <2>. QED
    BY <1>0, <2>1, <2>2, <2>3, <2>5
<1>3. ASSUME NEW t \in Traces, lock[t] = i
      PROVE  /\ Present(t) /\ row'[t] = Acked(i, j, t) /\ row'[t] \in RowType
             /\ row'[t].pending = Cardinality(Unsettled(t)')
             /\ row'[t].failures = dead'[t] /\ row'[t].failures \in Nat
             /\ row'[t].notified =>
                  row'[t].pending = 0 /\ Owner[t] = i /\ Unsettled(t)' = {}
  <2>1. Open(t) /\ Present(t)
    BY <1>3, TraceAssumption DEF Inv, Locking, LocksAreHeld, Open
  <2>2. row[t] \in RowType
    BY <1>0, <2>1, Presence
  <2>3. /\ row[t].pending = Cardinality(Unsettled(t)) /\ row[t].failures = dead[t]
        /\ ~row[t].notified
    BY <2>1, <2>2 DEF Inv, Settlement, CountsAreExact, NotifiedIsComplete, Open
  <2>4. row[t].pending - Terminal(j, t) \in Nat
    BY <1>2, <2>3
  <2>5. /\ Acked(i, j, t) \in RowType
        /\ Acked(i, j, t).pending = row[t].pending - Terminal(j, t)
        /\ Acked(i, j, t).failures = row[t].failures + Rejected(j, t)
        /\ Acked(i, j, t).notified => Acked(i, j, t).pending = 0 /\ Owner[t] = i
    BY <1>2, <2>2, <2>3, <2>4, AckedRow
  <2>6. row'[t] = Acked(i, j, t) /\ dead'[t] = dead[t] + Rejected(j, t)
    BY <1>1, <1>3
  <2>. QED
    BY <1>2, <2>1, <2>3, <2>5, <2>6 DEF RowType
<1>4. ASSUME NEW t \in Traces, lock[t] # i
      PROVE  /\ row'[t] = row[t]
             /\ Present(t) => /\ Cardinality(Unsettled(t)') = Cardinality(Unsettled(t))
                              /\ dead'[t] = dead[t]
  <2>1. row'[t] = row[t] /\ dead'[t] = dead[t] + Rejected(j, t) /\ dead[t] \in Nat
    BY <1>0, <1>1, <1>4 DEF TypeOK
  <2>2. Present(t) => Terminal(j, t) = 0 /\ Rejected(j, t) = 0
    BY <1>2, <1>4
  <2>. QED
    BY <1>2, <2>1, <2>2
<1>5. row' \in [Traces -> RowType \cup {None}]
  <2>1. ASSUME NEW t \in Traces PROVE row'[t] \in RowType \cup {None}
    BY <1>0, <1>3, <1>4 DEF TypeOK
  <2>. QED
    BY <1>1, <2>1
<1>6. dead' \in [Traces -> Nat]
  BY <1>0, <1>1, <1>2 DEF TypeOK
<1>7. CountsAreExact'
  <2>1. ASSUME NEW t \in Traces, Present(t)'
        PROVE  row'[t].pending = Cardinality(Unsettled(t)') /\ row'[t].failures = dead'[t]
    <3>1. CASE lock[t] = i
      BY <1>3, <3>1
    <3>2. CASE lock[t] # i
      <4>1. row'[t] = row[t] /\ Present(t)
        BY <1>4, <2>1, <3>2 DEF Present
      <4>. QED
        BY <1>4, <3>2, <4>1 DEF Inv, Settlement, CountsAreExact
    <3>. QED
      BY <3>1, <3>2
  <2>. QED
    BY <2>1 DEF CountsAreExact
<1>8. NotifiedIsComplete'
  <2>1. ASSUME NEW t \in Traces, Present(t)', row'[t].notified PROVE row'[t].pending = 0
    <3>1. CASE lock[t] = i
      BY <1>3, <2>1, <3>1
    <3>2. CASE lock[t] # i
      <4>1. row'[t] = row[t] /\ Present(t)
        BY <1>4, <2>1, <3>2 DEF Present
      <4>. QED
        BY <2>1, <4>1 DEF Inv, Settlement, NotifiedIsComplete
    <3>. QED
      BY <3>1, <3>2
  <2>. QED
    BY <2>1 DEF NotifiedIsComplete
<1>9. ASSUME NEW t \in Traces, Unsettled(t) = {}
      PROVE  Unsettled(t)' = {} /\ dead'[t] = dead[t]
  <2>1. Terminal(j, t) = 0 /\ Rejected(j, t) = 0 /\ Unsettled(t)' = {}
    BY <1>2, <1>9
  <2>2. dead'[t] = dead[t] + Rejected(j, t) /\ dead[t] \in Nat
    BY <1>0, <1>1 DEF TypeOK
  <2>. QED
    BY <2>1, <2>2
<1>. QED
  BY <1>3, <1>4, <1>5, <1>6, <1>7, <1>8, <1>9 DEF j

\* The completions a commit returns are true from that moment on.
LEMMA CompletionsAreTrue ==
    ASSUME Inv, NEW i \in Instances, Committing(i), CommitEffects(i), queue' = queue
    PROVE  /\ \A o \in Completions(i, job[i]) :
                /\ o \in Outcomes /\ Enqueued(o.trace)' /\ Unsettled(o.trace)' = {}
                /\ o.failures = dead'[o.trace]
           /\ \A t \in Traces : lock[t] = i /\ row'[t].notified =>
                Owner[t] = i /\ \E o \in Completions(i, job[i]) : o.trace = t
<1>1. \A t \in Traces : lock[t] = i =>
        /\ Present(t) /\ row'[t] = Acked(i, job[i], t)
        /\ row'[t].failures = dead'[t] /\ row'[t].failures \in Nat
        /\ row'[t].notified => Owner[t] = i /\ Unsettled(t)' = {}
  BY CommittedRows
<1>2. ASSUME NEW o \in Completions(i, job[i])
      PROVE  /\ o \in Outcomes /\ Enqueued(o.trace)' /\ Unsettled(o.trace)' = {}
             /\ o.failures = dead'[o.trace]
  <2>1. PICK t \in Traces : /\ lock[t] = i /\ Acked(i, job[i], t).notified
                            /\ o = [trace |-> t, failures |-> Acked(i, job[i], t).failures]
    BY DEF Completions, MyRows
  <2>2. o.trace = t /\ o.failures = row'[t].failures /\ o \in Outcomes
    BY <1>1, <2>1 DEF Outcomes
  <2>3. Enqueued(t)'
    BY <1>1, <2>1 DEF Inv, Settlement, BatchesAreNew, Enqueued, Range
  <2>. QED
    BY <1>1, <2>1, <2>2, <2>3
<1>3. ASSUME NEW t \in Traces, lock[t] = i, row'[t].notified
      PROVE  Owner[t] = i /\ \E o \in Completions(i, job[i]) : o.trace = t
  <2>1. [trace |-> t, failures |-> Acked(i, job[i], t).failures] \in Completions(i, job[i])
    BY <1>1, <1>3 DEF Completions, MyRows
  <2>. QED
    BY <1>1, <1>3, <2>1
<1>. QED
  BY <1>2, <1>3

\* A commit keeps the invariant whatever becomes of the completions it returns, as
\* long as none of them is lost unnoticed.
LEMMA CommitEffectsInv ==
    ASSUME Inv, NEW i \in Instances, Committing(i), CommitEffects(i),
           UNCHANGED <<queue, todo, workerVars, subVars, doomed, up>>,
           mail'[i] \subseteq Completions(i, job[i]),
           \A k \in Instances \ {i} : mail'[k] = mail[k],
           mail' \in [Instances -> SUBSET Outcomes],
           lost' \subseteq Traces, faults' \in 0..MaxFaults, NoMailLost'
    PROVE  Inv'
<1>. DEFINE j == job[i]
<1>0. /\ TypeOK /\ Settlement /\ Locking /\ j.p \in Partitions /\ j.upto \in Nat
      /\ j.upto <= Len(queue[j.p]) /\ i # None /\ lock[j.p] = i
      /\ cursor' = [cursor EXCEPT ![j.p] = j.upto] /\ lease' = [lease EXCEPT ![j.p] = None]
      /\ lock' = Unlocked(i) /\ job' = [job EXCEPT ![i] = None]
  BY JobMessages, CommitIsFenced, TraceAssumption DEF Inv, Committing, CommitEffects
<1>1. /\ row' \in [Traces -> RowType \cup {None}] /\ dead' \in [Traces -> Nat]
      /\ \A t \in Traces : lock[t] # i => row'[t] = row[t]
      /\ \A t \in Traces : lock[t] = i => Present(t)
      /\ CountsAreExact' /\ NotifiedIsComplete'
      /\ \A t \in Traces : Unsettled(t) = {} => Unsettled(t)' = {} /\ dead'[t] = dead[t]
  BY CommittedRows
<1>. HIDE DEF j
<1>2. TypeOK'
  <2>1. /\ cursor' \in [Partitions -> Nat] /\ lease' \in [Partitions -> Instances \cup {None}]
        /\ lock' \in [Rows -> Instances \cup {None}] /\ job' \in [Instances -> JobType \cup {None}]
    BY <1>0 DEF TypeOK, Unlocked
  <2>. QED
    BY <1>0, <1>1, <2>1 DEF TypeOK
<1>3. \A t \in Traces : Present(t)' => Present(t)
  BY <1>1 DEF Present
<1>4. \A t : Enqueued(t)' = Enqueued(t)
  BY DEF Enqueued, Range
<1>5. ToldTheTruth'
  BY <1>0, <1>1 DEF Settlement, ToldTheTruth
<1>6. CursorsInQueue'
  BY <1>0 DEF Settlement, CursorsInQueue, TypeOK
<1>7. BatchesAreNew'
  <2>1. ASSUME NEW t \in Traces, ~Enqueued(t) PROVE Unsettled(t) = {}
    <3>1. ASSUME NEW e \in Unsettled(t) PROVE FALSE
      <4>1. PICK p \in Partitions, k \in Int :
              queue[p][k] = t /\ k \in cursor[p] + 1..Len(queue[p])
        BY UnsettledElements
      <4>2. k \in 1..Len(queue[p])
        BY <1>0, <4>1, LenProperties DEF TypeOK
      <4>. QED
        BY <1>0, <2>1, <4>1, <4>2, EnqueuedElements
    <3>. QED
      BY <3>1
  <2>. QED
    BY <1>0, <1>1, <1>3, <1>4, <2>1 DEF Settlement, BatchesAreNew
<1>8. MailIsTrue'
  <2>1. ASSUME NEW k \in Instances, NEW o \in mail'[k]
        PROVE  Enqueued(o.trace)' /\ Unsettled(o.trace)' = {} /\ o.failures = dead'[o.trace]
    <3>1. CASE k = i
      BY <2>1, <3>1, CompletionsAreTrue
    <3>2. CASE k # i
      <4>1. o \in mail[k] /\ mail[k] \subseteq Outcomes
        BY <1>0, <2>1, <3>2 DEF TypeOK
      <4>2. /\ o.trace \in Traces /\ Enqueued(o.trace) /\ Unsettled(o.trace) = {}
            /\ o.failures = dead[o.trace]
        BY <1>0, <4>1 DEF Outcomes, Settlement, MailIsTrue
      <4>. QED
        BY <1>1, <1>4, <4>2
    <3>. QED
      BY <3>1, <3>2
  <2>. QED
    BY <2>1 DEF MailIsTrue
<1>9. Settlement'
  BY <1>1, <1>5, <1>6, <1>7, <1>8 DEF Settlement
<1>10. \A p \in Partitions \ {j.p} : lease'[p] = lease[p] /\ cursor'[p] = cursor[p]
  BY <1>0 DEF TypeOK
<1>11. lease'[j.p] = None
  BY <1>0 DEF TypeOK
<1>12. Locking'
  <2>1. /\ \A k \in Instances \ {i} : todo'[k] = todo[k] /\ mail'[k] \subseteq mail[k]
        /\ \A t \in Traces : lock[t] \notin {None, i} => row'[t] = row[t]
    BY <1>1
  <2>2. /\ \A p \in Partitions : lease'[p] # None =>
             lease'[p] = lease[p] /\ cursor'[p] = cursor[p]
        /\ \A p \in Partitions : lock[p] \notin {None, i} => lease'[p] = lease[p]
    BY <1>0, <1>10, <1>11
  <2>. QED
    BY <1>0, <1>3, <2>1, <2>2, LockingReleased
<1>. QED
  BY <1>2, <1>9, <1>12 DEF Inv

LEMMA CommitInv == ASSUME Inv, NEW i \in Instances, Commit(i) PROVE Inv'
<1>1. /\ Committing(i) /\ CommitEffects(i) /\ mail' = [mail EXCEPT ![i] = Completions(i, job[i])]
      /\ UNCHANGED <<queue, todo, workerVars, subVars, doomed, up, faults, lost>>
  BY DEF Commit
<1>2. /\ mail'[i] = Completions(i, job[i]) /\ \A k \in Instances \ {i} : mail'[k] = mail[k]
      /\ mail[i] = {} /\ lost \subseteq Traces /\ faults \in 0..MaxFaults
      /\ mail \in [Instances -> SUBSET Outcomes]
  BY <1>1 DEF Inv, TypeOK, Locking, JobsAreSlices, Committing
<1>3. /\ Completions(i, job[i]) \subseteq Outcomes
      /\ \A t \in Traces : lock[t] = i /\ row'[t].notified =>
           Owner[t] = i /\ \E o \in Completions(i, job[i]) : o.trace = t
  BY <1>1, CompletionsAreTrue
<1>4. \A t \in Traces : lock[t] # i => row'[t] = row[t]
  BY <1>1, CommittedRows
<1>5. NoMailLost'
  <2>1. ASSUME NEW t \in Traces, Present(t)', row'[t].notified, Waiting(t)'
        PROVE  t \in lost \/ \E o \in mail'[Owner[t]] : o.trace = t
    <3>1. CASE lock[t] = i
      BY <1>2, <1>3, <2>1, <3>1
    <3>2. CASE lock[t] # i
      <4>1. Present(t) /\ row[t].notified /\ Waiting(t)
        BY <1>1, <1>4, <2>1, <3>2 DEF Present, Waiting
      <4>2. t \in lost \/ \E o \in mail[Owner[t]] : o.trace = t
        BY <4>1 DEF Inv, Settlement, NoMailLost
      <4>. QED
        BY <1>2, <4>2, TraceAssumption
    <3>. QED
      BY <3>1, <3>2
  <2>. QED
    BY <1>1, <2>1 DEF NoMailLost
<1>. QED
  BY <1>1, <1>2, <1>3, <1>5, CommitEffectsInv

LEMMA CommitUnheardInv == ASSUME Inv, NEW i \in Instances, CommitUnheard(i) PROVE Inv'
<1>1. /\ Committing(i) /\ CommitEffects(i) /\ Fault
      /\ lost' = lost \cup {o.trace : o \in Completions(i, job[i])}
      /\ UNCHANGED <<queue, todo, mail, workerVars, subVars, doomed, up>>
  BY DEF CommitUnheard
<1>2. /\ mail[i] = {} /\ lost \subseteq Traces /\ faults' \in 0..MaxFaults
      /\ mail \in [Instances -> SUBSET Outcomes]
  BY <1>1, TraceAssumption DEF Inv, TypeOK, Locking, JobsAreSlices, Committing, Fault
<1>3. /\ \A o \in Completions(i, job[i]) : o.trace \in Traces
      /\ \A t \in Traces : lock[t] = i /\ row'[t].notified =>
           \E o \in Completions(i, job[i]) : o.trace = t
  BY <1>1, CompletionsAreTrue DEF Outcomes
<1>4. \A t \in Traces : lock[t] # i => row'[t] = row[t]
  BY <1>1, CommittedRows
<1>5. NoMailLost'
  <2>1. ASSUME NEW t \in Traces, Present(t)', row'[t].notified, Waiting(t)'
        PROVE  t \in lost' \/ \E o \in mail[Owner[t]] : o.trace = t
    <3>1. CASE lock[t] = i
      BY <1>1, <1>3, <2>1, <3>1
    <3>2. CASE lock[t] # i
      <4>1. Present(t) /\ row[t].notified /\ Waiting(t)
        BY <1>1, <1>4, <2>1, <3>2 DEF Present, Waiting
      <4>. QED
        BY <1>1, <4>1 DEF Inv, Settlement, NoMailLost
    <3>. QED
      BY <3>1, <3>2
  <2>. QED
    BY <1>1, <2>1 DEF NoMailLost
<1>. QED
  BY <1>1, <1>2, <1>3, <1>5, CommitEffectsInv
-----------------------------------------------------------------------------
LEMMA NextInv == Inv /\ [Next]_vars => Inv'
<1>. SUFFICES ASSUME Inv, [Next]_vars PROVE Inv'
  OBVIOUS
<1>1. ASSUME NEW t \in Traces, Subscribe(t) \/ Drop(t) \/ EnqueueBatch(t) PROVE Inv'
  BY <1>1, SubscribeInv, DropInv, EnqueueBatchInv
<1>2. ASSUME NEW i \in Instances, Handles(i) PROVE Inv'
  BY <1>2, TakeAndHandleInv DEF Handles
<1>3. ASSUME NEW i \in Instances,
             \/ WriteRow(i) \/ LeaseLost(i) \/ DeadlockAbort(i) \/ TxFails(i)
             \/ Commit(i) \/ CommitUnheard(i) \/ DeliverClaimed(i) \/ Stop(i)
      PROVE  Inv'
  BY <1>3, WriteRowInv, AbortsInv, CommitInv, CommitUnheardInv, DeliverClaimedInv, StopInv
<1>4. ASSUME NEW i \in Instances,
             \/ NotifierReads(i) \/ NotifierClaims(i) \/ ClaimUnheard(i)
             \/ ReporterReads(i) \/ ReporterPublishes(i) \/ ReporterClears(i)
      PROVE  Inv'
  BY <1>4, ReadsInv, NotifierClaimsInv, ClaimUnheardInv, ReporterPublishesInv,
     ReporterClearsInv
<1>5. CASE SweepSelects \/ SweepDeletes \/ Tick
  BY <1>5, ReadsInv, SweepDeletesInv, TickInv
<1>6. CASE UNCHANGED vars
  <2>1. TypeOK'
    BY <1>6 DEF vars, Inv, TypeOK
  <2>2. Settlement'
    BY <1>6, SettlementQuiet DEF vars, Inv, Waiting
  <2>3. Locking'
    BY <1>6, LockingKept DEF vars, Inv, Present, Open
  <2>. QED
    BY <2>1, <2>2, <2>3 DEF Inv
<1>. QED
  BY <1>1, <1>2, <1>3, <1>4, <1>5, <1>6 DEF Next

\* The inductive invariant holds throughout.
THEOREM Invariance == Spec => []Inv
  BY InitInv, NextInv, PTL DEF Spec

\* Types; in particular no acknowledgement drives a trace's pending below zero, in
\* whatever order workers settle, lose their lease and retry (trace_advance).
THEOREM TypeCorrect == Spec => []TypeOK
  BY Invariance, PTL DEF Inv

\* Every trace row counts exactly the entities that are not settled and the dead
\* letters, for any spread of a batch over partitions and any number of workers
\* that acknowledge at once (apply_trace_progress).
THEOREM TracesAreCounted == Spec => []CountsAreExact
  BY Invariance, PTL DEF Inv, Settlement

\* No subscriber is told of a completion too early, or of a wrong number of
\* failures (deliver_claimed).
THEOREM SubscribersAreToldTheTruth == Spec => []ToldTheTruth
  BY Invariance, PTL DEF Inv, Settlement

\* A completion that is stamped as delivered is on its way to the subscriber that
\* waits for it, or a statement's answer was lost (trace_claim_mail).
THEOREM MailIsKept == Spec => []NoMailLost
  BY Invariance, PTL DEF Inv, Settlement

LEMMA CompletionIsKept ==
    ASSUME TypeOK, [Next]_vars
    PROVE  \A t \in Traces : sub[t] = "completed" =>
             sub'[t] = "completed" /\ told'[t] = told[t]
<1>. SUFFICES ASSUME NEW t \in Traces, sub[t] = "completed"
              PROVE  sub'[t] = "completed" /\ told'[t] = told[t]
  OBVIOUS
<1>1. sub \in [Traces -> {"unused", "inflight", "retrying", "completed", "closed", "dropped"}]
  BY DEF TypeOK
<1>2. ASSUME NEW u \in Traces, Subscribe(u) \/ Drop(u) \/ EnqueueBatch(u)
      PROVE  sub'[t] = "completed" /\ told'[t] = told[t]
  BY <1>1, <1>2 DEF Subscribe, Drop, EnqueueBatch, Waiting
<1>3. ASSUME NEW o, Deliver(o) PROVE sub'[t] = "completed" /\ told'[t] = told[t]
  BY <1>1, <1>3 DEF Deliver, Waiting, TypeOK
<1>4. ASSUME NEW i \in Instances,
             \/ Handles(i) \/ WriteRow(i) \/ LeaseLost(i) \/ DeadlockAbort(i)
             \/ TxFails(i) \/ Commit(i) \/ CommitUnheard(i)
             \/ NotifierReads(i) \/ ClaimUnheard(i) \/ ReporterReads(i)
      PROVE  UNCHANGED <<sub, told>>
  BY <1>4 DEF Handles, TakeAndHandle, WriteRow, LeaseLost, DeadlockAbort, TxFails,
              RolledBack, Commit, CommitUnheard, NotifierReads, ClaimUnheard, ReporterReads
<1>5. ASSUME NEW i \in Instances, DeliverClaimed(i) \/ NotifierClaims(i)
      PROVE  UNCHANGED <<sub, told>> \/ \E o : Deliver(o)
  BY <1>5 DEF DeliverClaimed, NotifierClaims
<1>6. ASSUME NEW i \in Instances, ReporterPublishes(i) \/ ReporterClears(i) \/ Stop(i)
      PROVE  sub'[t] = "completed" /\ told'[t] = told[t]
  BY <1>1, <1>6 DEF ReporterPublishes, ReporterClears, Cleared, Stop, Closed, Entries,
                    Waiting
<1>7. CASE SweepSelects \/ SweepDeletes \/ Tick \/ UNCHANGED vars
  BY <1>7 DEF SweepSelects, SweepDeletes, Tick, vars
<1>. QED
  BY <1>2, <1>3, <1>4, <1>5, <1>6, <1>7 DEF Next

\* A completed subscription keeps its state and its outcome: neither a reporter
\* with a sender it cloned before nor a second delivery changes it
\* (clear_retries_except, deliver).
THEOREM CompletionIsFinal == Spec => CompletedIsFinal
<1>1. TypeOK /\ [Next]_vars =>
        [\A t \in Traces : sub[t] = "completed" =>
           sub'[t] = "completed" /\ told'[t] = told[t]]_vars
  BY CompletionIsKept
<1>. QED
  BY <1>1, TypeCorrect, PTL DEF Spec, CompletedIsFinal
=============================================================================
