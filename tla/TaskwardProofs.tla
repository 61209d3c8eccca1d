--------------------------- MODULE TaskwardProofs ---------------------------
(***************************************************************************)
(* Types and the accounting of permits for any number of workers and any   *)
(* capacity of the two semaphores.                                         *)
(***************************************************************************)
EXTENDS Taskward, FiniteSetTheorems, SequenceTheorems, TLAPS

SemType == [free : Nat, queue : Seq(Workers), served : SUBSET Workers]

\* A semaphore that only members of W wait for, each of them once.
WaitedBy(S, W) ==
    /\ S \in SemType
    /\ IsInjective(S.queue)
    /\ ToSet(S.queue) \cap S.served = {}
    /\ ToSet(S.queue) \cup S.served \subseteq W

\* Permits of S that no pass holds.
Permits(S) == S.free + Cardinality(S.served)
-----------------------------------------------------------------------------
(* Queues without duplicates.                                              *)

LEMMA QueueElements ==
    ASSUME NEW q \in Seq(Workers)
    PROVE  /\ DOMAIN q = 1..Len(q) /\ Len(q) \in Nat
           /\ ToSet(q) = {q[i] : i \in 1..Len(q)} /\ ToSet(q) \subseteq Workers
           /\ IsInjective(q) <=> \A i, j \in 1..Len(q) : q[i] = q[j] => i = j
  BY LenProperties, ElementOfSeq DEF ToSet, IsInjective

LEMMA Joined ==
    ASSUME NEW q \in Seq(Workers), NEW w \in Workers, IsInjective(q), w \notin ToSet(q)
    PROVE  /\ Append(q, w) \in Seq(Workers)
           /\ IsInjective(Append(q, w))
           /\ ToSet(Append(q, w)) = ToSet(q) \cup {w}
<1>1. /\ Append(q, w) \in Seq(Workers)
      /\ Len(Append(q, w)) = Len(q) + 1
      /\ \A i \in 1..Len(q) : Append(q, w)[i] = q[i]
      /\ Append(q, w)[Len(q) + 1] = w
  BY AppendProperties
<1>. DEFINE r == Append(q, w)
<1>. HIDE DEF r
<1>2. /\ r \in Seq(Workers) /\ Len(r) = Len(q) + 1 /\ r[Len(q) + 1] = w
      /\ \A i \in 1..Len(q) : r[i] = q[i]
  BY <1>1 DEF r
<1>3. IsInjective(r)
  <2>1. /\ Len(q) \in Nat /\ \A i \in 1..Len(q) : q[i] # w
        /\ \A i, j \in 1..Len(q) : q[i] = q[j] => i = j
    BY QueueElements
  <2>2. \A i, j \in 1..Len(r) : r[i] = r[j] => i = j
    BY <1>2, <2>1
  <2>. QED
    BY <1>2, <2>2, QueueElements
<1>4. ToSet(r) = ToSet(q) \cup {w}
  BY <1>2, QueueElements
<1>. QED
  BY <1>2, <1>3, <1>4 DEF r

LEMMA FirstServed ==
    ASSUME NEW q \in Seq(Workers), IsInjective(q), q # <<>>
    PROVE  /\ Tail(q) \in Seq(Workers) /\ IsInjective(Tail(q))
           /\ Head(q) \in ToSet(q) /\ ToSet(Tail(q)) = ToSet(q) \ {Head(q)}
<1>. DEFINE r == Tail(q)
<1>1. /\ r \in Seq(Workers) /\ Len(r) = Len(q) - 1
      /\ \A i \in 1..Len(r) : r[i] = q[i + 1]
      /\ Len(q) \in Nat \ {0} /\ Head(q) = q[1]
  BY HeadTailProperties, EmptySeq
<1>. HIDE DEF r
<1>2. IsInjective(r)
  <2>1. ASSUME NEW i \in 1..Len(r), NEW j \in 1..Len(r), r[i] = r[j] PROVE i = j
    <3>1. i + 1 \in 1..Len(q) /\ j + 1 \in 1..Len(q) /\ q[i + 1] = q[j + 1]
      BY <1>1, <2>1
    <3>2. i + 1 = j + 1
      BY <3>1, QueueElements
    <3>. QED
      BY <1>1, <3>2
  <2>. QED
    BY <1>1, <2>1, QueueElements
<1>3. Head(q) \in ToSet(q)
  BY <1>1, QueueElements
<1>4. ASSUME NEW x \in ToSet(r) PROVE x \in ToSet(q) \ {Head(q)}
  <2>1. PICK i \in 1..Len(r) : x = r[i]
    BY <1>1, QueueElements
  <2>2. i + 1 \in 1..Len(q) /\ 1 \in 1..Len(q) /\ x = q[i + 1] /\ i + 1 # 1
    BY <1>1, <2>1
  <2>3. x # q[1]
    BY <2>2, QueueElements
  <2>. QED
    BY <1>1, <2>2, <2>3, QueueElements
<1>5. ASSUME NEW x \in ToSet(q) \ {Head(q)} PROVE x \in ToSet(r)
  <2>1. PICK i \in 1..Len(q) : x = q[i]
    BY QueueElements
  <2>2. i - 1 \in 1..Len(r) /\ r[i - 1] = x
    BY <1>1, <1>5, <2>1
  <2>. QED
    BY <1>1, <2>2, QueueElements
<1>. QED
  BY <1>1, <1>2, <1>3, <1>4, <1>5 DEF r

LEMMA Dropped ==
    ASSUME NEW q \in Seq(Workers), NEW w \in Workers, IsInjective(q)
    PROVE  /\ RemoveFirst(q, w) \in Seq(Workers) /\ IsInjective(RemoveFirst(q, w))
           /\ ToSet(RemoveFirst(q, w)) = ToSet(q) \ {w}
<1>1. CASE w \notin ToSet(q)
  <2>1. RemoveFirst(q, w) = q
    BY <1>1, QueueElements DEF RemoveFirst
  <2>. QED
    BY <1>1, <2>1, QueueElements
<1>2. CASE w \in ToSet(q)
  <2>1. PICK n \in 1..Len(q) : q[n] = w
    BY <1>2, QueueElements
  <2>2. {i \in 1..Len(q) : q[i] = w} = {n}
    BY <2>1, QueueElements DEF IsInjective
  <2>3. n \in Int /\ Min({n}) = n
    BY <2>1 DEF Min
  <2>4. SelectInSeq(q, LAMBDA v : v = w) = n
    BY <2>2, <2>3 DEF SelectInSeq
  <2>5. RemoveFirst(q, w) = RemoveAt(q, n)
    BY <2>1, <2>4 DEF RemoveFirst
  <2>. DEFINE a == SubSeq(q, 1, n - 1)
              b == SubSeq(q, n + 1, Len(q))
              r == a \o b
  <2>6. Len(q) \in Nat /\ n \in 1..Len(q) /\ n \in Int
    BY <2>1, QueueElements
  <2>7. /\ a \in Seq(Workers) /\ Len(a) = n - 1
        /\ \A i \in 1..n - 1 : a[i] = q[i]
    <3>1. \A i \in 1..n - 1 : q[i] \in Workers
      BY <2>6, ElementOfSeq
    <3>2. /\ a \in Seq(Workers) /\ Len(a) = IF 1 <= n - 1 THEN n - 1 - 1 + 1 ELSE 0
          /\ \A i \in 1..n - 1 - 1 + 1 : a[i] = q[1 + i - 1]
      BY <2>6, <3>1, SubSeqProperties
    <3>. QED
      BY <2>6, <3>2
  <2>8. /\ b \in Seq(Workers) /\ Len(b) = Len(q) - n
        /\ \A i \in 1..Len(q) - n : b[i] = q[n + i]
    <3>1. \A i \in n + 1..Len(q) : q[i] \in Workers
      BY <2>6, ElementOfSeq
    <3>2. /\ b \in Seq(Workers)
          /\ Len(b) = IF n + 1 <= Len(q) THEN Len(q) - (n + 1) + 1 ELSE 0
          /\ \A i \in 1..Len(q) - (n + 1) + 1 : b[i] = q[n + 1 + i - 1]
      BY <2>6, <3>1, SubSeqProperties
    <3>. QED
      BY <2>6, <3>2
  <2>. HIDE DEF a, b
  <2>9. /\ r \in Seq(Workers) /\ Len(r) = Len(q) - 1
        /\ \A i \in 1..Len(q) - 1 : r[i] = IF i < n THEN q[i] ELSE q[i + 1]
    <3>1. /\ r \in Seq(Workers) /\ Len(r) = Len(a) + Len(b)
          /\ \A i \in 1..Len(a) + Len(b) :
                r[i] = IF i <= Len(a) THEN a[i] ELSE b[i - Len(a)]
      BY <2>7, <2>8, ConcatProperties
    <3>. HIDE DEF r
    <3>2. ASSUME NEW i \in 1..Len(q) - 1
          PROVE  r[i] = IF i < n THEN q[i] ELSE q[i + 1]
      <4>1. CASE i < n
        <5>1. i \in 1..n - 1 /\ i \in 1..n - 1 + (Len(q) - n) /\ i <= n - 1
          BY <2>6, <4>1
        <5>. QED
          BY <2>7, <2>8, <3>1, <4>1, <5>1
      <4>2. CASE i >= n
        <5>1. /\ i - (n - 1) \in 1..Len(q) - n /\ n + (i - (n - 1)) = i + 1
              /\ i \in 1..n - 1 + (Len(q) - n) /\ ~(i <= n - 1) /\ ~(i < n)
          BY <2>6, <4>2
        <5>. QED
          BY <2>7, <2>8, <3>1, <5>1
      <4>. QED
        BY <2>6, <4>1, <4>2
    <3>. QED
      BY <2>6, <2>7, <2>8, <3>1, <3>2
  <2>10. r = RemoveFirst(q, w)
    BY <2>5 DEF RemoveAt, a, b
  <2>. HIDE DEF r
  <2>11. IsInjective(r)
    <3>1. ASSUME NEW i \in 1..Len(r), NEW j \in 1..Len(r), r[i] = r[j] PROVE i = j
      <4>. DEFINE Old(m) == IF m < n THEN m ELSE m + 1
      <4>1. \A m \in 1..Len(r) : Old(m) \in 1..Len(q) /\ r[m] = q[Old(m)]
        BY <2>6, <2>9
      <4>2. Old(i) = Old(j)
        <5>. HIDE DEF Old
        <5>1. \A k, l \in 1..Len(q) : q[k] = q[l] => k = l
          BY QueueElements
        <5>. QED
          BY <3>1, <4>1, <5>1
      <4>. QED
        BY <2>6, <2>9, <4>2
    <3>. QED
      BY <2>9, <3>1, QueueElements
  <2>12. ASSUME NEW x \in ToSet(r) PROVE x \in ToSet(q) \ {w}
    <3>1. PICK i \in 1..Len(r) : x = r[i]
      BY <2>9, QueueElements
    <3>2. PICK j \in 1..Len(q) : x = q[j] /\ j # n
      <4>1. CASE i < n
        BY <2>6, <2>9, <3>1, <4>1
      <4>2. CASE i >= n
        <5>1. i + 1 \in 1..Len(q) /\ i + 1 # n /\ x = q[i + 1]
          BY <2>6, <2>9, <3>1, <4>2
        <5>. QED
          BY <5>1
      <4>. QED
        BY <2>6, <2>9, <4>1, <4>2
    <3>3. x # w
      BY <2>1, <2>6, <3>2, QueueElements
    <3>. QED
      BY <3>2, <3>3, QueueElements
  <2>13. ASSUME NEW x \in ToSet(q) \ {w} PROVE x \in ToSet(r)
    <3>1. PICK i \in 1..Len(q) : x = q[i]
      BY QueueElements
    <3>2. CASE i < n
      <4>1. i \in 1..Len(r) /\ r[i] = x
        BY <2>6, <2>9, <3>1, <3>2
      <4>. QED
        BY <2>9, <4>1, QueueElements
    <3>3. CASE i > n
      <4>1. i - 1 \in 1..Len(r) /\ r[i - 1] = x
        BY <2>6, <2>9, <3>1, <3>3
      <4>. QED
        BY <2>9, <4>1, QueueElements
    <3>4. i # n
      BY <2>1, <2>13, <3>1
    <3>. QED
      BY <2>6, <3>2, <3>3, <3>4
  <2>. QED
    BY <2>9, <2>10, <2>11, <2>12, <2>13
<1>. QED
  BY <1>1, <1>2
-----------------------------------------------------------------------------
(* Semaphores: what the operations do to the waits and to the permits.     *)

LEMMA Finite == ASSUME NEW S \in SUBSET Workers PROVE IsFiniteSet(S) /\ Cardinality(S) \in Nat
  BY FS_Subset, FS_CardinalityType, TaskwardAssumption

LEMMA PermitsAreNat == ASSUME NEW S, NEW W, WaitedBy(S, W) PROVE Permits(S) \in Nat
<1>1. S.free \in Nat /\ Cardinality(S.served) \in Nat
  BY Finite DEF WaitedBy, SemType
<1>. QED
  BY <1>1 DEF Permits

LEMMA WiderWait ==
    ASSUME NEW S, NEW V, NEW W, WaitedBy(S, V), V \subseteq W PROVE WaitedBy(S, W)
  BY Zenon DEF WaitedBy

\* A waiter that was served and takes its permit.
LEMMA Taken ==
    ASSUME NEW S, NEW W, NEW w \in Workers, WaitedBy(S, W), w \in S.served
    PROVE  /\ WaitedBy([S EXCEPT !.served = @ \ {w}], W \ {w})
           /\ Permits([S EXCEPT !.served = @ \ {w}]) = Permits(S) - 1
<1>. DEFINE T == [S EXCEPT !.served = @ \ {w}]
<1>1. /\ S \in SemType /\ T \in SemType
      /\ T.free = S.free /\ T.queue = S.queue /\ T.served = S.served \ {w}
  BY DEF WaitedBy, SemType
<1>. HIDE DEF T
<1>2. WaitedBy(T, W \ {w})
  BY <1>1 DEF WaitedBy
<1>3. Cardinality(T.served) = Cardinality(S.served) - 1
  BY <1>1, Finite, FS_RemoveElement DEF SemType
<1>4. S.free \in Nat /\ Cardinality(S.served) \in Nat
  BY <1>1, Finite DEF SemType
<1>5. Permits(T) = Permits(S) - 1
  BY <1>1, <1>3, <1>4 DEF Permits
<1>. QED
  BY <1>2, <1>5 DEF T

\* The first poll finds a free permit.
LEMMA Acquired ==
    ASSUME NEW S, NEW W, WaitedBy(S, W), S.free > 0
    PROVE  /\ WaitedBy([S EXCEPT !.free = @ - 1], W)
           /\ Permits([S EXCEPT !.free = @ - 1]) = Permits(S) - 1
<1>. DEFINE T == [S EXCEPT !.free = @ - 1]
<1>1. /\ S \in SemType /\ T \in SemType
      /\ T.free = S.free - 1 /\ T.queue = S.queue /\ T.served = S.served
  BY DEF WaitedBy, SemType
<1>. HIDE DEF T
<1>2. WaitedBy(T, W)
  BY <1>1 DEF WaitedBy
<1>3. S.free \in Nat /\ Cardinality(S.served) \in Nat
  BY <1>1, Finite DEF SemType
<1>4. Permits(T) = Permits(S) - 1
  BY <1>1, <1>3 DEF Permits
<1>. QED
  BY <1>2, <1>4 DEF T

\* The first poll finds none.
LEMMA Queued ==
    ASSUME NEW S, NEW W, NEW w \in Workers, WaitedBy(S, W), w \notin W
    PROVE  /\ WaitedBy([S EXCEPT !.queue = Append(@, w)], W \cup {w})
           /\ Permits([S EXCEPT !.queue = Append(@, w)]) = Permits(S)
<1>. DEFINE T == [S EXCEPT !.queue = Append(@, w)]
<1>1. /\ Append(S.queue, w) \in Seq(Workers) /\ IsInjective(Append(S.queue, w))
      /\ ToSet(Append(S.queue, w)) = ToSet(S.queue) \cup {w}
  BY Joined DEF WaitedBy, SemType
<1>2. /\ S \in SemType /\ T \in SemType
      /\ T.free = S.free /\ T.queue = Append(S.queue, w) /\ T.served = S.served
  BY <1>1 DEF WaitedBy, SemType
<1>. HIDE DEF T
<1>3. WaitedBy(T, W \cup {w})
  BY <1>1, <1>2 DEF WaitedBy
<1>4. Permits(T) = Permits(S)
  BY <1>2 DEF Permits
<1>. QED
  BY <1>3, <1>4 DEF T

\* A permit comes back: it is free, or the first waiter's.
LEMMA Given ==
    ASSUME NEW S, NEW W, WaitedBy(S, W)
    PROVE  WaitedBy(Give(S), W) /\ Permits(Give(S)) = Permits(S) + 1
<1>. DEFINE T == Give(S)
<1>0. S \in SemType /\ S.free \in Nat /\ Cardinality(S.served) \in Nat
  BY Finite DEF WaitedBy, SemType
<1>1. CASE S.queue = <<>>
  <2>1. /\ T \in SemType
        /\ T.free = S.free + 1 /\ T.queue = S.queue /\ T.served = S.served
    BY <1>0, <1>1 DEF Give, SemType
  <2>. HIDE DEF T
  <2>2. WaitedBy(T, W)
    BY <2>1 DEF WaitedBy
  <2>3. Permits(T) = Permits(S) + 1
    BY <1>0, <2>1 DEF Permits
  <2>. QED
    BY <2>2, <2>3 DEF T
<1>2. CASE S.queue # <<>>
  <2>1. /\ Tail(S.queue) \in Seq(Workers) /\ IsInjective(Tail(S.queue))
        /\ Head(S.queue) \in ToSet(S.queue)
        /\ ToSet(Tail(S.queue)) = ToSet(S.queue) \ {Head(S.queue)}
    BY <1>0, <1>2, FirstServed DEF WaitedBy, SemType
  <2>2. Head(S.queue) \in Workers /\ Head(S.queue) \notin S.served
    BY <1>0, <2>1, QueueElements DEF WaitedBy, SemType
  <2>3. /\ T \in SemType /\ T.free = S.free
        /\ T.queue = Tail(S.queue) /\ T.served = S.served \cup {Head(S.queue)}
    BY <1>0, <1>2, <2>1, <2>2 DEF Give, SemType
  <2>. HIDE DEF T
  <2>4. WaitedBy(T, W)
    BY <2>1, <2>3 DEF WaitedBy
  <2>5. Cardinality(T.served) = Cardinality(S.served) + 1
    <3>1. IsFiniteSet(S.served)
      BY <1>0, Finite DEF SemType
    <3>. QED
      BY <2>2, <2>3, <3>1, FS_AddElement
  <2>6. Permits(T) = Permits(S) + 1
    BY <1>0, <2>3, <2>5 DEF Permits
  <2>. QED
    BY <2>4, <2>6 DEF T
<1>. QED
  BY <1>1, <1>2

\* A wait is dropped, served or not.
LEMMA Left ==
    ASSUME NEW S, NEW W, NEW w \in Workers, WaitedBy(S, W)
    PROVE  WaitedBy(Leave(S, w), W \ {w}) /\ Permits(Leave(S, w)) = Permits(S)
<1>0. S \in SemType /\ S.free \in Nat /\ Cardinality(S.served) \in Nat /\ Permits(S) \in Nat
  BY Finite DEF WaitedBy, SemType, Permits
<1>1. CASE w \in S.served
  <2>. DEFINE T == [S EXCEPT !.served = @ \ {w}]
  <2>1. WaitedBy(T, W \ {w}) /\ Permits(T) = Permits(S) - 1
    BY <1>1, Taken
  <2>2. Leave(S, w) = Give(T)
    BY <1>1 DEF Leave
  <2>. HIDE DEF T
  <2>3. WaitedBy(Give(T), W \ {w}) /\ Permits(Give(T)) = Permits(T) + 1
    BY <2>1, Given
  <2>. QED
    BY <1>0, <2>1, <2>2, <2>3
<1>2. CASE w \notin S.served
  <2>. DEFINE T == [S EXCEPT !.queue = RemoveFirst(@, w)]
  <2>1. /\ RemoveFirst(S.queue, w) \in Seq(Workers) /\ IsInjective(RemoveFirst(S.queue, w))
        /\ ToSet(RemoveFirst(S.queue, w)) = ToSet(S.queue) \ {w}
    BY <1>0, Dropped DEF WaitedBy, SemType
  <2>2. /\ T \in SemType /\ T = Leave(S, w)
        /\ T.free = S.free /\ T.queue = RemoveFirst(S.queue, w) /\ T.served = S.served
    BY <1>0, <1>2, <2>1 DEF Leave, SemType
  <2>. HIDE DEF T
  <2>3. WaitedBy(T, W \ {w})
    BY <1>2, <2>1, <2>2 DEF WaitedBy
  <2>4. Permits(T) = Permits(S)
    BY <2>2 DEF Permits
  <2>. QED
    BY <2>2, <2>3, <2>4
<1>. QED
  BY <1>1, <1>2
-----------------------------------------------------------------------------
(* The inductive invariant.                                                *)

Places == {"pacing", "backoff", "idle", "sleeping", "fallback", "waiting", "running",
           "hung", "stopped", "dead"}

LoopTypes ==
    /\ pc \in [Workers -> Places]
    /\ note \in [Workers -> BOOLEAN] /\ owed \in [Workers -> BOOLEAN]
    /\ permit \in [Workers -> Semaphores \cup {None}]
    /\ failures \in [Workers -> 0..MaxFailures]
    /\ cancelled \in BOOLEAN /\ aborting \in BOOLEAN

\* Who may stand in the queue of s: a tiered worker in its fallback has polled only
\* the shared semaphore.
Waiting(s) ==
    {w \in Workers : pc[w] = "waiting" \/ (s = "shared" /\ pc[w] = "fallback")}

Holders(s) == {w \in Workers : permit[w] = s /\ pc[w] \in {"running", "hung"}}

\* Nobody stands in a queue who does not wait, and nobody stands there twice.
QueuesAreClean ==
    /\ sem \in [Semaphores -> SemType]
    /\ \A s \in Semaphores : WaitedBy(sem[s], Waiting(s))

\* A permit is held during a pass and at no other time.
PassesHavePermits == \A w \in Workers : permit[w] # None <=> pc[w] \in {"running", "hung"}

PermitsCounted ==
    \A s \in Semaphores : Permits(sem[s]) + Cardinality(Holders(s)) = Capacity[s]

Inv == LoopTypes /\ QueuesAreClean /\ PassesHavePermits /\ PermitsCounted

LEMMA InvImplies == Inv => TypeOK /\ PermitsAccounted
<1>. SUFFICES ASSUME Inv PROVE TypeOK /\ PermitsAccounted
  OBVIOUS
<1>1. ASSUME NEW s \in Semaphores
      PROVE  /\ sem[s].free \in 0..Capacity[s]
             /\ sem[s].queue \in Seq(Workers) /\ sem[s].served \subseteq Workers
             /\ sem[s].served \subseteq {w \in Workers : pc[w] \in {"fallback", "waiting"}}
             /\ sem[s].free + Cardinality(sem[s].served) + Cardinality(Holders(s))
                = Capacity[s]
  <2>1. sem[s] \in SemType /\ WaitedBy(sem[s], Waiting(s))
    BY DEF Inv, QueuesAreClean
  <2>2. sem[s].free \in Nat /\ Cardinality(sem[s].served) \in Nat
    BY <2>1, Finite DEF SemType
  <2>3. Cardinality(Holders(s)) \in Nat
    BY Finite DEF Holders
  <2>4. sem[s].free + Cardinality(sem[s].served) + Cardinality(Holders(s)) = Capacity[s]
    BY DEF Inv, PermitsCounted, Permits
  <2>5. sem[s].free \in 0..Capacity[s]
    BY <2>2, <2>3, <2>4
  <2>6. sem[s].served \subseteq {w \in Workers : pc[w] \in {"fallback", "waiting"}}
    BY <2>1 DEF WaitedBy, Waiting
  <2>. QED
    BY <2>1, <2>4, <2>5, <2>6 DEF SemType
<1>2. TypeOK
  BY <1>1, Zenon DEF Inv, LoopTypes, Places, TypeOK
<1>3. PermitsAccounted
  BY <1>1 DEF PermitsAccounted, Holders
<1>. QED
  BY <1>2, <1>3

LEMMA InitInv == Init => Inv
<1>. SUFFICES ASSUME Init PROVE Inv
  OBVIOUS
<1>1. LoopTypes
  <2>1. failures \in [Workers -> 0..MaxFailures]
    BY TaskwardAssumption DEF Init
  <2>. QED
    BY <2>1, Zenon DEF Init, LoopTypes, Places
<1>2. PassesHavePermits
  BY DEF Init, PassesHavePermits
<1>3. ASSUME NEW s \in Semaphores
      PROVE  /\ sem[s] \in SemType /\ WaitedBy(sem[s], Waiting(s))
             /\ Permits(sem[s]) + Cardinality(Holders(s)) = Capacity[s]
  <2>1. Capacity[s] \in Nat
    BY TaskwardAssumption DEF Capacity
  <2>2. /\ sem[s] = [free |-> Capacity[s], queue |-> <<>>, served |-> {}]
        /\ Holders(s) = {}
    BY DEF Init, Holders
  <2>3. <<>> \in Seq(Workers) /\ ToSet(<<>>) = {} /\ IsInjective(<<>>)
    <3>1. <<>> \in Seq(Workers) /\ Len(<<>>) = 0
      BY EmptySeq
    <3>2. 1..0 = {}
      OBVIOUS
    <3>3. DOMAIN <<>> = {}
      OBVIOUS
    <3>4. ToSet(<<>>) = {}
      BY <3>3, Zenon DEF ToSet
    <3>5. IsInjective(<<>>)
      BY <3>3, Zenon DEF IsInjective
    <3>. QED
      BY <3>1, <3>4, <3>5, Zenon
  <2>4. sem[s] \in SemType /\ WaitedBy(sem[s], Waiting(s))
    BY <2>1, <2>2, <2>3 DEF WaitedBy, SemType
  <2>5. Permits(sem[s]) + Cardinality(Holders(s)) = Capacity[s]
    BY <2>1, <2>2, FS_EmptySet DEF Permits
  <2>. QED
    BY <2>4, <2>5
<1>4. sem \in [Semaphores -> SemType]
  BY <1>3 DEF Init
<1>. QED
  BY <1>1, <1>2, <1>3, <1>4 DEF Inv, QueuesAreClean, PermitsCounted

\* How the sets move when worker w goes to a place with the permit x.
LEMMA Moved ==
    ASSUME LoopTypes, NEW w \in Workers, NEW place, NEW x,
           pc' = [pc EXCEPT ![w] = place], permit' = [permit EXCEPT ![w] = x],
           NEW s \in Semaphores
    PROVE  /\ Waiting(s)' = IF place = "waiting" \/ (s = "shared" /\ place = "fallback")
                            THEN Waiting(s) \cup {w} ELSE Waiting(s) \ {w}
           /\ Holders(s)' = IF x = s /\ place \in {"running", "hung"}
                            THEN Holders(s) \cup {w} ELSE Holders(s) \ {w}
<1>1. \A v \in Workers : /\ pc'[v] = IF v = w THEN place ELSE pc[v]
                         /\ permit'[v] = IF v = w THEN x ELSE permit[v]
  BY DEF LoopTypes
<1>2. Waiting(s)' = IF place = "waiting" \/ (s = "shared" /\ place = "fallback")
                    THEN Waiting(s) \cup {w} ELSE Waiting(s) \ {w}
  BY <1>1 DEF Waiting
<1>3. Holders(s)' = IF x = s /\ place \in {"running", "hung"}
                    THEN Holders(s) \cup {w} ELSE Holders(s) \ {w}
  BY <1>1 DEF Holders
<1>. QED
  BY <1>2, <1>3

\* The number of holders: one more when a pass begins, one less when it ends.
LEMMA HoldersCounted ==
    ASSUME NEW s \in Semaphores, NEW w \in Workers
    PROVE  /\ Cardinality(Holders(s)) \in Nat
           /\ w \notin Holders(s) =>
                 /\ Cardinality(Holders(s) \cup {w}) = Cardinality(Holders(s)) + 1
                 /\ Holders(s) \ {w} = Holders(s)
           /\ w \in Holders(s) =>
                 /\ Cardinality(Holders(s) \ {w}) = Cardinality(Holders(s)) - 1
                 /\ Holders(s) \cup {w} = Holders(s)
<1>1. IsFiniteSet(Holders(s)) /\ Cardinality(Holders(s)) \in Nat
  BY Finite DEF Holders
<1>2. w \notin Holders(s) => Holders(s) \ {w} = Holders(s)
  OBVIOUS
<1>3. w \in Holders(s) => Holders(s) \cup {w} = Holders(s)
  OBVIOUS
<1>. QED
  BY <1>1, <1>2, <1>3, FS_AddElement, FS_RemoveElement
-----------------------------------------------------------------------------
(* The actions.                                                            *)

\* What a step has to show of every semaphore.
LEMMA Accounted ==
    ASSUME Inv, LoopTypes', PassesHavePermits',
           sem' = [s \in Semaphores |-> sem'[s]],
           \A s \in Semaphores :
              /\ WaitedBy(sem'[s], Waiting(s)')
              /\ Permits(sem'[s]) + Cardinality(Holders(s)')
                 = Permits(sem[s]) + Cardinality(Holders(s))
    PROVE  Inv'
<1>1. QueuesAreClean'
  <2>1. \A s \in Semaphores : sem'[s] \in SemType
    BY DEF WaitedBy
  <2>2. sem' \in [Semaphores -> SemType]
    BY <2>1
  <2>. QED
    BY <2>2 DEF QueuesAreClean
<1>2. PermitsCounted'
  BY DEF Inv, PermitsCounted
<1>. QED
  BY <1>1, <1>2 DEF Inv

\* Steps that leave the loops' places, the semaphores and the permits alone.
LEMMA NothingMoves ==
    ASSUME Inv, LoopTypes', UNCHANGED <<pc, sem, permit>>
    PROVE  Inv'
  BY DEF Inv, QueuesAreClean, PassesHavePermits, PermitsCounted, Waiting, Holders

LEMMA NotifyInv == ASSUME Inv, NEW w \in Workers, Notify(w) PROVE Inv'
<1>1. LoopTypes'
  BY Zenon DEF Inv, Notify, LoopTypes, setVars
<1>. QED
  BY <1>1, NothingMoves DEF Notify

LEMMA CancelInv == ASSUME Inv, Cancel \/ DropSet PROVE Inv'
<1>1. LoopTypes'
  BY Zenon DEF Inv, Cancel, DropSet, LoopTypes
<1>. QED
  BY <1>1, NothingMoves DEF Cancel, DropSet

\* A worker that neither waits nor runs goes to another such place, and one that
\* runs may hang: no permit moves.
LEMMA NoPermitMoves ==
    ASSUME Inv, NEW w \in Workers, NEW place \in Places, Goto(w, place),
           UNCHANGED <<sem, permit>>, LoopTypes',
           \/ {pc[w], place} \subseteq Places \ {"fallback", "waiting", "running", "hung"}
           \/ {pc[w], place} \subseteq {"running", "hung"}
    PROVE  Inv'
<1>1. permit' = [permit EXCEPT ![w] = permit[w]] /\ pc' = [pc EXCEPT ![w] = place]
  BY DEF Inv, LoopTypes, Goto
<1>2. PassesHavePermits'
  BY DEF Inv, PassesHavePermits, LoopTypes, Goto
<1>3. ASSUME NEW s \in Semaphores
      PROVE  Waiting(s)' = Waiting(s) /\ Holders(s)' = Holders(s)
  BY <1>1, Moved DEF Inv, Waiting, Holders
<1>4. \A s \in Semaphores : WaitedBy(sem[s], Waiting(s))
  BY DEF Inv, QueuesAreClean
<1>5. sem' = [s \in Semaphores |-> sem'[s]]
  BY DEF Inv, QueuesAreClean
<1>. QED
  BY <1>2, <1>3, <1>4, <1>5, Accounted

LEMMA BackoffEndsInv == ASSUME Inv, NEW w \in Workers, BackoffEnds(w) PROVE Inv'
<1>1. "idle" \in Places /\ pc[w] = "backoff" /\ Goto(w, "idle") /\ UNCHANGED <<sem, permit>>
  BY DEF BackoffEnds, Places
<1>2. LoopTypes'
  BY Zenon DEF Inv, BackoffEnds, LoopTypes, loopVars, setVars, Goto, Places
<1>. QED
  BY <1>1, <1>2, NoPermitMoves DEF Places

LEMMA HangsInv == ASSUME Inv, NEW w \in Workers, Hangs(w) PROVE Inv'
<1>1. "hung" \in Places /\ pc[w] = "running" /\ Goto(w, "hung") /\ UNCHANGED <<sem, permit>>
  BY DEF Hangs, Places
<1>2. LoopTypes'
  BY Zenon DEF Inv, Hangs, LoopTypes, loopVars, setVars, Goto, Places
<1>. QED
  BY <1>1, <1>2, NoPermitMoves

\* What is known of a worker that holds no permit.
LEMMA WithoutPermit ==
    ASSUME Inv, NEW w \in Workers, pc[w] \notin {"running", "hung"}
    PROVE  permit[w] = None /\ \A s \in Semaphores : w \notin Holders(s)
  BY DEF Inv, PassesHavePermits, Holders

\* Of every semaphore.
LEMMA Semaphore ==
    ASSUME Inv, NEW s \in Semaphores
    PROVE  WaitedBy(sem[s], Waiting(s)) /\ Permits(sem[s]) \in Nat
<1>1. WaitedBy(sem[s], Waiting(s))
  BY DEF Inv, QueuesAreClean
<1>. QED
  BY <1>1, PermitsAreNat

\* A pass begins with a permit that semaphore t gave away.
LEMMA Begins ==
    ASSUME Inv, LoopTypes', NEW w \in Workers, pc[w] \notin {"running", "hung"},
           NEW t \in Semaphores,
           pc' = [pc EXCEPT ![w] = "running"], permit' = [permit EXCEPT ![w] = t],
           sem' = [s \in Semaphores |-> sem'[s]],
           \A s \in Semaphores :
              /\ WaitedBy(sem'[s], Waiting(s) \ {w})
              /\ Permits(sem'[s]) = IF s = t THEN Permits(sem[s]) - 1 ELSE Permits(sem[s])
    PROVE  Inv'
<1>1. PassesHavePermits'
  BY TaskwardAssumption DEF Inv, PassesHavePermits, LoopTypes
<1>2. ASSUME NEW s \in Semaphores
      PROVE  /\ WaitedBy(sem'[s], Waiting(s)')
             /\ Permits(sem'[s]) + Cardinality(Holders(s)')
                = Permits(sem[s]) + Cardinality(Holders(s))
  <2>. DEFINE place == "running"
  <2>. HIDE DEF place
  <2>1. pc' = [pc EXCEPT ![w] = place] /\ LoopTypes
    BY DEF Inv, place
  <2>2. /\ Waiting(s)' = IF place = "waiting" \/ (s = "shared" /\ place = "fallback")
                         THEN Waiting(s) \cup {w} ELSE Waiting(s) \ {w}
        /\ Holders(s)' = IF t = s /\ place \in {"running", "hung"}
                         THEN Holders(s) \cup {w} ELSE Holders(s) \ {w}
    BY <2>1, Moved
  <2>3. /\ Waiting(s)' = Waiting(s) \ {w}
        /\ Holders(s)' = IF t = s THEN Holders(s) \cup {w} ELSE Holders(s) \ {w}
    BY <2>2 DEF place
  <2>4. /\ Cardinality(Holders(s)) \in Nat /\ Holders(s) \ {w} = Holders(s)
        /\ Cardinality(Holders(s) \cup {w}) = Cardinality(Holders(s)) + 1
    BY WithoutPermit, HoldersCounted
  <2>5. Permits(sem[s]) \in Nat
    BY Semaphore
  <2>6. CASE s = t
    <3>1. Permits(sem'[s]) = Permits(sem[s]) - 1 /\ Holders(s)' = Holders(s) \cup {w}
      BY <2>3, <2>6
    <3>. QED
      BY <2>3, <2>4, <2>5, <3>1
  <2>7. CASE s # t
    <3>1. Permits(sem'[s]) = Permits(sem[s]) /\ Holders(s)' = Holders(s)
      BY <2>3, <2>4, <2>7
    <3>. QED
      BY <2>3, <3>1
  <2>. QED
    BY <2>6, <2>7
<1>. QED
  BY <1>1, <1>2, Accounted

\* A wait begins, or goes on: no permit moves.
LEMMA Waits ==
    ASSUME Inv, LoopTypes', NEW w \in Workers, pc[w] \notin {"running", "hung"},
           NEW place \in {"fallback", "waiting"},
           pc' = [pc EXCEPT ![w] = place], permit' = permit,
           sem' = [s \in Semaphores |-> sem'[s]],
           \A s \in Semaphores :
              /\ \/ WaitedBy(sem'[s], Waiting(s) \ {w})
                 \/ (s = "shared" \/ place = "waiting") /\ WaitedBy(sem'[s], Waiting(s) \cup {w})
              /\ Permits(sem'[s]) = Permits(sem[s])
    PROVE  Inv'
<1>1. PassesHavePermits'
  BY DEF Inv, PassesHavePermits, LoopTypes
<1>2. permit' = [permit EXCEPT ![w] = None] /\ LoopTypes
  BY WithoutPermit DEF Inv, LoopTypes
<1>3. ASSUME NEW s \in Semaphores
      PROVE  /\ WaitedBy(sem'[s], Waiting(s)')
             /\ Permits(sem'[s]) + Cardinality(Holders(s)')
                = Permits(sem[s]) + Cardinality(Holders(s))
  <2>1. /\ Waiting(s)' = IF place = "waiting" \/ (s = "shared" /\ place = "fallback")
                         THEN Waiting(s) \cup {w} ELSE Waiting(s) \ {w}
        /\ Holders(s)' = IF None = s /\ place \in {"running", "hung"}
                         THEN Holders(s) \cup {w} ELSE Holders(s) \ {w}
    BY <1>2, Moved
  <2>2. Holders(s)' = Holders(s) /\ Waiting(s) \ {w} \subseteq Waiting(s)'
    BY <2>1, WithoutPermit
  <2>3. CASE WaitedBy(sem'[s], Waiting(s) \ {w})
    BY <2>2, <2>3, WiderWait
  <2>4. CASE (s = "shared" \/ place = "waiting") /\ WaitedBy(sem'[s], Waiting(s) \cup {w})
    <3>1. Waiting(s)' = Waiting(s) \cup {w}
      BY <2>1, <2>4
    <3>. QED
      BY <2>2, <2>4, <3>1
  <2>. QED
    BY <2>3, <2>4
<1>. QED
  BY <1>1, <1>3, Accounted

\* The loop goes on or ends without a permit; one it had went back.
LEMMA Ends ==
    ASSUME Inv, LoopTypes', NEW w \in Workers,
           NEW place \in Places \ {"fallback", "waiting", "running", "hung"},
           pc' = [pc EXCEPT ![w] = place], permit' = [permit EXCEPT ![w] = None],
           sem' = [s \in Semaphores |-> sem'[s]],
           \A s \in Semaphores :
              /\ WaitedBy(sem'[s], Waiting(s) \ {w})
              /\ Permits(sem'[s]) = IF s = permit[w] THEN Permits(sem[s]) + 1
                                    ELSE Permits(sem[s])
    PROVE  Inv'
<1>1. PassesHavePermits'
  BY DEF Inv, PassesHavePermits, LoopTypes
<1>2. ASSUME NEW s \in Semaphores
      PROVE  /\ WaitedBy(sem'[s], Waiting(s)')
             /\ Permits(sem'[s]) + Cardinality(Holders(s)')
                = Permits(sem[s]) + Cardinality(Holders(s))
  <2>1. LoopTypes
    BY DEF Inv
  <2>2. /\ Waiting(s)' = IF place = "waiting" \/ (s = "shared" /\ place = "fallback")
                         THEN Waiting(s) \cup {w} ELSE Waiting(s) \ {w}
        /\ Holders(s)' = IF None = s /\ place \in {"running", "hung"}
                         THEN Holders(s) \cup {w} ELSE Holders(s) \ {w}
    BY <2>1, Moved
  <2>3. Waiting(s)' = Waiting(s) \ {w} /\ Holders(s)' = Holders(s) \ {w}
    BY <2>2
  <2>4. Permits(sem[s]) \in Nat /\ Cardinality(Holders(s)) \in Nat
    BY Semaphore, HoldersCounted
  <2>5. CASE s = permit[w]
    <3>1. w \in Holders(s)
      BY <2>5, TaskwardAssumption DEF Inv, PassesHavePermits, Holders
    <3>2. /\ Permits(sem'[s]) = Permits(sem[s]) + 1
          /\ Cardinality(Holders(s) \ {w}) = Cardinality(Holders(s)) - 1
      BY <2>5, <3>1, HoldersCounted
    <3>. QED
      BY <2>3, <2>4, <3>2
  <2>6. CASE s # permit[w]
    <3>1. w \notin Holders(s)
      BY <2>6 DEF Holders
    <3>2. Permits(sem'[s]) = Permits(sem[s]) /\ Holders(s) \ {w} = Holders(s)
      BY <2>6, <3>1
    <3>. QED
      BY <2>3, <3>2
  <2>. QED
    BY <2>5, <2>6
<1>. QED
  BY <1>1, <1>2, Accounted

\* The first poll of the shared semaphore takes a permit or joins the queue.
LEMMA TrySharedInv ==
    ASSUME Inv, NEW w \in Workers, pc[w] \in {"pacing", "idle", "sleeping"}, TryShared(w),
           LoopTypes'
    PROVE  Inv'
<1>0. /\ "shared" \in Semaphores /\ pc[w] \notin {"running", "hung"}
      /\ \A s \in Semaphores : Waiting(s) \ {w} = Waiting(s)
  BY DEF Semaphores, Waiting
<1>1. CASE sem["shared"].free > 0
  <2>1. /\ sem' = [sem EXCEPT !["shared"] = [sem["shared"] EXCEPT !.free = @ - 1]]
        /\ permit' = [permit EXCEPT ![w] = "shared"] /\ pc' = [pc EXCEPT ![w] = "running"]
    BY <1>1 DEF TryShared, Enter, Goto
  <2>2. /\ sem' = [s \in Semaphores |-> sem'[s]]
        /\ \A s \in Semaphores \ {"shared"} : sem'[s] = sem[s]
        /\ sem'["shared"] = [sem["shared"] EXCEPT !.free = @ - 1]
    BY <1>0, <2>1 DEF Inv, QueuesAreClean
  <2>3. /\ WaitedBy(sem'["shared"], Waiting("shared"))
        /\ Permits(sem'["shared"]) = Permits(sem["shared"]) - 1
    BY <1>0, <1>1, <2>2, Semaphore, Acquired
  <2>4. ASSUME NEW s \in Semaphores
        PROVE  /\ WaitedBy(sem'[s], Waiting(s) \ {w})
               /\ Permits(sem'[s]) = IF s = "shared" THEN Permits(sem[s]) - 1
                                     ELSE Permits(sem[s])
    BY <1>0, <2>2, <2>3, Semaphore
  <2>. QED
    BY <1>0, <2>1, <2>2, <2>4, Begins
<1>2. CASE ~(sem["shared"].free > 0)
  <2>. DEFINE place == IF w \in Tiered THEN "fallback" ELSE "waiting"
  <2>1. /\ sem' = [sem EXCEPT !["shared"] = [sem["shared"] EXCEPT !.queue = Append(@, w)]]
        /\ permit' = permit /\ pc' = [pc EXCEPT ![w] = place]
        /\ place \in {"fallback", "waiting"}
    BY <1>2 DEF TryShared, Goto
  <2>. HIDE DEF place
  <2>2. /\ sem' = [s \in Semaphores |-> sem'[s]]
        /\ \A s \in Semaphores \ {"shared"} : sem'[s] = sem[s]
        /\ sem'["shared"] = [sem["shared"] EXCEPT !.queue = Append(@, w)]
    BY <1>0, <2>1 DEF Inv, QueuesAreClean
  <2>3. /\ WaitedBy(sem'["shared"], Waiting("shared") \cup {w})
        /\ Permits(sem'["shared"]) = Permits(sem["shared"])
    <3>1. WaitedBy(sem["shared"], Waiting("shared")) /\ w \notin Waiting("shared")
      BY <1>0, Semaphore
    <3>2. sem'["shared"] = [sem["shared"] EXCEPT !.queue = Append(@, w)]
      BY <2>2
    <3>. QED
      BY <3>1, <3>2, Queued
  <2>4. ASSUME NEW s \in Semaphores
        PROVE  /\ \/ WaitedBy(sem'[s], Waiting(s) \ {w})
                  \/ (s = "shared" \/ place = "waiting") /\ WaitedBy(sem'[s], Waiting(s) \cup {w})
               /\ Permits(sem'[s]) = Permits(sem[s])
    BY <1>0, <2>2, <2>3, Semaphore
  <2>. QED
    BY <1>0, <2>1, <2>2, <2>4, Waits
<1>. QED
  BY <1>1, <1>2

LEMMA EnterTypes ==
    ASSUME LoopTypes, NEW w \in Workers, TryShared(w)
    PROVE  /\ pc' \in [Workers -> Places] /\ owed' \in [Workers -> BOOLEAN]
           /\ permit' \in [Workers -> Semaphores \cup {None}]
  BY Zenon DEF LoopTypes, TryShared, Enter, Goto, Places, Semaphores

LEMMA WakesInv == ASSUME Inv, NEW w \in Workers, Wakes(w) PROVE Inv'
<1>1. TryShared(w) /\ pc[w] \in {"pacing", "idle", "sleeping"} /\ LoopTypes
  BY DEF Wakes, Inv
<1>2. LoopTypes'
  BY <1>1, EnterTypes, Zenon DEF Wakes, LoopTypes, setVars
<1>. QED
  BY <1>1, <1>2, TrySharedInv

LEMMA TimeIsUpInv == ASSUME Inv, NEW w \in Workers, TimeIsUp(w) PROVE Inv'
<1>1. TryShared(w) /\ pc[w] \in {"pacing", "idle", "sleeping"} /\ LoopTypes
  BY DEF TimeIsUp, Inv
<1>2. LoopTypes'
  BY <1>1, EnterTypes, Zenon DEF TimeIsUp, LoopTypes, setVars
<1>. QED
  BY <1>1, <1>2, TrySharedInv

\* The guaranteed permit ends the wait for the shared one.
LEMMA TryGuaranteedInv == ASSUME Inv, NEW w \in Workers, TryGuaranteed(w) PROVE Inv'
<1>0. /\ "shared" \in Semaphores /\ "guaranteed" \in Semaphores /\ pc[w] = "fallback"
      /\ Waiting("guaranteed") \ {w} = Waiting("guaranteed") /\ w \notin Waiting("guaranteed")
      /\ \A s \in Semaphores : s = "shared" \/ s = "guaranteed"
  BY DEF TryGuaranteed, Semaphores, Waiting
<1>1. CASE sem["guaranteed"].free > 0
  <2>1. /\ sem' = [s \in Semaphores |-> IF s = "shared" THEN Leave(sem[s], w)
                                        ELSE [sem[s] EXCEPT !.free = @ - 1]]
        /\ permit' = [permit EXCEPT ![w] = "guaranteed"]
        /\ pc' = [pc EXCEPT ![w] = "running"] /\ owed' = [owed EXCEPT ![w] = FALSE]
    BY <1>1 DEF TryGuaranteed, Enter, Goto
  <2>2. LoopTypes'
    BY <1>0, <2>1, Zenon DEF TryGuaranteed, Inv, LoopTypes, Places, setVars
  <2>3. /\ sem' = [s \in Semaphores |-> sem'[s]]
        /\ sem'["shared"] = Leave(sem["shared"], w)
        /\ sem'["guaranteed"] = [sem["guaranteed"] EXCEPT !.free = @ - 1]
    BY <1>0, <2>1
  <2>4. /\ WaitedBy(sem'["shared"], Waiting("shared") \ {w})
        /\ Permits(sem'["shared"]) = Permits(sem["shared"])
    BY <1>0, <2>3, Semaphore, Left
  <2>5. /\ WaitedBy(sem'["guaranteed"], Waiting("guaranteed") \ {w})
        /\ Permits(sem'["guaranteed"]) = Permits(sem["guaranteed"]) - 1
    <3>1. WaitedBy(sem["guaranteed"], Waiting("guaranteed"))
      BY <1>0, Semaphore
    <3>2. sem'["guaranteed"] = [sem["guaranteed"] EXCEPT !.free = @ - 1]
      BY <2>3
    <3>3. Waiting("guaranteed") \ {w} = Waiting("guaranteed")
      BY <1>0
    <3>4. /\ WaitedBy(sem'["guaranteed"], Waiting("guaranteed"))
          /\ Permits(sem'["guaranteed"]) = Permits(sem["guaranteed"]) - 1
      BY <1>1, <3>1, <3>2, Acquired
    <3>. QED
      BY <3>3, <3>4
  <2>6. ASSUME NEW s \in Semaphores
        PROVE  /\ WaitedBy(sem'[s], Waiting(s) \ {w})
               /\ Permits(sem'[s]) = IF s = "guaranteed" THEN Permits(sem[s]) - 1
                                     ELSE Permits(sem[s])
    BY <1>0, <2>4, <2>5
  <2>. QED
    BY <1>0, <2>1, <2>2, <2>3, <2>6, Begins
<1>2. CASE ~(sem["guaranteed"].free > 0)
  <2>1. /\ sem' = [sem EXCEPT !["guaranteed"] =
                      [sem["guaranteed"] EXCEPT !.queue = Append(@, w)]]
        /\ permit' = permit /\ pc' = [pc EXCEPT ![w] = "waiting"] /\ owed' = owed
    BY <1>2 DEF TryGuaranteed, Goto
  <2>2. LoopTypes'
    BY <2>1, Zenon DEF TryGuaranteed, Inv, LoopTypes, Places, setVars
  <2>3. /\ sem' = [s \in Semaphores |-> sem'[s]]
        /\ sem'["shared"] = sem["shared"]
        /\ sem'["guaranteed"] = [sem["guaranteed"] EXCEPT !.queue = Append(@, w)]
    BY <1>0, <2>1 DEF Inv, QueuesAreClean
  <2>4. /\ WaitedBy(sem'["guaranteed"], Waiting("guaranteed") \cup {w})
        /\ Permits(sem'["guaranteed"]) = Permits(sem["guaranteed"])
    <3>1. WaitedBy(sem["guaranteed"], Waiting("guaranteed"))
      BY <1>0, Semaphore
    <3>2. sem'["guaranteed"] = [sem["guaranteed"] EXCEPT !.queue = Append(@, w)]
      BY <2>3
    <3>3. w \notin Waiting("guaranteed")
      BY <1>0
    <3>. QED
      BY <1>2, <3>1, <3>2, <3>3, Queued
  <2>5. WaitedBy(sem'["shared"], Waiting("shared") \cup {w})
    <3>1. WaitedBy(sem["shared"], Waiting("shared"))
      BY <1>0, Semaphore
    <3>. QED
      BY <2>3, <3>1, WiderWait
  <2>6. ASSUME NEW s \in Semaphores
        PROVE  /\ WaitedBy(sem'[s], Waiting(s) \cup {w})
               /\ Permits(sem'[s]) = Permits(sem[s])
    BY <1>0, <2>3, <2>4, <2>5
  <2>. QED
    BY <1>0, <2>1, <2>2, <2>3, <2>6, Waits
<1>. QED
  BY <1>1, <1>2

\* A waiter that was served takes its permit and drops its other wait.
LEMMA ServedInv == ASSUME Inv, NEW w \in Workers, Served(w) PROVE Inv'
<1>1. PICK t \in Semaphores : w \in sem[t].served /\ sem' = AfterTaking(w, t) /\ Enter(w, t)
  BY DEF Served
<1>2. /\ permit' = [permit EXCEPT ![w] = t] /\ pc' = [pc EXCEPT ![w] = "running"]
      /\ owed' = [owed EXCEPT ![w] = FALSE] /\ pc[w] = "waiting"
  BY <1>1 DEF Served, Enter, Goto
<1>3. LoopTypes'
  BY <1>2, Zenon DEF Served, Inv, LoopTypes, Places, setVars
<1>4. /\ sem' = [s \in Semaphores |-> sem'[s]]
      /\ \A s \in Semaphores :
            sem'[s] = IF s = t THEN [sem[s] EXCEPT !.served = @ \ {w}] ELSE Leave(sem[s], w)
  BY <1>1 DEF AfterTaking
<1>5. ASSUME NEW s \in Semaphores
      PROVE  /\ WaitedBy(sem'[s], Waiting(s) \ {w})
             /\ Permits(sem'[s]) = IF s = t THEN Permits(sem[s]) - 1 ELSE Permits(sem[s])
  <2>0. WaitedBy(sem[s], Waiting(s))
    BY Semaphore
  <2>1. CASE s = t
    <3>1. sem'[s] = [sem[s] EXCEPT !.served = @ \ {w}] /\ w \in sem[s].served
      BY <1>1, <1>4, <2>1
    <3>. QED
      BY <2>0, <2>1, <3>1, Taken
  <2>2. CASE s # t
    <3>1. sem'[s] = Leave(sem[s], w)
      BY <1>4, <2>2
    <3>. QED
      BY <2>0, <2>2, <3>1, Left
  <2>. QED
    BY <2>1, <2>2
<1>. QED
  BY <1>2, <1>3, <1>4, <1>5, Begins

\* What a worker has, a permit or its places in the queues, goes back.
LEMMA ReleasePermitInv ==
    ASSUME Inv, NEW w \in Workers, LoopTypes', pc[w] # "fallback",
           NEW place \in Places \ {"fallback", "waiting", "running", "hung"},
           Goto(w, place), ReleasePermit(w, place)
    PROVE  Inv'
<1>0. /\ permit \in [Workers -> Semaphores \cup {None}] /\ None \notin Semaphores
      /\ sem \in [Semaphores -> SemType]
      /\ permit[w] # None <=> pc[w] \in {"running", "hung"}
  BY TaskwardAssumption DEF Inv, LoopTypes, QueuesAreClean, PassesHavePermits
<1>1. pc' = [pc EXCEPT ![w] = place] /\ permit' = [permit EXCEPT ![w] = None]
  BY DEF ReleasePermit, Goto
<1>2. CASE permit[w] = None
  <2>1. sem' = [s \in Semaphores |-> Leave(sem[s], w)]
    BY <1>2 DEF ReleasePermit, Released
  <2>2. sem' = [s \in Semaphores |-> sem'[s]]
    BY <2>1
  <2>3. ASSUME NEW s \in Semaphores
        PROVE  /\ WaitedBy(sem'[s], Waiting(s) \ {w})
               /\ Permits(sem'[s]) = IF s = permit[w] THEN Permits(sem[s]) + 1
                                     ELSE Permits(sem[s])
    <3>1. sem'[s] = Leave(sem[s], w) /\ s # permit[w]
      BY <1>0, <1>2, <2>1
    <3>2. WaitedBy(sem[s], Waiting(s))
      BY Semaphore
    <3>3. WaitedBy(sem'[s], Waiting(s) \ {w}) /\ Permits(sem'[s]) = Permits(sem[s])
      BY <3>1, <3>2, Left
    <3>. QED
      BY <3>1, <3>3
  <2>. QED
    BY <1>1, <2>2, <2>3, Ends
<1>3. CASE permit[w] # None
  <2>. DEFINE t == permit[w]
  <2>1. t \in Semaphores /\ sem' = [sem EXCEPT ![t] = Give(sem[t])]
    BY <1>0, <1>3 DEF ReleasePermit, Released
  <2>2. /\ sem' = [s \in Semaphores |-> sem'[s]]
        /\ \A s \in Semaphores : sem'[s] = IF s = t THEN Give(sem[s]) ELSE sem[s]
    BY <1>0, <2>1
  <2>3. ASSUME NEW s \in Semaphores
        PROVE  /\ WaitedBy(sem'[s], Waiting(s) \ {w})
               /\ Permits(sem'[s]) = IF s = t THEN Permits(sem[s]) + 1 ELSE Permits(sem[s])
    <3>0. WaitedBy(sem[s], Waiting(s)) /\ Waiting(s) \ {w} = Waiting(s)
      BY <1>0, <1>3, Semaphore DEF Waiting
    <3>1. CASE s = t
      <4>1. sem'[s] = Give(sem[s])
        BY <2>2, <3>1
      <4>. QED
        BY <3>0, <3>1, <4>1, Given
    <3>2. CASE s # t
      <4>1. sem'[s] = sem[s]
        BY <2>2, <3>2
      <4>. QED
        BY <3>0, <3>2, <4>1
    <3>. QED
      BY <3>1, <3>2
  <2>. QED
    BY <1>1, <2>2, <2>3, Ends
<1>. QED
  BY <1>2, <1>3

LEMMA ReleaseTypes ==
    ASSUME LoopTypes, NEW w \in Workers, NEW place \in Places,
           Goto(w, place), ReleasePermit(w, place)
    PROVE  /\ pc' \in [Workers -> Places]
           /\ permit' \in [Workers -> Semaphores \cup {None}]
  BY Zenon DEF LoopTypes, Goto, ReleasePermit

LEMMA PassSucceedsInv == ASSUME Inv, NEW w \in Workers, PassSucceeds(w) PROVE Inv'
<1>1. PICK place \in {"pacing", "idle", "sleeping"} : Goto(w, place) /\ ReleasePermit(w, place)
  BY DEF PassSucceeds
<1>2. place \in Places \ {"fallback", "waiting", "running", "hung"} /\ pc[w] # "fallback"
  BY DEF PassSucceeds, Places
<1>3. failures' \in [Workers -> 0..MaxFailures]
  BY TaskwardAssumption DEF PassSucceeds, Inv, LoopTypes
<1>4. LoopTypes'
  BY <1>1, <1>2, <1>3, ReleaseTypes DEF PassSucceeds, Inv, LoopTypes, setVars
<1>. QED
  BY <1>1, <1>2, <1>4, ReleasePermitInv

LEMMA PassFailsInv == ASSUME Inv, NEW w \in Workers, PassFails(w) PROVE Inv'
<1>1. PICK place \in AfterError(w) : Goto(w, place) /\ ReleasePermit(w, place)
  BY DEF PassFails
<1>2. place \in Places \ {"fallback", "waiting", "running", "hung"} /\ pc[w] # "fallback"
  BY DEF PassFails, AfterError, Places
<1>3. failures' \in [Workers -> 0..MaxFailures]
  BY TaskwardAssumption DEF PassFails, Inv, LoopTypes
<1>4. LoopTypes'
  BY <1>1, <1>2, <1>3, ReleaseTypes DEF PassFails, Inv, LoopTypes, setVars
<1>. QED
  BY <1>1, <1>2, <1>4, ReleasePermitInv

\* However a worker stops, it leaves nothing behind.
LEMMA StopsInv ==
    ASSUME Inv, NEW w \in Workers, Breaks(w) \/ StopDeadline(w) \/ Aborts(w) PROVE Inv'
<1>1. Stops(w) /\ pc[w] # "fallback"
  BY DEF Breaks, StopDeadline, Aborts
<1>2. /\ "stopped" \in Places \ {"fallback", "waiting", "running", "hung"}
      /\ Goto(w, "stopped") /\ ReleasePermit(w, "stopped")
  BY <1>1 DEF Stops, Places
<1>3. failures' \in [Workers -> 0..MaxFailures]
  BY <1>1, TaskwardAssumption DEF Stops, Inv, LoopTypes
<1>4. note' \in [Workers -> BOOLEAN]
  BY <1>1 DEF Stops, Inv, LoopTypes
<1>5. LoopTypes'
  BY <1>1, <1>2, <1>3, <1>4, ReleaseTypes DEF Stops, Inv, LoopTypes, setVars
<1>. QED
  BY <1>1, <1>2, <1>5, ReleasePermitInv
-----------------------------------------------------------------------------
LEMMA NextInv == Inv /\ [Next]_vars => Inv'
<1>. SUFFICES ASSUME Inv, [Next]_vars PROVE Inv'
  OBVIOUS
<1>1. ASSUME NEW w \in Workers, Notify(w) \/ Hangs(w) PROVE Inv'
  BY <1>1, NotifyInv, HangsInv
<1>2. ASSUME NEW w \in Workers, Step(w) PROVE Inv'
  BY <1>2, BackoffEndsInv, WakesInv, TimeIsUpInv, TryGuaranteedInv, ServedInv,
     PassSucceedsInv, PassFailsInv
  DEF Step
<1>3. ASSUME NEW w \in Workers, Breaks(w) \/ StopDeadline(w) \/ Aborts(w) PROVE Inv'
  BY <1>3, StopsInv
<1>4. CASE Cancel \/ DropSet
  BY <1>4, CancelInv
<1>5. CASE UNCHANGED vars
  <2>1. LoopTypes'
    BY <1>5, Zenon DEF Inv, LoopTypes, vars, loopVars, setVars
  <2>. QED
    BY <1>5, <2>1, NothingMoves DEF vars
<1>. QED
  BY <1>1, <1>2, <1>3, <1>4, <1>5 DEF Next

\* The inductive invariant holds throughout.
THEOREM Invariance == Spec => []Inv
  BY InitInv, NextInv, PTL DEF Spec

\* Types, with the bound of each semaphore: no operation of the bulkhead, in
\* whatever order, returns a permit that was not taken (Bulkhead::acquire, _permit).
THEOREM TypeCorrect == Spec => []TypeOK
  BY Invariance, InvImplies, PTL

\* No permit leaks and none is counted twice: each is free, on its way to a worker
\* that waits, or with a pass that runs, for any number of workers and permits and
\* with both waits of a tiered worker pending at once (Bulkhead::acquire, run_inner).
THEOREM NoPermitLeaks == Spec => []PermitsAccounted
  BY Invariance, InvImplies, PTL
=============================================================================
