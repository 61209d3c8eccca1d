---------------------------- MODULE OutboxProofs ----------------------------
(***************************************************************************)
(* Machine-checked proofs about Outbox, for any number of producers,       *)
(* sequencers, processors, vacuum workers, messages and faults.            *)
(***************************************************************************)
EXTENDS Outbox, FiniteSetTheorems, SequenceTheorems, TLAPS

\* What ORDER BY ... LIMIT returns: an increasing sequence of rows that leaves
\* out only rows above all it takes.
LEMMA OrderByLimitFacts ==
    ASSUME NEW S \in SUBSET Nat, NEW lim \in Nat, NEW q \in OrderByLimit(S, lim)
    PROVE  /\ q \in Seq(S)
           /\ Len(q) <= lim
           /\ \A i, j \in DOMAIN q : i < j => q[i] < q[j]
           /\ \A m \in S : (\A i \in DOMAIN q : q[i] # m)
                  => \A i \in DOMAIN q : q[i] < m
<1>1. PICK n \in 0..lim : q \in [1..n -> S]
  BY DEF OrderByLimit
<1>2. q \in Seq(S) /\ Len(q) = n
  BY <1>1
<1>3. QED
  BY <1>1, <1>2 DEF OrderByLimit

LEMMA ShorterInterval ==
    ASSUME NEW a \in Nat, NEW b \in Nat, NEW c \in Nat, b > a
    PROVE  \A s \in b + 1 .. c : s \in a + 1 .. c
  OBVIOUS

\* A sequence of some natural numbers.
LEMMA SeqFacts ==
    ASSUME NEW S \in SUBSET Nat, NEW b \in Seq(S)
    PROVE  /\ b \in Seq(Nat) /\ DOMAIN b = 1..Len(b) /\ Len(b) \in Nat
           /\ \A i \in DOMAIN b : b[i] \in S
<1>1. /\ DOMAIN b = 1..Len(b) /\ Len(b) \in Nat
      /\ \A i \in DOMAIN b : b[i] \in S
  OBVIOUS
<1>2. b \in Seq(Nat)
  BY SeqMonotonic
<1>3. QED
  BY <1>1, <1>2

\* A sequence without repetition over 1..N has at most N elements.
LEMMA Pigeonhole ==
    ASSUME NEW N \in Nat, NEW q \in Seq(1..N),
           \A i, j \in DOMAIN q : i # j => q[i] # q[j]
    PROVE  Len(q) <= N
<1>1. DOMAIN q = 1..Len(q) /\ Len(q) \in Nat
  OBVIOUS
<1>2. \A n \in Nat : IsFiniteSet(1..n) /\ Cardinality(1..n) = n
  <2> SUFFICES ASSUME NEW n \in Nat PROVE IsFiniteSet(1..n) /\ Cardinality(1..n) = n
    OBVIOUS
  <2>1. 1 \in Int /\ n \in Int
    OBVIOUS
  <2>2. IsFiniteSet(1..n) /\ Cardinality(1..n) = IF 1 > n THEN 0 ELSE n - 1 + 1
    BY <2>1, FS_Interval, Zenon
  <2>3. QED
    BY <2>2
<1>3. q \in Injection(1..Len(q), 1..N)
  BY <1>1 DEF Injection, IsInjective
<1>4. Cardinality(1..Len(q)) <= Cardinality(1..N)
  BY <1>2, <1>3, FS_Injection, Zenon
<1>5. QED
  BY <1>1, <1>2, <1>4
-----------------------------------------------------------------------------
(* Frames: a step that leaves a part's variables alone preserves the part. *)

LEMMA FrameTypes ==
    /\ EnqueueTypes /\ UNCHANGED enqueueVars => EnqueueTypes'
    /\ SequencerTypes /\ UNCHANGED sequencerVars => SequencerTypes'
    /\ RowTypes /\ UNCHANGED rowVars => RowTypes'
    /\ WorkerTypes /\ UNCHANGED workerVars => WorkerTypes'
    /\ VacuumTypes /\ UNCHANGED <<counter, vacuumVars>> => VacuumTypes'
    /\ HistoryTypes /\ UNCHANGED <<committed, owner, log>> => HistoryTypes'
    /\ CallTypes /\ UNCHANGED <<calls, dead_letters>> => CallTypes'
    /\ FaultTypes /\ UNCHANGED faults => FaultTypes'
<1>1. EnqueueTypes /\ UNCHANGED enqueueVars => EnqueueTypes'
  BY DEF EnqueueTypes, enqueueVars
<1>2. SequencerTypes /\ UNCHANGED sequencerVars => SequencerTypes'
  BY DEF SequencerTypes, sequencerVars
<1>3. RowTypes /\ UNCHANGED rowVars => RowTypes'
  BY DEF RowTypes, rowVars
<1>4. WorkerTypes /\ UNCHANGED workerVars => WorkerTypes'
  BY DEF WorkerTypes, workerVars
<1>5. VacuumTypes /\ UNCHANGED <<counter, vacuumVars>> => VacuumTypes'
  BY DEF VacuumTypes, vacuumVars
<1>6. HistoryTypes /\ UNCHANGED <<committed, owner, log>> => HistoryTypes'
  BY DEF HistoryTypes
<1>7. CallTypes /\ UNCHANGED <<calls, dead_letters>> => CallTypes'
  BY DEF CallTypes
<1>8. FaultTypes /\ UNCHANGED faults => FaultTypes'
  BY DEF FaultTypes
<1>9. QED
  BY <1>1, <1>2, <1>3, <1>4, <1>5, <1>6, <1>7, <1>8

\* The budget of faults is kept.
LEMMA FaultIsBounded == FaultTypes /\ Fault => FaultTypes'
  BY BoundsAssumption DEF FaultTypes, Fault

LEMMA FrameIds ==
    IdsAreFresh /\ UNCHANGED <<next_id, open, committed>> => IdsAreFresh'
  BY DEF IdsAreFresh

LEMMA FrameClaims ==
    ClaimsAreExclusive /\ UNCHANGED <<claimed, part_lock, incoming>>
        => ClaimsAreExclusive'
  BY DEF ClaimsAreExclusive

LEMMA FrameNumbers ==
    NumbersAreDense
        /\ UNCHANGED <<log, sequence, processed_seq, incoming, body, outgoing>>
        => NumbersAreDense'
  BY DEF NumbersAreDense

LEMMA FramePasses ==
    PassesAreSound /\ UNCHANGED <<pc, batch, done, rejected, sequence, calls>>
        => PassesAreSound'
  BY DEF PassesAreSound, Working

LEMMA FrameHolder ==
    HolderIsCurrent /\ UNCHANGED <<pc, batch, locked_by, processed_seq>>
        => HolderIsCurrent'
  BY DEF HolderIsCurrent, Working

LEMMA FrameVacuum ==
    VacuumIsBehind /\ UNCHANGED <<vcursor, processed_seq>> => VacuumIsBehind'
  BY DEF VacuumIsBehind

LEMMA FrameSequenced ==
    SequencedOnce /\ UNCHANGED <<committed, incoming, log>> => SequencedOnce'
  BY DEF SequencedOnce, Elems

LEMMA FrameReadable ==
    UnprocessedIsReadable
        /\ UNCHANGED <<processed_seq, sequence, outgoing, log, body>>
        => UnprocessedIsReadable'
  BY DEF UnprocessedIsReadable

LEMMA FrameSettled ==
    SettledWasHandled /\ UNCHANGED <<processed_seq, calls, dead_letters>>
        => SettledWasHandled'
  BY DEF SettledWasHandled

LEMMA FrameDead ==
    DeadLetteredOnce /\ UNCHANGED <<dead_letters, processed_seq>>
        => DeadLetteredOnce'
  BY DEF DeadLetteredOnce
-----------------------------------------------------------------------------
(* Producers.                                                              *)

LEMMA EnqueueStep ==
    ASSUME Inv, NEW p \in Producers, Enqueue(p)
    PROVE  Inv'
<1>1. next_id \in Ids /\ next_id' = next_id + 1
  BY DEF Inv, TypeOK, EnqueueTypes, Enqueue, Ids
<1>2. EnqueueTypes'
  BY <1>1, BoundsAssumption DEF Inv, TypeOK, EnqueueTypes, Enqueue, Ids
<1>3. HistoryTypes'
  BY <1>1 DEF Inv, TypeOK, HistoryTypes, Enqueue
<1>4. IdsAreFresh'
  <2>1. \A r \in Producers :
           open'[r] = IF r = p THEN open[p] \cup {next_id} ELSE open[r]
    BY DEF Inv, TypeOK, EnqueueTypes, Enqueue
  <2>2. \A m \in committed : m \in Nat
    BY DEF Inv, TypeOK, HistoryTypes, Ids
  <2>3. \A r \in Producers : \A m \in open[r] : m \in Nat
    BY DEF Inv, TypeOK, EnqueueTypes, Ids
  <2>4. next_id \in Nat
    BY <1>1 DEF Ids
  <2>5. QED
    BY <1>1, <2>1, <2>2, <2>3, <2>4 DEF Inv, IdsAreFresh, Enqueue
<1>5. QED
  BY <1>2, <1>3, <1>4, FrameTypes, FrameClaims, FrameNumbers, FramePasses,
     FrameHolder, FrameVacuum, FrameSequenced, FrameReadable, FrameSettled, FrameDead
  DEF Inv, TypeOK, Enqueue, sequencerVars, rowVars, workerVars, vacuumVars

LEMMA CommitEnqueueStep ==
    ASSUME Inv, NEW p \in Producers, CommitEnqueue(p)
    PROVE  Inv'
<1>1. EnqueueTypes' /\ HistoryTypes'
  BY DEF Inv, TypeOK, EnqueueTypes, HistoryTypes, CommitEnqueue
<1>2. IdsAreFresh'
  BY DEF Inv, TypeOK, EnqueueTypes, IdsAreFresh, CommitEnqueue
<1>3. ClaimsAreExclusive'
  BY DEF Inv, ClaimsAreExclusive, CommitEnqueue, sequencerVars
<1>4. NumbersAreDense'
  BY DEF Inv, NumbersAreDense, CommitEnqueue, sequencerVars, rowVars
<1>5. SequencedOnce'
  BY DEF Inv, IdsAreFresh, SequencedOnce, CommitEnqueue, Elems
<1>6. UnprocessedIsReadable'
  BY DEF Inv, UnprocessedIsReadable, CommitEnqueue, sequencerVars, rowVars
<1>7. QED
  BY <1>1, <1>2, <1>3, <1>4, <1>5, <1>6, FrameTypes, FramePasses, FrameHolder,
     FrameVacuum, FrameSettled, FrameDead
  DEF Inv, TypeOK, CommitEnqueue, sequencerVars, rowVars, workerVars, vacuumVars

LEMMA RollbackEnqueueStep ==
    ASSUME Inv, NEW p \in Producers, RollbackEnqueue(p)
    PROVE  Inv'
<1>1. EnqueueTypes'
  BY DEF Inv, TypeOK, EnqueueTypes, RollbackEnqueue
<1>2. FaultTypes'
  BY FaultIsBounded DEF Inv, TypeOK, RollbackEnqueue
<1>3. IdsAreFresh'
  BY DEF Inv, TypeOK, EnqueueTypes, IdsAreFresh, RollbackEnqueue
<1>4. QED
  BY <1>1, <1>2, <1>3, FrameTypes, FrameClaims, FrameNumbers, FramePasses,
     FrameHolder, FrameVacuum, FrameSequenced, FrameReadable, FrameSettled, FrameDead
  DEF Inv, TypeOK, RollbackEnqueue, sequencerVars, rowVars, workerVars, vacuumVars
-----------------------------------------------------------------------------
(* Sequencers.                                                             *)

\* While nobody holds the partition row, no sequencer has claimed anything;
\* while one does, no other has.
LEMMA OneClaimant ==
    ASSUME Inv, NEW q \in Sequencers, part_lock \in {None, q}
    PROVE  \A r \in Sequencers : r # q => claimed[r] = <<>>
  BY NoneAssumption DEF Inv, ClaimsAreExclusive

LEMMA ClaimIncomingStep ==
    ASSUME Inv, NEW q \in Sequencers, ClaimIncoming(q)
    PROVE  Inv'
<1>1. PICK c \in OrderByLimit(Claimable(q), SeqBatch) :
          claimed' = [claimed EXCEPT ![q] = c]
  BY DEF ClaimIncoming
<1>2. Claimable(q) \in SUBSET Nat /\ Claimable(q) \subseteq incoming
  <2>1. Claimable(q) \subseteq incoming
    BY DEF Claimable
  <2>2. incoming \subseteq Nat
    BY BoundsAssumption DEF Inv, TypeOK, EnqueueTypes, Ids
  <2>3. QED
    BY <2>1, <2>2
<1>3. /\ c \in Seq(Claimable(q)) /\ Len(c) <= SeqBatch
      /\ \A i, j \in DOMAIN c : i < j => c[i] < c[j]
  BY <1>2, OrderByLimitFacts, SettingsAssumption
<1>4. c \in Seq(Ids) /\ Elems(c) \subseteq incoming
  BY <1>2, <1>3 DEF Inv, TypeOK, EnqueueTypes, Elems
<1>5. SequencerTypes'
  BY <1>1, <1>4 DEF Inv, TypeOK, SequencerTypes, ClaimIncoming
<1>6. ClaimsAreExclusive'
  <2>1. \A r \in Sequencers : r # q => claimed[r] = <<>>
    BY OneClaimant DEF ClaimIncoming, PartitionFree
  <2>2. \A r \in Sequencers : claimed'[r] = IF r = q THEN c ELSE <<>>
    BY <1>1, <2>1 DEF Inv, TypeOK, SequencerTypes
  <2>3. QED
    BY <1>3, <1>4, <2>2 DEF ClaimsAreExclusive, ClaimIncoming, enqueueVars
<1>7. QED
  BY <1>5, <1>6, FrameTypes, FrameIds, FrameNumbers, FramePasses, FrameHolder,
     FrameVacuum, FrameSequenced, FrameReadable, FrameSettled, FrameDead
  DEF Inv, TypeOK, ClaimIncoming, enqueueVars, rowVars, workerVars, vacuumVars,
      historyVars

LEMMA CommitSequencedStep ==
    ASSUME Inv, NEW q \in Sequencers, CommitSequenced(q)
    PROVE  Inv'
<1> DEFINE c == claimed[q]
           n == Len(c)
<1>1. /\ c \in Seq(Ids) /\ n \in Nat /\ DOMAIN c = 1..n
      /\ log \in Seq(Ids) /\ Len(log) = sequence /\ DOMAIN log = 1..sequence
      /\ sequence \in Nat /\ processed_seq \in Nat
  BY DEF Inv, TypeOK, SequencerTypes, HistoryTypes, RowTypes, NumbersAreDense
<1>2. /\ part_lock = q
      /\ \A i \in 1..n : c[i] \in incoming
      /\ \A i, j \in 1..n : i # j => c[i] # c[j]
  <2>1. /\ part_lock = q /\ Elems(c) \subseteq incoming
        /\ \A i, j \in DOMAIN c : i < j => c[i] < c[j]
    BY DEF Inv, ClaimsAreExclusive, CommitSequenced
  <2>2. \A i \in 1..n : c[i] \in Nat
    BY <1>1, BoundsAssumption DEF Ids
  <2>3. \A i \in 1..n : c[i] \in incoming
    BY <1>1, <2>1 DEF Elems
  <2>4. \A i, j \in 1..n : i # j => c[i] # c[j]
    <3> SUFFICES ASSUME NEW i \in 1..n, NEW j \in 1..n, i < j PROVE c[i] # c[j]
      OBVIOUS
    <3>1. c[i] < c[j] /\ c[i] \in Nat
      BY <1>1, <2>1, <2>2
    <3>2. QED
      BY <3>1
  <2>5. QED
    BY <2>1, <2>3, <2>4
<1>3. \A r \in Sequencers : claimed'[r] = <<>>
  BY <1>2, OneClaimant DEF Inv, TypeOK, SequencerTypes, CommitSequenced
<1>4. /\ log' \in Seq(Ids) /\ Len(log') = sequence' /\ sequence' = sequence + n
      /\ DOMAIN log' = 1..sequence'
      /\ \A i \in 1..sequence : log'[i] = log[i]
      /\ \A i \in 1..n : log'[sequence + i] = c[i]
  <2>1. log' = log \o c /\ sequence' = sequence + n
    BY DEF CommitSequenced
  <2> HIDE DEF c, n
  <2>2. log' \in Seq(Ids) /\ Len(log') = Len(log) + Len(c)
    BY <1>1, <2>1, ConcatProperties
  <2>3. Len(c) = n
    BY DEF n
  <2>4. \A i \in 1..sequence : log'[i] = log[i]
    BY <1>1, <2>1, <2>3
  <2>5. \A i \in 1..n : log'[sequence + i] = c[i]
    BY <1>1, <2>1, <2>3
  <2>6. QED
    BY <1>1, <2>1, <2>2, <2>3, <2>4, <2>5
<1>5. /\ DOMAIN outgoing' = DOMAIN outgoing \cup (sequence + 1 .. sequence + n)
      /\ \A s \in DOMAIN outgoing' :
            outgoing'[s] = IF s \in sequence + 1 .. sequence + n
                             THEN c[s - sequence] ELSE outgoing[s]
  BY DEF CommitSequenced
<1>6. \A s \in DOMAIN outgoing' : s \in 1..sequence' /\ outgoing'[s] = log'[s]
  <2> SUFFICES ASSUME NEW s \in DOMAIN outgoing'
               PROVE  s \in 1..sequence' /\ outgoing'[s] = log'[s]
    OBVIOUS
  <2>1. CASE s \in sequence + 1 .. sequence + n
    <3>1. s - sequence \in 1..n /\ sequence + (s - sequence) = s
      BY <1>1, <2>1
    <3>2. outgoing'[s] = c[s - sequence]
      BY <1>5, <2>1, Zenon
    <3>3. log'[sequence + (s - sequence)] = c[s - sequence]
      BY <1>4, <3>1, Zenon
    <3>4. log'[s] = c[s - sequence]
      BY <3>1, <3>3, Zenon
    <3> HIDE DEF c, n
    <3>5. s \in 1..sequence'
      BY <1>1, <1>4, <2>1
    <3>6. QED
      BY <3>2, <3>4, <3>5
  <2>2. CASE s \notin sequence + 1 .. sequence + n
    <3>1. s \in DOMAIN outgoing /\ outgoing'[s] = outgoing[s]
      BY <1>5, <2>2
    <3>2. s \in 1..sequence /\ outgoing[s] = log[s]
      BY <3>1 DEF Inv, NumbersAreDense
    <3>3. QED
      BY <1>1, <1>4, <3>1, <3>2
  <2>3. QED
    BY <2>1, <2>2
<1>7. SequencerTypes'
  <2>1. \A s \in DOMAIN outgoing' : s \in Nat /\ outgoing'[s] \in Ids
    BY <1>1, <1>4, <1>6
  <2>2. outgoing' = [s \in DOMAIN outgoing' |-> outgoing'[s]]
    BY DEF CommitSequenced
  <2>3. outgoing' \in [DOMAIN outgoing' -> Ids] /\ DOMAIN outgoing' \subseteq Nat
    BY <2>1, <2>2
  <2>4. QED
    BY <1>1, <1>4, <2>3 DEF Inv, TypeOK, SequencerTypes, CommitSequenced
<1>8. EnqueueTypes' /\ HistoryTypes'
  BY <1>4 DEF Inv, TypeOK, EnqueueTypes, HistoryTypes, CommitSequenced
<1>9. ClaimsAreExclusive'
  BY <1>3 DEF ClaimsAreExclusive
<1>10. SequencedOnce'
  <2>1. Elems(log') = Elems(log) \cup Elems(c)
    <3>1. \A i \in 1..sequence' : i \in 1..sequence \/ i - sequence \in 1..n
      BY <1>1, <1>4
    <3>2. \A i \in 1..sequence' : log'[i] \in Elems(log) \cup Elems(c)
      <4> SUFFICES ASSUME NEW i \in 1..sequence'
                   PROVE  log'[i] \in Elems(log) \cup Elems(c)
        OBVIOUS
      <4>1. CASE i \in 1..sequence
        BY <1>1, <1>4, <4>1 DEF Elems
      <4>2. CASE i - sequence \in 1..n
        <5>1. i = sequence + (i - sequence)
          BY <1>1, <1>4
        <5>2. log'[i] = c[i - sequence]
          BY <1>4, <4>2, <5>1
        <5>3. QED
          BY <1>1, <4>2, <5>2 DEF Elems
      <4>3. QED
        BY <3>1, <4>1, <4>2
    <3>3. \A i \in 1..sequence : i \in 1..sequence' /\ log[i] = log'[i]
      BY <1>1, <1>4
    <3>4. \A i \in 1..n : sequence + i \in 1..sequence' /\ c[i] = log'[sequence + i]
      BY <1>1, <1>4
    <3>5. Elems(log') \subseteq Elems(log) \cup Elems(c)
      BY <1>4, <3>2 DEF Elems
    <3>6. Elems(log) \subseteq Elems(log')
      BY <1>1, <1>4, <3>3 DEF Elems
    <3>7. Elems(c) \subseteq Elems(log')
      <4> SUFFICES ASSUME NEW i \in DOMAIN c PROVE c[i] \in Elems(log')
        BY DEF Elems
      <4>1. i \in 1..n
        BY <1>1
      <4>2. sequence + i \in DOMAIN log' /\ c[i] = log'[sequence + i]
        BY <1>4, <3>4, <4>1
      <4>3. QED
        BY <4>2 DEF Elems
    <3>8. QED
      BY <3>5, <3>6, <3>7
  <2>2. committed' = incoming' \cup Elems(log') /\ incoming' \cap Elems(log') = {}
    <3>1. Elems(c) \subseteq incoming
      BY <1>1, <1>2 DEF Elems
    <3>2. QED
      BY <2>1, <3>1 DEF Inv, SequencedOnce, CommitSequenced
  <2>3. \A i, j \in 1..sequence' : i # j => log'[i] # log'[j]
    <3>1. \A i \in 1..sequence, j \in 1..n : log[i] # c[j]
      BY <1>1, <1>2 DEF Inv, SequencedOnce, Elems
    <3>2. \A i, j \in 1..sequence : i # j => log[i] # log[j]
      BY <1>1 DEF Inv, SequencedOnce
    <3>3. \A i \in 1..sequence' :
             \/ i \in 1..sequence /\ log'[i] = log[i]
             \/ i \notin 1..sequence /\ i - sequence \in 1..n /\ log'[i] = c[i - sequence]
      <4> SUFFICES ASSUME NEW i \in 1..sequence', i \notin 1..sequence
                   PROVE  i - sequence \in 1..n /\ log'[i] = c[i - sequence]
        BY <1>4
      <4>1. i - sequence \in 1..n /\ i = sequence + (i - sequence)
        BY <1>1, <1>4
      <4>2. QED
        BY <1>4, <4>1
    <3>4. SUFFICES ASSUME NEW i \in 1..sequence', NEW j \in 1..sequence', i # j
                   PROVE  log'[i] # log'[j]
      OBVIOUS
    <3>5. i - sequence # j - sequence
      BY <1>1, <1>4, <3>4
    <3>6. QED
      BY <1>2, <3>1, <3>2, <3>3, <3>4, <3>5
  <2>4. QED
    BY <1>4, <2>2, <2>3 DEF SequencedOnce
<1>11. NumbersAreDense'
  <2>1. sequence' <= MaxMsgs
    BY <1>4, <1>10, Pigeonhole, BoundsAssumption DEF SequencedOnce, Ids
  <2>2. processed_seq' <= sequence'
    BY <1>1, <1>4 DEF Inv, NumbersAreDense, CommitSequenced, rowVars
  <2>3. incoming' \subseteq body'
    BY DEF Inv, NumbersAreDense, CommitSequenced
  <2>4. QED
    BY <1>4, <1>6, <2>1, <2>2, <2>3 DEF NumbersAreDense
<1>12. PassesAreSound'
  <2>1. \A s \in 1..sequence : s \in 1..sequence'
    BY <1>1, <1>4
  <2>2. UNCHANGED <<pc, batch, done, rejected, calls>>
    BY DEF CommitSequenced, workerVars
  <2>3. QED
    BY <2>1, <2>2 DEF Inv, PassesAreSound, Working
<1>13. UnprocessedIsReadable'
  <2> SUFFICES ASSUME NEW s \in processed_seq + 1 .. sequence'
               PROVE  s \in DOMAIN outgoing' /\ outgoing'[s] = log'[s] /\ outgoing'[s] \in body
    BY DEF UnprocessedIsReadable, CommitSequenced, rowVars
  <2>1. CASE s \in processed_seq + 1 .. sequence
    <3>1. s \in DOMAIN outgoing /\ outgoing[s] = log[s] /\ outgoing[s] \in body
      BY <2>1 DEF Inv, UnprocessedIsReadable
    <3>2. s \in DOMAIN outgoing' /\ outgoing'[s] = outgoing[s]
      BY <1>1, <1>5, <2>1, <3>1
    <3>3. QED
      BY <1>6, <3>1, <3>2
  <2>2. CASE s \notin processed_seq + 1 .. sequence
    <3>1. s \in sequence + 1 .. sequence + n /\ s - sequence \in 1..n
      BY <1>1, <1>4, <2>2
    <3>2. s \in DOMAIN outgoing' /\ outgoing'[s] = c[s - sequence]
      BY <1>5, <3>1
    <3>3. outgoing'[s] \in body
      BY <1>2, <3>1, <3>2 DEF Inv, NumbersAreDense
    <3>4. QED
      BY <1>6, <3>2, <3>3
  <2>3. QED
    BY <2>1, <2>2
<1>14. QED
  BY <1>7, <1>8, <1>9, <1>10, <1>11, <1>12, <1>13, FrameTypes, FrameIds,
     FrameHolder, FrameVacuum, FrameSettled, FrameDead
  DEF Inv, TypeOK, CommitSequenced, rowVars, workerVars, vacuumVars

LEMMA RollbackSequencedStep ==
    ASSUME Inv, NEW q \in Sequencers, RollbackSequenced(q)
    PROVE  Inv'
<1>1. SequencerTypes'
  BY DEF Inv, TypeOK, SequencerTypes, RollbackSequenced
<1>2. FaultTypes'
  BY FaultIsBounded DEF Inv, TypeOK, RollbackSequenced
<1>3. ClaimsAreExclusive'
  <2>1. part_lock = q
    BY DEF Inv, ClaimsAreExclusive, RollbackSequenced
  <2>2. \A r \in Sequencers : claimed'[r] = <<>>
    BY <2>1, OneClaimant DEF Inv, TypeOK, SequencerTypes, RollbackSequenced
  <2>3. QED
    BY <2>2 DEF ClaimsAreExclusive
<1>4. QED
  BY <1>1, <1>2, <1>3, FrameTypes, FrameIds, FrameNumbers, FramePasses, FrameHolder,
     FrameVacuum, FrameSequenced, FrameReadable, FrameSettled, FrameDead
  DEF Inv, TypeOK, RollbackSequenced, enqueueVars, rowVars, workerVars, vacuumVars
-----------------------------------------------------------------------------
(* Processors.                                                             *)

LEMMA AcquireLeaseStep ==
    ASSUME Inv, NEW w \in Workers, AcquireLease(w)
    PROVE  Inv'
<1>1. PICK n \in 1..MsgBatch : \E b \in OrderByLimit(Unprocessed, n) :
          /\ batch' = [batch EXCEPT ![w] = b]
          /\ pc' = [pc EXCEPT ![w] = IF b = <<>> THEN "releasing" ELSE "handling"]
  BY DEF AcquireLease
<1>2. PICK b \in OrderByLimit(Unprocessed, n) :
          /\ batch' = [batch EXCEPT ![w] = b]
          /\ pc' = [pc EXCEPT ![w] = IF b = <<>> THEN "releasing" ELSE "handling"]
  BY <1>1
<1>3. sequence \in Nat /\ processed_seq \in Nat /\ n \in Nat
  BY SettingsAssumption DEF Inv, TypeOK, SequencerTypes, RowTypes
<1>4. Unprocessed \in SUBSET Nat
  BY DEF Inv, TypeOK, SequencerTypes, Unprocessed
<1>5. \A s \in Unprocessed : s \in 1..sequence /\ s > processed_seq
  BY DEF Inv, NumbersAreDense, Unprocessed
<1>6. /\ b \in Seq(Unprocessed)
      /\ \A i, j \in DOMAIN b : i < j => b[i] < b[j]
      /\ \A m \in Unprocessed : (\A i \in DOMAIN b : b[i] # m)
             => \A i \in DOMAIN b : b[i] < m
  BY <1>3, <1>4, OrderByLimitFacts
<1>7. /\ b \in Seq(Nat) /\ DOMAIN b = 1..Len(b) /\ Len(b) \in Nat
      /\ \A i \in DOMAIN b : b[i] \in Unprocessed
  BY <1>4, <1>6, SeqFacts
<1>8. RowTypes'
  <2>1. attempts' \in 0..AttemptsMax
    BY SettingsAssumption DEF Inv, TypeOK, RowTypes, AcquireLease
  <2>2. lease_over' \in BOOLEAN /\ locked_by' \in Workers \cup {None}
    BY DEF AcquireLease
  <2>3. QED
    BY <2>1, <2>2 DEF Inv, TypeOK, RowTypes, AcquireLease
<1>9. WorkerTypes'
  BY <1>2, <1>7, SettingsAssumption
  DEF Inv, TypeOK, WorkerTypes, RowTypes, AcquireLease
<1>10. \A x \in Workers :
          /\ batch'[x] = IF x = w THEN b ELSE batch[x]
          /\ pc'[x] = IF x = w THEN (IF b = <<>> THEN "releasing" ELSE "handling")
                      ELSE pc[x]
          /\ UNCHANGED <<done, rejected, calls, sequence, processed_seq>>
  BY <1>2 DEF Inv, TypeOK, WorkerTypes, AcquireLease, sequencerVars, historyVars
<1>11. PassesAreSound'
  <2>1. done[w] = 0 /\ rejected[w] = {}
    BY DEF Inv, PassesAreSound, Working, AcquireLease
  <2>2. Working(w)' => b # <<>>
    BY <1>10 DEF Working
  <2>3. \A i \in DOMAIN b : b[i] \in 1..sequence
    BY <1>5, <1>7
  <2>4. /\ Working(w)' =>
              /\ b # <<>>
              /\ \A i \in DOMAIN b : b[i] \in 1..sequence
              /\ \A i, j \in DOMAIN b : i < j => b[i] < b[j]
              /\ done[w] <= Len(b)
              /\ rejected[w] \subseteq 1..done[w]
              /\ \A i \in 1..done[w] : i \in rejected[w] \/ calls[b[i]] = "handled"
        /\ done[w] = 0 /\ rejected[w] = {}
    BY <1>6, <1>7, <2>1, <2>2, <2>3
  <2>5. QED
    BY <1>10, <2>4 DEF Inv, PassesAreSound, Working
<1>12. HolderIsCurrent'
  <2> SUFFICES ASSUME b # <<>>
               PROVE  /\ \A i \in DOMAIN b : b[i] > processed_seq
                      /\ \A s \in processed_seq + 1 .. b[Len(b)] :
                            \E i \in DOMAIN b : b[i] = s
    BY <1>10 DEF HolderIsCurrent, Working, AcquireLease
  <2>1. \A i \in DOMAIN b : b[i] > processed_seq
    BY <1>5, <1>7
  <2>2. ASSUME NEW s \in processed_seq + 1 .. b[Len(b)]
        PROVE  \E i \in DOMAIN b : b[i] = s
    <3>1. Len(b) \in DOMAIN b
      BY <1>7
    <3>2. b[Len(b)] \in 1..sequence
      BY <1>5, <1>7, <3>1
    <3>3. s \in processed_seq + 1 .. sequence /\ s > processed_seq /\ s <= b[Len(b)]
      BY <1>3, <3>2
    <3>4. s \in Unprocessed
      BY <3>3 DEF Inv, UnprocessedIsReadable, Unprocessed
    <3>5. ~(b[Len(b)] < s)
      BY <1>3, <3>2, <3>3
    <3>6. QED
      BY <1>6, <3>1, <3>4, <3>5
  <2>3. QED
    BY <2>1, <2>2
<1>13. QED
  BY <1>8, <1>9, <1>11, <1>12, FrameTypes, FrameIds, FrameClaims, FrameNumbers,
     FrameVacuum, FrameSequenced, FrameReadable, FrameSettled, FrameDead
  DEF Inv, TypeOK, AcquireLease, enqueueVars, sequencerVars, vacuumVars, historyVars

\* A worker that ends its pass keeps the pass invariants, provided the cursor
\* has moved only under a lease that ended with the pass.
LEMMA EndPassKeeps ==
    ASSUME Inv, NEW w \in Workers, NEW to \in {"idle", "dead"}, EndPass(w, to),
           UNCHANGED <<sequence, calls>>,
           \/ locked_by' = None
           \/ UNCHANGED <<locked_by, processed_seq>>
    PROVE  WorkerTypes' /\ PassesAreSound' /\ HolderIsCurrent'
<1>1. WorkerTypes'
  BY SettingsAssumption DEF Inv, TypeOK, WorkerTypes, EndPass
<1>2. \A x \in Workers : x # w =>
         /\ pc'[x] = pc[x] /\ batch'[x] = batch[x]
         /\ done'[x] = done[x] /\ rejected'[x] = rejected[x]
  BY DEF Inv, TypeOK, WorkerTypes, EndPass
<1>3. pc'[w] = to /\ done'[w] = 0 /\ rejected'[w] = {}
  BY DEF Inv, TypeOK, WorkerTypes, EndPass
<1>4. PassesAreSound'
  BY <1>2, <1>3 DEF Inv, PassesAreSound, Working
<1>5. HolderIsCurrent'
  <2>1. CASE locked_by' = None
    BY <2>1, NoneAssumption DEF HolderIsCurrent
  <2>2. CASE UNCHANGED <<locked_by, processed_seq>>
    BY <1>2, <1>3, <2>2 DEF Inv, HolderIsCurrent, Working
  <2>3. QED
    BY <2>1, <2>2
<1>6. QED
  BY <1>1, <1>4, <1>5

LEMMA ReleaseKeeps ==
    ASSUME Inv, NEW w \in Workers, ReleaseLease(w), UNCHANGED processed_seq
    PROVE  /\ RowTypes'
           /\ \/ locked_by' = None
              \/ UNCHANGED <<locked_by, processed_seq>>
<1>1. CASE locked_by = w
  <2>1. locked_by' = None /\ lease_over' = FALSE /\ attempts' = 0
    BY <1>1 DEF ReleaseLease
  <2>2. attempts' \in 0..AttemptsMax
    BY <2>1, SettingsAssumption
  <2>3. QED
    BY <2>1, <2>2 DEF Inv, TypeOK, RowTypes
<1>2. CASE locked_by # w
  BY <1>2 DEF Inv, TypeOK, RowTypes, ReleaseLease
<1>3. QED
  BY <1>1, <1>2

LEMMA ReleaseEmptyStep ==
    ASSUME Inv, NEW w \in Workers, ReleaseEmpty(w)
    PROVE  Inv'
<1>1. UNCHANGED <<enqueueVars, sequencerVars, processed_seq, dead_letters, counter,
                  vacuumVars, historyVars>>
  BY DEF ReleaseEmpty
<1>2. RowTypes' /\ (locked_by' = None \/ UNCHANGED <<locked_by, processed_seq>>)
  BY <1>1, ReleaseKeeps DEF ReleaseEmpty
<1>3. WorkerTypes' /\ PassesAreSound' /\ HolderIsCurrent'
  BY <1>1, <1>2, EndPassKeeps DEF ReleaseEmpty, sequencerVars, historyVars
<1>4. QED
  BY <1>1, <1>2, <1>3, FrameTypes, FrameIds, FrameClaims, FrameNumbers, FrameVacuum,
     FrameSequenced, FrameReadable, FrameSettled, FrameDead
  DEF Inv, TypeOK, enqueueVars, sequencerVars, vacuumVars, historyVars

LEMMA AckReleaseStep ==
    ASSUME Inv, NEW w \in Workers, AckRelease(w)
    PROVE  Inv'
<1>1. UNCHANGED <<enqueueVars, sequencerVars, processed_seq, dead_letters, counter,
                  vacuumVars, historyVars>>
  BY DEF AckRelease
<1>2. RowTypes' /\ (locked_by' = None \/ UNCHANGED <<locked_by, processed_seq>>)
  BY <1>1, ReleaseKeeps DEF AckRelease
<1>3. WorkerTypes' /\ PassesAreSound' /\ HolderIsCurrent'
  BY <1>1, <1>2, EndPassKeeps DEF AckRelease, sequencerVars, historyVars
<1>4. QED
  BY <1>1, <1>2, <1>3, FrameTypes, FrameIds, FrameClaims, FrameNumbers, FrameVacuum,
     FrameSequenced, FrameReadable, FrameSettled, FrameDead
  DEF Inv, TypeOK, enqueueVars, sequencerVars, vacuumVars, historyVars

LEMMA AckRetryStep ==
    ASSUME Inv, NEW w \in Workers, AckRetry(w)
    PROVE  Inv'
<1>1. UNCHANGED <<enqueueVars, sequencerVars, processed_seq, attempts, dead_letters,
                  counter, vacuumVars, historyVars>>
  BY DEF AckRetry
<1>2. RowTypes' /\ locked_by' = None
  BY <1>1 DEF Inv, TypeOK, RowTypes, AckRetry
<1>3. WorkerTypes' /\ PassesAreSound' /\ HolderIsCurrent'
  BY <1>1, <1>2, EndPassKeeps DEF AckRetry, sequencerVars, historyVars
<1>4. QED
  BY <1>1, <1>2, <1>3, FrameTypes, FrameIds, FrameClaims, FrameNumbers, FrameVacuum,
     FrameSequenced, FrameReadable, FrameSettled, FrameDead
  DEF Inv, TypeOK, enqueueVars, sequencerVars, vacuumVars, historyVars

LEMMA AckLostStep ==
    ASSUME Inv, NEW w \in Workers, AckLost(w)
    PROVE  Inv'
<1>1. UNCHANGED <<enqueueVars, sequencerVars, rowVars, dead_letters, counter,
                  vacuumVars, historyVars>>
  BY DEF AckLost
<1>2. WorkerTypes' /\ PassesAreSound' /\ HolderIsCurrent'
  BY <1>1, EndPassKeeps DEF AckLost, sequencerVars, rowVars, historyVars
<1>3. QED
  BY <1>1, <1>2, FrameTypes, FrameIds, FrameClaims, FrameNumbers, FrameVacuum,
     FrameSequenced, FrameReadable, FrameSettled, FrameDead
  DEF Inv, TypeOK, enqueueVars, sequencerVars, rowVars, vacuumVars, historyVars

\* PassFails and Crash end the pass and leave the database as it was.
LEMMA PassFailsStep ==
    ASSUME Inv, NEW w \in Workers, PassFails(w) \/ Crash(w)
    PROVE  Inv'
<1>1. UNCHANGED <<enqueueVars, sequencerVars, rowVars, dead_letters, counter,
                  vacuumVars, committed, owner, log, calls>>
  BY DEF PassFails, Crash
<1>2. FaultTypes'
  BY FaultIsBounded DEF Inv, TypeOK, PassFails, Crash
<1>3. WorkerTypes' /\ PassesAreSound' /\ HolderIsCurrent'
  <2>1. EndPass(w, "idle") \/ EndPass(w, "dead")
    BY DEF PassFails, Crash
  <2>2. QED
    BY <1>1, <2>1, EndPassKeeps DEF sequencerVars, rowVars
<1>4. QED
  BY <1>1, <1>2, <1>3, FrameTypes, FrameIds, FrameClaims, FrameNumbers, FrameVacuum,
     FrameSequenced, FrameReadable, FrameSettled, FrameDead
  DEF Inv, TypeOK, enqueueVars, sequencerVars, rowVars, vacuumVars

\* The message the handler is looking at has a sequence number.
LEMMA CurrentMessage ==
    ASSUME Inv, NEW w \in Workers, pc[w] = "handling", done[w] < Len(batch[w])
    PROVE  /\ done[w] \in Nat /\ done[w] + 1 \in DOMAIN batch[w]
           /\ batch[w][done[w] + 1] \in Seqs
<1>1. batch[w] \in Seq(Nat) /\ done[w] \in Nat
  BY DEF Inv, TypeOK, WorkerTypes
<1>2. done[w] + 1 \in DOMAIN batch[w]
  BY <1>1
<1>3. batch[w][done[w] + 1] \in 1..sequence
  BY <1>2 DEF Inv, PassesAreSound, Working
<1>4. sequence \in Nat /\ sequence <= MaxMsgs
  BY DEF Inv, TypeOK, SequencerTypes, NumbersAreDense
<1>5. QED
  BY <1>1, <1>2, <1>3, <1>4, BoundsAssumption DEF Seqs

\* What the handler says of a message, it never takes back.
LEMMA CallsGrow ==
    ASSUME Inv, calls' \in [Seqs -> {"none", "tried", "handled"}],
           \A s \in Seqs : calls[s] = "handled" => calls'[s] = "handled",
           UNCHANGED <<processed_seq, dead_letters>>
    PROVE  SettledWasHandled'
<1>1. \A s \in 1..processed_seq : s <= MaxMsgs => s \in Seqs
  BY BoundsAssumption DEF Inv, TypeOK, RowTypes, Seqs
<1>2. QED
  BY <1>1 DEF Inv, SettledWasHandled

LEMMA BatchIsNumbered ==
    ASSUME Inv, NEW w \in Workers, Working(w)
    PROVE  /\ batch[w] \in Seq(Nat) /\ Len(batch[w]) \in Nat \ {0}
           /\ DOMAIN batch[w] = 1..Len(batch[w])
           /\ done[w] \in Nat /\ done[w] <= Len(batch[w])
           /\ \A i \in 1..Len(batch[w]) :
                 batch[w][i] \in Seqs /\ batch[w][i] \in Nat /\ batch[w][i] <= sequence
           /\ \A i, j \in 1..Len(batch[w]) : i < j => batch[w][i] < batch[w][j]
<1>1. batch[w] \in Seq(Nat) /\ done[w] \in Nat
  BY DEF Inv, TypeOK, WorkerTypes
<1>2. sequence \in Nat /\ sequence <= MaxMsgs
  BY DEF Inv, TypeOK, SequencerTypes, NumbersAreDense
<1>3. /\ batch[w] # <<>> /\ done[w] <= Len(batch[w])
      /\ \A i \in DOMAIN batch[w] : batch[w][i] \in 1..sequence
      /\ \A i, j \in DOMAIN batch[w] : i < j => batch[w][i] < batch[w][j]
  BY DEF Inv, PassesAreSound
<1>4. DOMAIN batch[w] = 1..Len(batch[w]) /\ Len(batch[w]) \in Nat \ {0}
  BY <1>1, <1>3
<1>5. \A i \in 1..Len(batch[w]) :
         batch[w][i] \in Seqs /\ batch[w][i] \in Nat /\ batch[w][i] <= sequence
  BY <1>2, <1>3, <1>4, BoundsAssumption DEF Seqs
<1>6. QED
  BY <1>1, <1>3, <1>4, <1>5

LEMMA HandleStep ==
    ASSUME Inv, NEW w \in Workers, HandleOk(w) \/ HandleReject(w)
    PROVE  Inv'
<1> DEFINE k == done[w] + 1
           m == batch[w][k]
<1>1. /\ pc[w] = "handling" /\ done[w] < Len(batch[w])
      /\ done' = [done EXCEPT ![w] = k]
      /\ UNCHANGED <<enqueueVars, sequencerVars, rowVars, pc, batch, result, seen,
                     dead_letters, counter, vacuumVars, committed, owner, log, faults>>
  BY DEF HandleOk, HandleReject
<1>2. done[w] \in Nat /\ k \in DOMAIN batch[w] /\ m \in Seqs
  BY <1>1, CurrentMessage
<1>3. /\ rejected' = [rejected EXCEPT ![w] = rejected'[w]]
      /\ rejected'[w] \in {rejected[w], rejected[w] \cup {k}}
      /\ k \in rejected'[w] \/ calls'[m] = "handled"
  BY <1>2 DEF HandleOk, HandleReject, Inv, TypeOK, WorkerTypes, CallTypes
<1>4. /\ calls' \in [Seqs -> {"none", "tried", "handled"}]
      /\ \A s \in Seqs : calls[s] = "handled" => calls'[s] = "handled"
  BY <1>2 DEF HandleOk, HandleReject, Inv, TypeOK, CallTypes
<1>5. WorkerTypes'
  <2>1. done' \in [Workers -> Nat]
    BY <1>1, <1>2 DEF Inv, TypeOK, WorkerTypes
  <2>2. rejected' \in [Workers -> SUBSET Nat]
    <3>1. rejected \in [Workers -> SUBSET Nat] /\ rejected[w] \subseteq Nat /\ k \in Nat
      BY <1>2 DEF Inv, TypeOK, WorkerTypes
    <3>2. rejected'[w] \in SUBSET Nat
      BY <1>3, <3>1
    <3>3. QED
      BY <1>3, <3>1, <3>2
  <2>3. QED
    BY <1>1, <2>1, <2>2 DEF Inv, TypeOK, WorkerTypes
<1>6. CallTypes'
  BY <1>1, <1>4 DEF Inv, TypeOK, CallTypes
<1>7. PassesAreSound'
  <2> SUFFICES ASSUME NEW x \in Workers
               PROVE  /\ Working(x) =>
                            /\ batch[x] # <<>>
                            /\ \A i \in DOMAIN batch[x] : batch[x][i] \in 1..sequence
                            /\ \A i, j \in DOMAIN batch[x] : i < j => batch[x][i] < batch[x][j]
                            /\ done'[x] <= Len(batch[x])
                            /\ rejected'[x] \subseteq 1..done'[x]
                            /\ \A i \in 1..done'[x] :
                                  i \in rejected'[x] \/ calls'[batch[x][i]] = "handled"
                      /\ ~Working(x) => done'[x] = 0 /\ rejected'[x] = {}
    BY <1>1 DEF PassesAreSound, Working, sequencerVars
  <2>1. CASE ~Working(x)
    <3>1. x # w
      BY <1>1, <2>1 DEF Working
    <3>2. done'[x] = done[x] /\ rejected'[x] = rejected[x]
      BY <1>1, <1>3, <3>1 DEF Inv, TypeOK, WorkerTypes
    <3>3. QED
      BY <2>1, <3>2 DEF Inv, PassesAreSound
  <2>2. CASE Working(x) /\ x # w
    <3>1. done'[x] = done[x] /\ rejected'[x] = rejected[x]
      BY <1>1, <1>3, <2>2 DEF Inv, TypeOK, WorkerTypes
    <3>2. \A i \in 1..done[x] : batch[x][i] \in Seqs
      BY <2>2, BatchIsNumbered
    <3>3. QED
      BY <1>4, <2>2, <3>1, <3>2 DEF Inv, PassesAreSound
  <2>3. CASE x = w
    <3>1. Working(w)
      BY <1>1 DEF Working
    <3>2. done'[w] = k
      BY <1>1 DEF Inv, TypeOK, WorkerTypes
    <3>3. \A i \in 1..done[w] : batch[w][i] \in Seqs
      BY <3>1, BatchIsNumbered
    <3>4. \A i \in 1..k : i = k \/ i \in 1..done[w]
      BY <1>2
    <3>5. rejected[w] \subseteq 1..done[w] /\
          \A i \in 1..done[w] : i \in rejected[w] \/ calls[batch[w][i]] = "handled"
      BY <3>1 DEF Inv, PassesAreSound
    <3>6. \A i \in 1..k : i \in rejected'[w] \/ calls'[batch[w][i]] = "handled"
      BY <1>3, <1>4, <3>3, <3>4, <3>5
    <3>7. rejected'[w] \subseteq 1..k /\ k <= Len(batch[w])
      <4>1. 1..done[w] \subseteq 1..k /\ k \in 1..k
        BY <1>2
      <4>2. batch[w] \in Seq(Nat)
        BY <3>1, BatchIsNumbered
      <4>3. k <= Len(batch[w])
        BY <1>1, <1>2, <4>2
      <4>4. QED
        BY <1>3, <3>5, <4>1, <4>3
    <3>8. QED
      BY <2>3, <3>1, <3>2, <3>6, <3>7 DEF Inv, PassesAreSound
  <2>4. QED
    BY <2>1, <2>2, <2>3
<1>8. SettledWasHandled'
  BY <1>1, <1>4, CallsGrow DEF rowVars
<1>9. QED
  BY <1>1, <1>5, <1>6, <1>7, <1>8, FrameTypes, FrameIds, FrameClaims, FrameNumbers,
     FrameHolder, FrameVacuum, FrameSequenced, FrameReadable, FrameDead
  DEF Inv, TypeOK, enqueueVars, sequencerVars, rowVars, vacuumVars

\* The handler returns, whatever it says.
LEMMA ReturnStep ==
    ASSUME Inv, NEW w \in Workers,
           ReturnSuccess(w) \/ ReturnRetry(w) \/ ReturnReject(w)
    PROVE  Inv'
<1>1. /\ pc[w] = "handling"
      /\ pc' = [pc EXCEPT ![w] = "acking"]
      /\ \E r \in {"Success", "Retry", "Reject"} : result' = [result EXCEPT ![w] = r]
      /\ UNCHANGED <<enqueueVars, sequencerVars, rowVars, batch, done, rejected,
                     seen, dead_letters, counter, vacuumVars, committed, owner, log>>
  BY DEF ReturnSuccess, ReturnRetry, ReturnReject, Return
<1>2. FaultTypes'
  BY FaultIsBounded, FrameTypes
  DEF Inv, TypeOK, ReturnSuccess, ReturnRetry, ReturnReject
<1>3. /\ calls' \in [Seqs -> {"none", "tried", "handled"}]
      /\ \A s \in Seqs : calls[s] = "handled" => calls'[s] = "handled"
  <2>1. CASE UNCHANGED calls
    BY <2>1 DEF Inv, TypeOK, CallTypes
  <2>2. CASE ReturnRetry(w) /\ done[w] < Len(batch[w])
    <3>1. batch[w][done[w] + 1] \in Seqs
      BY <1>1, <2>2, CurrentMessage
    <3>2. QED
      BY <2>2, <3>1 DEF Inv, TypeOK, CallTypes, ReturnRetry
  <2>3. QED
    BY <2>1, <2>2 DEF ReturnSuccess, ReturnRetry, ReturnReject
<1>4. WorkerTypes'
  BY <1>1 DEF Inv, TypeOK, WorkerTypes
<1>5. CallTypes'
  BY <1>1, <1>3 DEF Inv, TypeOK, CallTypes
<1>6. \A x \in Workers : Working(x)' <=> Working(x)
  BY <1>1 DEF Inv, TypeOK, WorkerTypes, Working
<1>7. PassesAreSound'
  <2>1. \A x \in Workers : Working(x) => \A i \in 1..done[x] : batch[x][i] \in Seqs
    BY BatchIsNumbered
  <2>2. UNCHANGED <<batch, done, rejected, sequence>>
    BY <1>1 DEF sequencerVars
  <2>3. QED
    BY <1>3, <1>6, <2>1, <2>2 DEF Inv, PassesAreSound
<1>8. HolderIsCurrent'
  BY <1>1, <1>6 DEF Inv, HolderIsCurrent, rowVars
<1>9. SettledWasHandled'
  BY <1>1, <1>3, CallsGrow DEF rowVars
<1>10. QED
  BY <1>1, <1>2, <1>4, <1>5, <1>7, <1>8, <1>9, FrameTypes, FrameIds, FrameClaims,
     FrameNumbers, FrameVacuum, FrameSequenced, FrameReadable, FrameDead
  DEF Inv, TypeOK, enqueueVars, sequencerVars, rowVars, vacuumVars

\* The acknowledgement that moves the cursor: the heart of the argument.  The
\* worker still holds the lease it read its batch under, so the batch begins
\* right after the cursor and has no holes.
LEMMA AckAdvanceFacts ==
    ASSUME Inv, NEW w \in Workers, AckAdvance(w)
    PROVE  /\ processed_seq' \in Nat /\ processed_seq' > processed_seq
           /\ processed_seq' <= sequence
           /\ \A s \in processed_seq + 1 .. processed_seq' :
                 s \in Seqs /\ (calls[s] = "handled" \/ s \in RejectedSeqs(w)
                                  \/ s \in RejectedTail(w))
           /\ \A s \in RejectedSeqs(w) \cup RejectedTail(w) :
                 s \in processed_seq + 1 .. processed_seq'
           /\ RejectedSeqs(w) \cap RejectedTail(w) = {}
<1> DEFINE b == batch[w]
           last == Len(b)
<1>1. Working(w) /\ locked_by = w /\ processed_seq' = AdvanceSeq(w) /\ AdvanceSeq(w) > 0
  BY DEF AckAdvance, Working, HoldsLease
<1>2. /\ b \in Seq(Nat) /\ last \in Nat \ {0} /\ DOMAIN b = 1..last
      /\ done[w] \in Nat /\ done[w] <= last
      /\ \A i \in 1..last : b[i] \in Seqs /\ b[i] \in Nat /\ b[i] <= sequence
      /\ \A i, j \in 1..last : i < j => b[i] < b[j]
  BY <1>1, BatchIsNumbered
<1>3. /\ \A i \in 1..last : b[i] > processed_seq
      /\ \A s \in processed_seq + 1 .. b[last] : \E i \in 1..last : b[i] = s
  BY <1>1, <1>2 DEF Inv, HolderIsCurrent
<1>4. /\ rejected[w] \subseteq 1..done[w]
      /\ \A i \in 1..done[w] : i \in rejected[w] \/ calls[b[i]] = "handled"
  BY <1>1 DEF Inv, PassesAreSound
<1>5. processed_seq \in Nat /\ sequence \in Nat
  BY DEF Inv, TypeOK, RowTypes, SequencerTypes
\* The cursor moves to place z of the batch.
<1>6. \E z \in 1..last :
         /\ AdvanceSeq(w) = b[z] /\ done[w] <= z
         /\ \A i \in 1..z : i \in 1..done[w] \/ b[i] \in RejectedTail(w)
         /\ \A s \in RejectedTail(w) : \E i \in 1..z : i > done[w] /\ b[i] = s
  <2>1. CASE result[w] = "Reject"
    <3>1. RejectedTail(w) = {b[i] : i \in done[w] + 1 .. last} /\ AdvanceSeq(w) = b[last]
      BY <2>1 DEF RejectedTail, AdvanceSeq
    <3>2. \A i \in 1..last : i \in 1..done[w] \/ i \in done[w] + 1 .. last
      BY <1>2
    <3>3. \A i \in done[w] + 1 .. last : i \in 1..last /\ i > done[w]
      BY <1>2
    <3>4. last \in 1..last
      BY <1>2
    <3>5. QED
      BY <1>2, <3>1, <3>2, <3>3, <3>4
  <2>2. CASE result[w] # "Reject"
    <3>1. RejectedTail(w) = {} /\ AdvanceSeq(w) = b[done[w]] /\ done[w] > 0
      BY <1>1, <2>2 DEF RejectedTail, AdvanceSeq, ProcessedAdvanceSeq
    <3>2. done[w] \in 1..last
      BY <1>2, <3>1
    <3>3. QED
      BY <1>2, <3>1, <3>2
  <2>3. QED
    BY <2>1, <2>2
<1>7. PICK z \in 1..last :
         /\ processed_seq' = b[z] /\ done[w] <= z
         /\ \A i \in 1..z : i \in 1..done[w] \/ b[i] \in RejectedTail(w)
         /\ \A s \in RejectedTail(w) : \E i \in 1..z : i > done[w] /\ b[i] = s
  BY <1>1, <1>6
<1>8. \A i \in 1..last : b[i] <= b[z] <=> i <= z
  <2> SUFFICES ASSUME NEW i \in 1..last PROVE b[i] <= b[z] <=> i <= z
    OBVIOUS
  <2>1. i \in Nat /\ z \in Nat /\ b[i] \in Nat /\ b[z] \in Nat
    BY <1>2
  <2>2. (i < z => b[i] < b[z]) /\ (z < i => b[z] < b[i])
    BY <1>2
  <2>3. i = z => b[i] = b[z]
    OBVIOUS
  <2>4. QED
    BY <2>1, <2>2, <2>3
<1>9. processed_seq' \in Nat /\ processed_seq' > processed_seq /\ processed_seq' <= sequence
  BY <1>2, <1>3, <1>7
<1>10. ASSUME NEW s \in processed_seq + 1 .. processed_seq'
       PROVE  s \in Seqs /\ (calls[s] = "handled" \/ s \in RejectedSeqs(w)
                               \/ s \in RejectedTail(w))
  <2>1. last \in 1..last /\ b[last] \in Nat /\ b[z] \in Nat /\ b[z] <= b[last]
    <3>1. last \in 1..last /\ z <= last /\ b[last] \in Nat /\ b[z] \in Nat
      BY <1>2
    <3>2. z < last => b[z] < b[last]
      BY <1>2, <3>1
    <3>3. z = last \/ z < last
      BY <1>2
    <3>4. z = last => b[z] = b[last]
      OBVIOUS
    <3>5. QED
      BY <3>1, <3>2, <3>3, <3>4
  <2>2. s \in processed_seq + 1 .. b[last] /\ s <= b[z]
    BY <1>5, <1>7, <2>1
  <2>3. PICK i \in 1..last : b[i] = s
    BY <1>3, <2>2
  <2>4. i \in 1..z
    BY <1>2, <1>8, <2>2, <2>3
  <2>5. i \in 1..done[w] => calls[s] = "handled" \/ s \in RejectedSeqs(w)
    BY <1>4, <2>3 DEF RejectedSeqs
  <2>6. QED
    BY <1>2, <1>7, <2>3, <2>4, <2>5
<1>11. \A i \in 1..z : b[i] \in processed_seq + 1 .. processed_seq'
  <2> SUFFICES ASSUME NEW i \in 1..z PROVE b[i] \in processed_seq + 1 .. processed_seq'
    OBVIOUS
  <2>1. i \in 1..last /\ i <= z
    BY <1>2
  <2>2. b[i] \in Nat /\ b[i] > processed_seq /\ b[i] <= b[z] /\ b[z] \in Nat
    BY <1>2, <1>3, <1>8, <2>1
  <2>3. QED
    BY <1>5, <1>7, <2>2
<1>12. \A i \in rejected[w] : i \in 1..z /\ i <= done[w]
  BY <1>2, <1>4, <1>7
<1>13. \A s \in RejectedSeqs(w) \cup RejectedTail(w) : s \in processed_seq + 1 .. processed_seq'
  BY <1>7, <1>11, <1>12 DEF RejectedSeqs
<1>14. RejectedSeqs(w) \cap RejectedTail(w) = {}
  <2> SUFFICES ASSUME NEW i \in rejected[w], b[i] \in RejectedTail(w) PROVE FALSE
    BY DEF RejectedSeqs
  <2>1. PICK j \in 1..z : j > done[w] /\ b[j] = b[i]
    BY <1>7
  <2>0. i \in 1..z /\ i <= done[w]
    BY <1>12
  <2>2. i \in 1..last /\ j \in 1..last /\ i < j
    BY <1>2, <2>0, <2>1
  <2>3. b[i] < b[j] /\ b[i] \in Nat
    BY <1>2, <2>2
  <2>4. QED
    BY <2>1, <2>3
<1>15. QED
  BY <1>9, <1>10, <1>13, <1>14

LEMMA AckAdvanceStep ==
    ASSUME Inv, NEW w \in Workers, AckAdvance(w)
    PROVE  Inv'
<1>1. /\ UNCHANGED <<enqueueVars, sequencerVars, vacuumVars, historyVars>>
      /\ attempts' = 0 /\ locked_by' = None /\ lease_over' = FALSE
      /\ counter' = counter + 1
  BY DEF AckAdvance
<1>2. /\ processed_seq' \in Nat /\ processed_seq' > processed_seq
      /\ processed_seq' <= sequence
      /\ processed_seq \in Nat /\ sequence \in Nat
  BY AckAdvanceFacts DEF Inv, TypeOK, RowTypes, SequencerTypes
<1>3. /\ dead_letters \in [Seqs -> Nat]
      /\ dead_letters' = [s \in Seqs |->
            dead_letters[s] + One(s \in RejectedSeqs(w)) + One(s \in RejectedTail(w))]
  BY DEF Inv, TypeOK, CallTypes, AckAdvance, InsertDeadLetters
<1>4. \A s \in Seqs :
         /\ dead_letters[s] \in Nat /\ s \in Nat
         /\ s \in RejectedSeqs(w) \cup RejectedTail(w) => dead_letters'[s] = dead_letters[s] + 1
         /\ s \notin RejectedSeqs(w) \cup RejectedTail(w) => dead_letters'[s] = dead_letters[s]
  BY <1>3, AckAdvanceFacts, BoundsAssumption DEF One, Seqs
<1>5. RowTypes'
  <2>1. attempts' \in 0..AttemptsMax
    BY <1>1, SettingsAssumption
  <2>2. QED
    BY <1>1, <1>2, <2>1 DEF RowTypes
<1>6. VacuumTypes'
  BY <1>1 DEF Inv, TypeOK, VacuumTypes, vacuumVars
<1>7. CallTypes'
  <2>1. dead_letters' \in [Seqs -> Nat]
    BY <1>3, <1>4
  <2>2. QED
    BY <1>1, <2>1 DEF Inv, TypeOK, CallTypes, historyVars
<1>8. WorkerTypes' /\ PassesAreSound' /\ HolderIsCurrent'
  BY <1>1, EndPassKeeps DEF AckAdvance, sequencerVars, historyVars
<1>9. NumbersAreDense'
  BY <1>1, <1>2 DEF Inv, NumbersAreDense, enqueueVars, sequencerVars, historyVars
<1>10. VacuumIsBehind'
  BY <1>1, <1>2 DEF Inv, TypeOK, VacuumTypes, VacuumIsBehind, vacuumVars
<1>11. UnprocessedIsReadable'
  <2>1. \A s \in processed_seq' + 1 .. sequence : s \in processed_seq + 1 .. sequence
    BY <1>2, ShorterInterval
  <2>2. QED
    BY <1>1, <2>1 DEF Inv, UnprocessedIsReadable, enqueueVars, sequencerVars, historyVars
<1>12. SettledWasHandled'
  <2> SUFFICES ASSUME NEW s \in 1..processed_seq'
               PROVE  s <= MaxMsgs /\ (calls[s] = "handled" \/ dead_letters'[s] > 0)
    BY <1>1 DEF SettledWasHandled, historyVars
  <2>1. CASE s \in 1..processed_seq
    <3>1. s <= MaxMsgs /\ (calls[s] = "handled" \/ dead_letters[s] > 0)
      BY <2>1 DEF Inv, SettledWasHandled
    <3>2. s \in Seqs
      BY <1>2, <2>1, <3>1, BoundsAssumption DEF Seqs
    <3>3. dead_letters[s] > 0 => dead_letters'[s] > 0
      BY <1>4, <3>2
    <3>4. QED
      BY <3>1, <3>3
  <2>2. CASE s \notin 1..processed_seq
    <3>1. s \in processed_seq + 1 .. processed_seq'
      BY <1>2, <2>2
    <3>2. s \in Seqs /\ (calls[s] = "handled" \/ s \in RejectedSeqs(w) \cup RejectedTail(w))
      BY <3>1, AckAdvanceFacts
    <3>3. s \in RejectedSeqs(w) \cup RejectedTail(w) => dead_letters'[s] > 0
      BY <1>4, <3>2
    <3>4. s <= MaxMsgs
      BY <3>2, BoundsAssumption DEF Seqs
    <3>5. QED
      BY <3>2, <3>3, <3>4
  <2>3. QED
    BY <2>1, <2>2
<1>13. DeadLetteredOnce'
  <2> SUFFICES ASSUME NEW s \in Seqs PROVE dead_letters'[s] <= One(s <= processed_seq')
    BY DEF DeadLetteredOnce
  <2>1. dead_letters[s] <= One(s <= processed_seq)
    BY DEF Inv, DeadLetteredOnce
  <2>2. CASE s \in RejectedSeqs(w) \cup RejectedTail(w)
    <3>1. s \in processed_seq + 1 .. processed_seq'
      BY <2>2, AckAdvanceFacts
    <3>2. ~(s <= processed_seq) /\ s <= processed_seq'
      BY <1>2, <3>1
    <3>3. QED
      BY <1>4, <2>1, <2>2, <3>2 DEF One
  <2>3. CASE s \notin RejectedSeqs(w) \cup RejectedTail(w)
    <3>1. s <= processed_seq => s <= processed_seq'
      BY <1>2, <1>4
    <3>2. QED
      BY <1>4, <2>1, <2>3, <3>1 DEF One
  <2>4. QED
    BY <2>2, <2>3
<1>14. QED
  BY <1>1, <1>5, <1>6, <1>7, <1>8, <1>9, <1>10, <1>11, <1>12, <1>13, FrameTypes,
     FrameIds, FrameClaims, FrameSequenced
  DEF Inv, TypeOK, enqueueVars, sequencerVars, historyVars

LEMMA LeaseExpiresStep ==
    ASSUME Inv, LeaseExpires
    PROVE  Inv'
<1>1. UNCHANGED <<enqueueVars, sequencerVars, processed_seq, attempts, locked_by,
                  workerVars, dead_letters, counter, vacuumVars, committed,
                  owner, log, calls>>
  BY DEF LeaseExpires
<1>2. RowTypes'
  BY <1>1 DEF Inv, TypeOK, RowTypes, LeaseExpires
<1>3. FaultTypes'
  BY FaultIsBounded, FrameTypes DEF Inv, TypeOK, LeaseExpires
<1>4. QED
  BY <1>1, <1>2, <1>3, FrameTypes, FrameIds, FrameClaims, FrameNumbers, FramePasses,
     FrameHolder, FrameVacuum, FrameSequenced, FrameReadable, FrameSettled, FrameDead
  DEF Inv, TypeOK, enqueueVars, sequencerVars, workerVars, vacuumVars
-----------------------------------------------------------------------------
(* Vacuum.                                                                 *)

\* The steps that delete nothing.
LEMMA VacuumMovesStep ==
    ASSUME Inv, NEW v \in Vacuums,
           VacuumSnapshot(v) \/ VacuumRead(v) \/ VacuumDecrement(v) \/ VacuumAbort(v)
    PROVE  Inv'
<1>1. UNCHANGED <<enqueueVars, sequencerVars, rowVars, workerVars, dead_letters,
                  committed, owner, log, calls>>
  BY DEF VacuumSnapshot, VacuumRead, VacuumDecrement, VacuumAbort, historyVars
<1>2. FaultTypes'
  BY FaultIsBounded, FrameTypes
  DEF Inv, TypeOK, VacuumSnapshot, VacuumRead, VacuumDecrement, VacuumAbort, historyVars
<1>3. processed_seq \in Nat
  BY DEF Inv, TypeOK, RowTypes
<1>4. VacuumTypes'
  BY <1>3 DEF Inv, TypeOK, VacuumTypes, VacuumSnapshot, VacuumRead, VacuumDecrement,
              VacuumAbort, EndSweep
<1>5. VacuumIsBehind'
  <2>1. \A x \in Vacuums : vcursor'[x] \in {vcursor[x], processed_seq, 0}
    BY DEF Inv, TypeOK, VacuumTypes, VacuumSnapshot, VacuumRead, VacuumDecrement,
           VacuumAbort, EndSweep
  <2>2. QED
    BY <1>1, <1>3, <2>1 DEF Inv, VacuumIsBehind, rowVars
<1>6. QED
  BY <1>1, <1>2, <1>4, <1>5, FrameTypes, FrameIds, FrameClaims, FrameNumbers,
     FramePasses, FrameHolder, FrameSequenced, FrameReadable, FrameSettled, FrameDead
  DEF Inv, TypeOK, enqueueVars, sequencerVars, rowVars, workerVars

LEMMA VacuumDeleteStep ==
    ASSUME Inv, NEW v \in Vacuums, VacuumDelete(v)
    PROVE  Inv'
<1>1. PICK q \in OrderByLimit(Collectable(v), VacBatch) :
         /\ outgoing' = [s \in DOMAIN outgoing \ Elems(q) |-> outgoing[s]]
         /\ body' = body \ {outgoing[s] : s \in Elems(q)}
         /\ vpc' = [vpc EXCEPT ![v] = IF Len(q) < VacBatch THEN "drained" ELSE @]
  BY DEF VacuumDelete
<1>2. UNCHANGED <<next_id, open, incoming, part_lock, claimed, sequence, rowVars,
                  workerVars, dead_letters, counter, vsnap, vcursor, historyVars>>
  BY DEF VacuumDelete
<1>3. Collectable(v) \in SUBSET Nat
  BY DEF Inv, TypeOK, SequencerTypes, Collectable
<1>4. q \in Seq(Collectable(v))
  BY <1>3, OrderByLimitFacts, SettingsAssumption
<1>5. Elems(q) \subseteq Collectable(v)
  BY <1>3, <1>4, SeqFacts DEF Elems
\* What goes was acknowledged, and its messages are in the log.
<1>6. \A s \in Elems(q) :
         /\ s \in DOMAIN outgoing /\ s \in 1..sequence /\ s <= processed_seq
         /\ outgoing[s] = log[s]
  <2>1. \A s \in Collectable(v) : s \in DOMAIN outgoing /\ s <= vcursor[v]
    BY DEF Collectable
  <2>2. vcursor[v] <= processed_seq /\ vcursor[v] \in Nat /\ processed_seq \in Nat
    BY DEF Inv, TypeOK, VacuumTypes, RowTypes, VacuumIsBehind
  <2>3. \A s \in DOMAIN outgoing : s \in 1..sequence /\ outgoing[s] = log[s] /\ s \in Nat
    BY DEF Inv, TypeOK, SequencerTypes, NumbersAreDense
  <2>4. QED
    BY <1>5, <2>1, <2>2, <2>3
<1>7. DOMAIN log = 1..sequence
  BY DEF Inv, TypeOK, HistoryTypes, NumbersAreDense
<1>8. /\ DOMAIN outgoing' = DOMAIN outgoing \ Elems(q)
      /\ \A s \in DOMAIN outgoing' : outgoing'[s] = outgoing[s]
  BY <1>1
<1>9. SequencerTypes'
  <2>1. outgoing' \in [DOMAIN outgoing' -> Ids] /\ DOMAIN outgoing' \subseteq Nat
    BY <1>1, <1>8 DEF Inv, TypeOK, SequencerTypes
  <2>2. QED
    BY <1>2, <2>1 DEF Inv, TypeOK, SequencerTypes
<1>10. EnqueueTypes' /\ VacuumTypes'
  BY <1>1, <1>2 DEF Inv, TypeOK, EnqueueTypes, VacuumTypes
<1>11. NumbersAreDense'
  <2>1. incoming' \subseteq body'
    <3>1. \A s \in Elems(q) : outgoing[s] \in Elems(log)
      BY <1>6, <1>7 DEF Elems
    <3>2. QED
      BY <1>1, <1>2, <3>1 DEF Inv, NumbersAreDense, SequencedOnce
  <2>2. QED
    BY <1>2, <1>8, <2>1 DEF Inv, NumbersAreDense, rowVars, historyVars
<1>12. UnprocessedIsReadable'
  <2> SUFFICES ASSUME NEW s \in processed_seq + 1 .. sequence
               PROVE  s \in DOMAIN outgoing' /\ outgoing'[s] = log[s] /\ outgoing'[s] \in body'
    BY <1>2 DEF UnprocessedIsReadable, rowVars, historyVars
  <2>1. s \in DOMAIN outgoing /\ outgoing[s] = log[s] /\ outgoing[s] \in body
    BY DEF Inv, UnprocessedIsReadable
  <2>2. processed_seq \in Nat /\ sequence \in Nat
    BY DEF Inv, TypeOK, RowTypes, SequencerTypes
  <2>3. s \in 1..sequence /\ ~(s <= processed_seq)
    BY <2>2
  <2>4. s \notin Elems(q)
    BY <1>6, <2>3
  <2>5. \A t \in Elems(q) : outgoing[t] # outgoing[s]
    BY <1>6, <1>7, <2>1, <2>3, <2>4 DEF Inv, SequencedOnce
  <2>6. QED
    BY <1>1, <1>8, <2>1, <2>4, <2>5
<1>13. QED
  BY <1>2, <1>9, <1>10, <1>11, <1>12, FrameTypes, FrameIds, FrameClaims, FramePasses,
     FrameHolder, FrameVacuum, FrameSequenced, FrameSettled, FrameDead
  DEF Inv, TypeOK, rowVars, workerVars, historyVars
-----------------------------------------------------------------------------
(* The invariant and its consequences.                                     *)

LEMMA InitInv == Init => Inv
<1> SUFFICES ASSUME Init PROVE Inv
  OBVIOUS
<1>1. EnqueueTypes /\ SequencerTypes
  BY BoundsAssumption DEF Init, EnqueueTypes, SequencerTypes
<1>2. RowTypes
  <2>1. attempts \in 0..AttemptsMax
    BY SettingsAssumption DEF Init
  <2>2. QED
    BY <2>1 DEF Init, RowTypes
<1>3. WorkerTypes
  BY SettingsAssumption DEF Init, WorkerTypes
<1>4. VacuumTypes /\ HistoryTypes /\ CallTypes /\ FaultTypes
  BY BoundsAssumption DEF Init, VacuumTypes, HistoryTypes, CallTypes, FaultTypes
<1>5. IdsAreFresh /\ ClaimsAreExclusive
  BY DEF Init, IdsAreFresh, ClaimsAreExclusive
<1>6. NumbersAreDense
  BY BoundsAssumption DEF Init, NumbersAreDense
<1>7. PassesAreSound /\ HolderIsCurrent /\ VacuumIsBehind
  BY DEF Init, PassesAreSound, HolderIsCurrent, VacuumIsBehind, Working
<1>8. SequencedOnce /\ UnprocessedIsReadable
  BY DEF Init, SequencedOnce, UnprocessedIsReadable, Elems
<1>9. SettledWasHandled /\ DeadLetteredOnce
  BY BoundsAssumption DEF Init, SettledWasHandled, DeadLetteredOnce, One, Seqs
<1>10. QED
  BY <1>1, <1>2, <1>3, <1>4, <1>5, <1>6, <1>7, <1>8, <1>9 DEF Inv, TypeOK

LEMMA NextInv == Inv /\ [Next]_vars => Inv'
<1> SUFFICES ASSUME Inv, [Next]_vars PROVE Inv'
  OBVIOUS
<1>1. CASE \E p \in Producers : ProducerStep(p)
  BY <1>1, EnqueueStep, CommitEnqueueStep, RollbackEnqueueStep DEF ProducerStep
<1>2. CASE \E q \in Sequencers : SequencerStep(q)
  BY <1>2, ClaimIncomingStep, CommitSequencedStep, RollbackSequencedStep
  DEF SequencerStep
<1>3. CASE \E w \in Workers : WorkerStep(w)
  BY <1>3, AcquireLeaseStep, ReleaseEmptyStep, HandleStep, ReturnStep, AckAdvanceStep,
     AckReleaseStep, AckRetryStep, AckLostStep, PassFailsStep
  DEF WorkerStep, HandlerStep, AckStep
<1>4. CASE LeaseExpires
  BY <1>4, LeaseExpiresStep
<1>5. CASE \E v \in Vacuums : VacuumStep(v)
  BY <1>5, VacuumMovesStep, VacuumDeleteStep DEF VacuumStep
<1>6. CASE UNCHANGED vars
  BY <1>6, FrameTypes, FrameIds, FrameClaims, FrameNumbers, FramePasses, FrameHolder,
     FrameVacuum, FrameSequenced, FrameReadable, FrameSettled, FrameDead
  DEF Inv, TypeOK, vars, enqueueVars, sequencerVars, rowVars, workerVars, vacuumVars,
      historyVars
<1>7. QED
  BY <1>1, <1>2, <1>3, <1>4, <1>5, <1>6 DEF Next

\* Inv is an inductive invariant of the pipeline.
THEOREM Invariance == Spec => []Inv
<1>1. Init => Inv
  BY InitInv
<1>2. Inv /\ [Next]_vars => Inv'
  BY NextInv
<1>3. QED
  BY <1>1, <1>2, PTL DEF Spec

\* Every column and every local keeps its type, `attempts` its width.
THEOREM TypeCorrect == Spec => []TypeOK
<1>1. Inv => TypeOK
  BY DEF Inv
<1>2. QED
  BY <1>1, Invariance, PTL

\* However sequencers overlap, fail or die, a committed message is waiting or
\* has exactly one sequence number, and a rolled-back one has none.
THEOREM SequencesExactlyOnce == Spec => []SequencedOnce
<1>1. Inv => SequencedOnce
  BY DEF Inv
<1>2. QED
  BY <1>1, Invariance, PTL

\* No unacknowledged row or body is ever missing, whatever the vacuums do.
THEOREM NeverVacuumsUnprocessed == Spec => []UnprocessedIsReadable
<1>1. Inv => UnprocessedIsReadable
  BY DEF Inv
<1>2. QED
  BY <1>1, Invariance, PTL

\* The cursor passes only messages that were handled or dead-lettered.
THEOREM NothingIsSkipped == Spec => []SettledWasHandled
<1>1. Inv => SettledWasHandled
  BY DEF Inv
<1>2. QED
  BY <1>1, Invariance, PTL

\* No message has two dead-letter rows, none before the cursor passed it.
THEOREM DeadLettersOnce == Spec => []DeadLetteredOnce
<1>1. Inv => DeadLetteredOnce
  BY DEF Inv
<1>2. QED
  BY <1>1, Invariance, PTL

\* A processor that may still acknowledge works on the current batch.
THEOREM LeaseFences == Spec => []HolderIsCurrent
<1>1. Inv => HolderIsCurrent
  BY DEF Inv
<1>2. QED
  BY <1>1, Invariance, PTL

\* Only the acknowledgement of a lease holder moves the cursor.
LEMMA CursorMoves ==
    ASSUME [Next]_vars, ~(\E w \in Workers : AckAdvance(w))
    PROVE  UNCHANGED processed_seq
<1>1. CASE \E p \in Producers : ProducerStep(p)
  BY <1>1 DEF ProducerStep, Enqueue, CommitEnqueue, RollbackEnqueue, rowVars
<1>2. CASE \E q \in Sequencers : SequencerStep(q)
  BY <1>2 DEF SequencerStep, ClaimIncoming, CommitSequenced, RollbackSequenced, rowVars
<1>3. CASE \E w \in Workers : WorkerStep(w)
  <2>1. PICK w \in Workers : WorkerStep(w)
    BY <1>3
  <2>2. CASE AcquireLease(w) \/ ReleaseEmpty(w) \/ PassFails(w) \/ Crash(w)
    BY <2>2 DEF AcquireLease, ReleaseEmpty, PassFails, Crash, rowVars
  <2>3. CASE HandlerStep(w)
    BY <2>3 DEF HandlerStep, HandleOk, HandleReject, ReturnSuccess, ReturnRetry,
                ReturnReject, Return, rowVars
  <2>4. CASE AckRelease(w) \/ AckRetry(w) \/ AckLost(w)
    BY <2>4 DEF AckRelease, AckRetry, AckLost, rowVars
  <2>5. QED
    BY <2>1, <2>2, <2>3, <2>4 DEF WorkerStep, AckStep
<1>4. CASE LeaseExpires
  BY <1>4 DEF LeaseExpires
<1>5. CASE \E v \in Vacuums : VacuumStep(v)
  BY <1>5 DEF VacuumStep, VacuumSnapshot, VacuumRead, VacuumDelete, VacuumDecrement,
              VacuumAbort, rowVars
<1>6. CASE UNCHANGED vars
  BY <1>6 DEF vars, rowVars
<1>7. QED
  BY <1>1, <1>2, <1>3, <1>4, <1>5, <1>6 DEF Next

\* The cursor never moves back, although a processor that lost its lease may
\* still hold the acknowledgement of older messages.
THEOREM CursorIsMonotonic == Spec => CursorNeverMovesBack
<1>1. Inv /\ [Next]_vars => [processed_seq' >= processed_seq]_vars
  <2> SUFFICES ASSUME Inv, [Next]_vars PROVE processed_seq' >= processed_seq
    OBVIOUS
  <2>1. processed_seq \in Nat
    BY DEF Inv, TypeOK, RowTypes
  <2>2. CASE \E w \in Workers : AckAdvance(w)
    BY <2>1, <2>2, AckAdvanceFacts
  <2>3. CASE ~(\E w \in Workers : AckAdvance(w))
    BY <2>1, <2>3, CursorMoves
  <2>4. QED
    BY <2>2, <2>3
<1>2. QED
  BY <1>1, Invariance, PTL DEF Spec, CursorNeverMovesBack
-----------------------------------------------------------------------------
(* The order of one producer's messages.                                   *)

LEMMA FrameOrder ==
    ProducersAreOrdered /\ UNCHANGED <<open, incoming, claimed, committed, owner, log>>
        => ProducersAreOrdered'
  BY DEF ProducersAreOrdered, ProducerOrder, Elems

\* Whatever is visible, claimed or numbered was committed, under an id that was
\* given before.
LEMMA KnownIds ==
    ASSUME Inv
    PROVE  /\ committed \subseteq Ids /\ Ids \subseteq Nat /\ next_id \in Nat
           /\ \A m \in committed : m < next_id
           /\ incoming \subseteq committed
           /\ \A i \in DOMAIN log : log[i] \in committed
           /\ \A q \in Sequencers : \A i \in DOMAIN claimed[q] : claimed[q][i] \in incoming
<1>1. committed \subseteq Ids /\ Ids \subseteq Nat /\ next_id \in Nat
  BY BoundsAssumption DEF Inv, TypeOK, EnqueueTypes, HistoryTypes, Ids
<1>2. \A m \in committed : m < next_id
  BY DEF Inv, IdsAreFresh
<1>3. incoming \subseteq committed /\ \A i \in DOMAIN log : log[i] \in committed
  BY DEF Inv, SequencedOnce, Elems
<1>4. \A q \in Sequencers : \A i \in DOMAIN claimed[q] : claimed[q][i] \in incoming
  <2> SUFFICES ASSUME NEW q \in Sequencers, NEW i \in DOMAIN claimed[q]
               PROVE  claimed[q][i] \in incoming
    OBVIOUS
  <2>1. claimed[q] # <<>>
    OBVIOUS
  <2>2. QED
    BY <2>1 DEF Inv, ClaimsAreExclusive, Elems
<1>5. QED
  BY <1>1, <1>2, <1>3, <1>4

\* An insert takes an id above all that were given.
LEMMA EnqueueOrder ==
    ASSUME Inv, ProducersAreOrdered, NEW p \in Producers, Enqueue(p)
    PROVE  ProducersAreOrdered'
<1>1. /\ UNCHANGED <<incoming, claimed, committed, log>>
      /\ next_id \in Ids
      /\ open' = [open EXCEPT ![p] = @ \cup {next_id}]
      /\ owner' = [owner EXCEPT ![next_id] = p]
  BY BoundsAssumption DEF Enqueue, sequencerVars, Inv, TypeOK, EnqueueTypes, Ids
<1>2. \A m \in committed : owner'[m] = owner[m] /\ m < next_id
  BY <1>1, KnownIds DEF Inv, TypeOK, HistoryTypes
<1>3. ASSUME NEW r \in Producers, NEW m \in open'[r]
      PROVE  owner'[m] = r /\ \A k \in committed' : owner'[k] = r => k < m
  <2>1. CASE m \in open[r]
    <3>1. m < next_id /\ m \in Ids /\ Ids \subseteq Nat
      BY <2>1, KnownIds DEF Inv, TypeOK, EnqueueTypes, IdsAreFresh
    <3>2. owner'[m] = owner[m]
      BY <1>1, <3>1 DEF Inv, TypeOK, HistoryTypes
    <3>3. QED
      BY <1>1, <1>2, <2>1, <3>2 DEF ProducersAreOrdered
  <2>2. CASE m \notin open[r]
    <3>1. r = p /\ m = next_id
      BY <1>1, <2>2 DEF Inv, TypeOK, EnqueueTypes
    <3>2. QED
      BY <1>1, <1>2, <3>1 DEF Inv, TypeOK, HistoryTypes
  <2>3. QED
    BY <2>1, <2>2
<1>4. /\ \A m \in incoming : owner'[m] = owner[m]
      /\ \A i \in DOMAIN log : owner'[log[i]] = owner[log[i]]
      /\ \A q \in Sequencers : \A i \in DOMAIN claimed[q] :
            owner'[claimed[q][i]] = owner[claimed[q][i]]
  BY <1>2, KnownIds
<1>5. QED
  BY <1>1, <1>3, <1>4 DEF ProducersAreOrdered, ProducerOrder, Elems

\* A commit shows rows above all the producer committed before.
LEMMA CommitEnqueueOrder ==
    ASSUME Inv, ProducersAreOrdered, NEW p \in Producers, CommitEnqueue(p)
    PROVE  ProducersAreOrdered'
<1>1. /\ UNCHANGED <<claimed, owner, log>>
      /\ incoming' = incoming \cup open[p]
      /\ committed' = committed \cup open[p]
      /\ \A r \in Producers : open'[r] = IF r = p THEN {} ELSE open[r]
  BY DEF CommitEnqueue, sequencerVars, Inv, TypeOK, EnqueueTypes
<1>2. \A m \in open[p] : owner[m] = p /\ \A k \in committed : owner[k] = p => k < m
  BY DEF ProducersAreOrdered
<1>3. ASSUME NEW r \in Producers, NEW m \in open'[r]
      PROVE  owner'[m] = r /\ \A k \in committed' : owner'[k] = r => k < m
  BY <1>1, <1>2 DEF ProducersAreOrdered
<1>4. ASSUME NEW m \in incoming', NEW i \in DOMAIN log', owner'[log'[i]] = owner'[m]
      PROVE  log'[i] < m
  BY <1>1, <1>2, <1>4, KnownIds DEF ProducersAreOrdered
<1>5. ASSUME NEW q \in Sequencers, NEW m \in incoming' \ Elems(claimed'[q]),
             NEW i \in DOMAIN claimed'[q], owner'[claimed'[q][i]] = owner'[m]
      PROVE  claimed'[q][i] < m
  BY <1>1, <1>2, <1>5, KnownIds DEF ProducersAreOrdered
<1>6. QED
  BY <1>1, <1>3, <1>4, <1>5 DEF ProducersAreOrdered, ProducerOrder

LEMMA RollbackEnqueueOrder ==
    ASSUME Inv, ProducersAreOrdered, NEW p \in Producers, RollbackEnqueue(p)
    PROVE  ProducersAreOrdered'
<1>1. /\ UNCHANGED <<incoming, claimed, committed, owner, log>>
      /\ \A r \in Producers : open'[r] \subseteq open[r]
  BY DEF RollbackEnqueue, sequencerVars, Inv, TypeOK, EnqueueTypes
<1>2. QED
  BY <1>1 DEF ProducersAreOrdered, ProducerOrder, Elems

\* A claim leaves out only rows above all it takes: nobody else has claimed any,
\* so it chooses from all that are visible.
LEMMA ClaimIncomingOrder ==
    ASSUME Inv, ProducersAreOrdered, NEW q \in Sequencers, ClaimIncoming(q)
    PROVE  ProducersAreOrdered'
<1>1. PICK c \in OrderByLimit(Claimable(q), SeqBatch) :
          claimed' = [claimed EXCEPT ![q] = c]
  BY DEF ClaimIncoming
<1>2. \A r \in Sequencers : r # q => claimed[r] = <<>>
  BY OneClaimant DEF ClaimIncoming, PartitionFree
<1>3. Claimable(q) = incoming
  BY <1>2 DEF Claimable, Elems
<1>4. \A m \in incoming : (\A i \in DOMAIN c : c[i] # m) => \A i \in DOMAIN c : c[i] < m
  BY <1>3, OrderByLimitFacts, KnownIds, SettingsAssumption
<1>5. \A r \in Sequencers : claimed'[r] = IF r = q THEN c ELSE <<>>
  BY <1>1, <1>2 DEF Inv, TypeOK, SequencerTypes
<1>6. UNCHANGED <<open, incoming, committed, owner, log>>
  BY DEF ClaimIncoming, enqueueVars, historyVars
<1>7. ASSUME NEW r \in Sequencers, NEW m \in incoming' \ Elems(claimed'[r]),
             NEW i \in DOMAIN claimed'[r]
      PROVE  claimed'[r][i] < m
  BY <1>4, <1>5, <1>6 DEF Elems
<1>8. QED
  BY <1>6, <1>7 DEF ProducersAreOrdered, ProducerOrder

\* Numbering appends the claimed rows, which are above the producer's numbered
\* ones and below those that stay.
LEMMA CommitSequencedOrder ==
    ASSUME Inv, ProducersAreOrdered, NEW q \in Sequencers, CommitSequenced(q)
    PROVE  ProducersAreOrdered'
<1> DEFINE c == claimed[q]
<1>1. /\ c \in Seq(Ids) /\ log \in Seq(Ids) /\ log' = log \o c
      /\ incoming' = incoming \ Elems(c)
      /\ UNCHANGED <<open, committed, owner>>
  BY DEF CommitSequenced, Inv, TypeOK, SequencerTypes, HistoryTypes
<1>2. /\ \A i \in DOMAIN c : c[i] \in incoming
      /\ \A i, j \in DOMAIN c : i < j => c[i] < c[j]
  BY DEF Inv, ClaimsAreExclusive, CommitSequenced, Elems
<1>3. \A r \in Sequencers : claimed'[r] = <<>>
  <2>1. part_lock = q
    BY DEF Inv, ClaimsAreExclusive, CommitSequenced
  <2>2. QED
    BY <2>1, OneClaimant DEF Inv, TypeOK, SequencerTypes, CommitSequenced
<1>4. /\ \A m \in incoming' : \A i \in DOMAIN c : owner[c[i]] = owner[m] => c[i] < m
      /\ \A m \in incoming : \A i \in DOMAIN log : owner[log[i]] = owner[m] => log[i] < m
      /\ \A i, j \in DOMAIN log : i < j /\ owner[log[i]] = owner[log[j]] => log[i] < log[j]
  BY <1>1 DEF ProducersAreOrdered, ProducerOrder
<1> HIDE DEF c
<1>5. /\ Len(log) \in Nat /\ Len(c) \in Nat
      /\ DOMAIN log = 1..Len(log) /\ DOMAIN c = 1..Len(c)
      /\ DOMAIN log' = 1..(Len(log) + Len(c))
      /\ \A i \in DOMAIN log : log'[i] = log[i]
      /\ \A i \in DOMAIN log' : i \notin DOMAIN log =>
            i - Len(log) \in DOMAIN c /\ log'[i] = c[i - Len(log)]
  BY <1>1
<1>6. ASSUME NEW m \in incoming', NEW i \in DOMAIN log', owner'[log'[i]] = owner'[m]
      PROVE  log'[i] < m
  <2>1. m \in incoming
    BY <1>1
  <2>2. CASE i \in DOMAIN log
    BY <1>1, <1>4, <1>5, <1>6, <2>1, <2>2
  <2>3. CASE i \notin DOMAIN log
    BY <1>1, <1>4, <1>5, <1>6, <2>3
  <2>4. QED
    BY <2>2, <2>3
<1>7. ASSUME NEW i \in DOMAIN log', NEW j \in DOMAIN log', i < j,
             owner'[log'[i]] = owner'[log'[j]]
      PROVE  log'[i] < log'[j]
  <2>1. CASE j \in DOMAIN log
    <3>1. i \in DOMAIN log
      BY <1>5, <1>7, <2>1
    <3>2. QED
      BY <1>1, <1>4, <1>5, <1>7, <2>1, <3>1
  <2>2. CASE i \in DOMAIN log /\ j \notin DOMAIN log
    BY <1>1, <1>2, <1>4, <1>5, <1>7, <2>2
  <2>3. CASE i \notin DOMAIN log /\ j \notin DOMAIN log
    <3>1. i - Len(log) \in DOMAIN c /\ j - Len(log) \in DOMAIN c
      BY <1>5, <2>3
    <3>2. i - Len(log) < j - Len(log)
      BY <1>5, <1>7
    <3>3. QED
      BY <1>2, <1>5, <2>3, <3>1, <3>2
  <2>4. QED
    BY <2>1, <2>2, <2>3
<1>8. \A p \in Producers : \A m \in open'[p] :
         owner'[m] = p /\ \A k \in committed' : owner'[k] = p => k < m
  BY <1>1 DEF ProducersAreOrdered
<1>9. \A r \in Sequencers : \A i \in DOMAIN claimed'[r] : FALSE
  BY <1>3
<1>10. QED
  BY <1>6, <1>7, <1>8, <1>9 DEF ProducersAreOrdered, ProducerOrder

LEMMA RollbackSequencedOrder ==
    ASSUME Inv, ProducersAreOrdered, NEW q \in Sequencers, RollbackSequenced(q)
    PROVE  ProducersAreOrdered'
<1>1. \A r \in Sequencers : r # q => claimed'[r] = claimed[r]
  BY DEF RollbackSequenced, Inv, TypeOK, SequencerTypes
<1>2. claimed'[q] = <<>>
  BY DEF RollbackSequenced, Inv, TypeOK, SequencerTypes
<1>3. UNCHANGED <<open, incoming, committed, owner, log>>
  BY DEF RollbackSequenced, enqueueVars
<1>4. ASSUME NEW r \in Sequencers, NEW m \in incoming' \ Elems(claimed'[r]),
             NEW i \in DOMAIN claimed'[r], owner'[claimed'[r][i]] = owner'[m]
      PROVE  claimed'[r][i] < m
  BY <1>1, <1>2, <1>3, <1>4 DEF ProducersAreOrdered
<1>5. QED
  BY <1>3, <1>4 DEF ProducersAreOrdered, ProducerOrder

\* Processors and vacuums leave `incoming` and the order alone.
LEMMA OrderIsTheSequencers ==
    ASSUME [Next]_vars,
           ~(\E p \in Producers : ProducerStep(p)),
           ~(\E q \in Sequencers : SequencerStep(q))
    PROVE  UNCHANGED <<open, incoming, claimed, committed, owner, log>>
<1>1. CASE \E w \in Workers : WorkerStep(w)
  <2>1. PICK w \in Workers : WorkerStep(w)
    BY <1>1
  <2>2. CASE AcquireLease(w) \/ ReleaseEmpty(w) \/ PassFails(w) \/ Crash(w)
    BY <2>2 DEF AcquireLease, ReleaseEmpty, PassFails, Crash, enqueueVars,
                sequencerVars, historyVars
  <2>3. CASE HandlerStep(w)
    BY <2>3 DEF HandlerStep, HandleOk, HandleReject, ReturnSuccess, ReturnRetry,
                ReturnReject, Return, enqueueVars, sequencerVars
  <2>4. CASE AckStep(w)
    BY <2>4 DEF AckStep, AckAdvance, AckRelease, AckRetry, AckLost, enqueueVars,
                sequencerVars, historyVars
  <2>5. QED
    BY <2>1, <2>2, <2>3, <2>4 DEF WorkerStep
<1>2. CASE LeaseExpires
  BY <1>2 DEF LeaseExpires, enqueueVars, sequencerVars
<1>3. CASE \E v \in Vacuums : VacuumStep(v)
  BY <1>3 DEF VacuumStep, VacuumSnapshot, VacuumRead, VacuumDelete, VacuumDecrement,
              VacuumAbort, enqueueVars, sequencerVars, historyVars
<1>4. CASE UNCHANGED vars
  BY <1>4 DEF vars, enqueueVars, sequencerVars, historyVars
<1>5. QED
  BY <1>1, <1>2, <1>3, <1>4 DEF Next

LEMMA NextOrder == Inv /\ ProducersAreOrdered /\ [Next]_vars => ProducersAreOrdered'
<1> SUFFICES ASSUME Inv, ProducersAreOrdered, [Next]_vars PROVE ProducersAreOrdered'
  OBVIOUS
<1>1. CASE \E p \in Producers : ProducerStep(p)
  BY <1>1, EnqueueOrder, CommitEnqueueOrder, RollbackEnqueueOrder DEF ProducerStep
<1>2. CASE \E q \in Sequencers : SequencerStep(q)
  BY <1>2, ClaimIncomingOrder, CommitSequencedOrder, RollbackSequencedOrder
  DEF SequencerStep
<1>3. CASE /\ ~(\E p \in Producers : ProducerStep(p))
           /\ ~(\E q \in Sequencers : SequencerStep(q))
  BY <1>3, OrderIsTheSequencers, FrameOrder
<1>4. QED
  BY <1>1, <1>2, <1>3

\* Messages of one producer are numbered in the order they were submitted in,
\* for any number of producers and sequencers: commits that overtake each other,
\* partial batches and failed claims do not reorder them (process_partition).
THEOREM OrderIsKept == Spec => []ProducerOrder
<1>1. Init => ProducersAreOrdered
  BY DEF Init, ProducersAreOrdered, ProducerOrder
<1>2. ProducersAreOrdered => ProducerOrder
  BY DEF ProducersAreOrdered
<1>3. QED
  BY <1>1, <1>2, NextOrder, Invariance, PTL DEF Spec
-----------------------------------------------------------------------------
(* Rows the vacuum would never find again, with at most one vacuum worker. *)

Sweeping == SweepsAreThorough /\ NoOrphanedRows

LEMMA FrameSweeping ==
    Sweeping /\ UNCHANGED <<outgoing, processed_seq, counter, vpc, vsnap, vcursor>>
        => Sweeping'
  BY DEF Sweeping, SweepsAreThorough, NoOrphanedRows, Collected

LEMMA SweepTypes ==
    ASSUME Inv
    PROVE  /\ counter \in Nat /\ processed_seq \in Nat /\ sequence \in Nat
           /\ processed_seq <= sequence
           /\ vpc \in [Vacuums -> {"idle", "read", "draining", "drained"}]
           /\ vsnap \in [Vacuums -> Nat] /\ vcursor \in [Vacuums -> Nat]
           /\ DOMAIN outgoing \subseteq 1..sequence
  BY DEF Inv, TypeOK, RowTypes, SequencerTypes, VacuumTypes, NumbersAreDense

\* New rows are above the cursor.
LEMMA CommitSequencedSweeping ==
    ASSUME Inv, Sweeping, NEW q \in Sequencers, CommitSequenced(q)
    PROVE  Sweeping'
<1>1. /\ UNCHANGED <<processed_seq, counter, vpc, vsnap, vcursor>>
      /\ DOMAIN outgoing' = DOMAIN outgoing
                               \cup (sequence + 1 .. sequence + Len(claimed[q]))
  BY DEF CommitSequenced, rowVars, vacuumVars
<1>2. Len(claimed[q]) \in Nat
  BY DEF Inv, TypeOK, SequencerTypes
<1>3. \A s \in sequence + 1 .. sequence + Len(claimed[q]) : s > processed_seq
  BY <1>2, SweepTypes
<1>4. Collected => Collected'
  BY <1>1, <1>3 DEF Collected
<1>5. QED
  BY <1>1, <1>4 DEF Sweeping, SweepsAreThorough, NoOrphanedRows, Collected

\* An acknowledgement lifts the counter above every snapshot.
LEMMA AckAdvanceSweeping ==
    ASSUME Inv, Sweeping, NEW w \in Workers, AckAdvance(w)
    PROVE  Sweeping'
<1>1. counter' = counter + 1 /\ UNCHANGED <<vpc, vsnap, vcursor>>
  BY DEF AckAdvance, vacuumVars
<1>2. \A v \in Vacuums : vpc[v] # "idle" => vsnap[v] < counter' /\ vsnap[v] > 0
  BY <1>1, SweepTypes DEF Sweeping, SweepsAreThorough
<1>3. counter' # 0
  BY <1>1, SweepTypes
<1>4. \A v \in Vacuums : vpc'[v] # "idle" =>
         vsnap'[v] > 0 /\ vsnap'[v] <= counter' /\ counter' # vsnap'[v]
  BY <1>1, <1>2, SweepTypes
<1>5. QED
  BY <1>3, <1>4 DEF Sweeping, SweepsAreThorough, NoOrphanedRows

LEMMA VacuumSnapshotSweeping ==
    ASSUME Inv, Sweeping, NEW v \in Vacuums, VacuumSnapshot(v)
    PROVE  Sweeping'
<1>1. /\ UNCHANGED <<outgoing, processed_seq, counter, vcursor>> /\ counter > 0
      /\ \A x \in Vacuums : vpc'[x] = IF x = v THEN "read" ELSE vpc[x]
      /\ \A x \in Vacuums : vsnap'[x] = IF x = v THEN counter ELSE vsnap[x]
  BY SweepTypes DEF VacuumSnapshot, sequencerVars, rowVars
<1>2. counter \in Nat
  BY SweepTypes
<1>3. QED
  BY <1>1, <1>2 DEF Sweeping, SweepsAreThorough, NoOrphanedRows, Collected

LEMMA VacuumReadSweeping ==
    ASSUME Inv, Sweeping, NEW v \in Vacuums, VacuumRead(v)
    PROVE  Sweeping'
<1>1. /\ UNCHANGED <<outgoing, processed_seq, counter, vsnap>> /\ vpc[v] = "read"
      /\ \A x \in Vacuums : vcursor'[x] = IF x = v THEN processed_seq ELSE vcursor[x]
      /\ \A x \in Vacuums : vpc'[x] = IF x # v THEN vpc[x]
                               ELSE IF processed_seq = 0 THEN "drained" ELSE "draining"
  BY SweepTypes DEF VacuumRead, sequencerVars, rowVars
<1>2. processed_seq = 0 => Collected
  BY SweepTypes DEF Collected
<1>3. Collected' <=> Collected
  BY <1>1 DEF Collected
<1>4. QED
  BY <1>1, <1>2, <1>3 DEF Sweeping, SweepsAreThorough, NoOrphanedRows, Collected

\* A chunk that is not full was the rest.
LEMMA VacuumDeleteSweeping ==
    ASSUME Inv, Sweeping, NEW v \in Vacuums, VacuumDelete(v)
    PROVE  Sweeping'
<1>1. PICK q \in OrderByLimit(Collectable(v), VacBatch) :
         /\ outgoing' = [s \in DOMAIN outgoing \ Elems(q) |-> outgoing[s]]
         /\ vpc' = [vpc EXCEPT ![v] = IF Len(q) < VacBatch THEN "drained" ELSE @]
  BY DEF VacuumDelete
<1>2. UNCHANGED <<processed_seq, counter, vsnap, vcursor>> /\ vpc[v] = "draining"
  BY DEF VacuumDelete, rowVars
<1>3. DOMAIN outgoing' = DOMAIN outgoing \ Elems(q)
  BY <1>1
<1>4. Len(q) < VacBatch => \A s \in DOMAIN outgoing' : s > vcursor[v]
  <2> SUFFICES ASSUME Len(q) < VacBatch, NEW s \in DOMAIN outgoing, s \notin Elems(q),
                      ~(s > vcursor[v])
               PROVE  FALSE
    BY <1>3
  <2>1. s \in Collectable(v)
    BY SweepTypes DEF Collectable
  <2>2. \A i \in DOMAIN q : q[i] # s
    BY DEF Elems
  <2>3. Len(q) = VacBatch
    BY <2>1, <2>2 DEF OrderByLimit
  <2>4. QED
    BY <2>3, SettingsAssumption
<1>5. Collected => Collected'
  BY <1>2, <1>3 DEF Collected
<1>6. \A x \in Vacuums : vpc'[x] = IF x = v /\ Len(q) < VacBatch THEN "drained" ELSE vpc[x]
  BY <1>1, SweepTypes
<1>7. Len(q) < VacBatch /\ vcursor[v] = processed_seq => Collected'
  BY <1>2, <1>4 DEF Collected
<1>8. SweepsAreThorough'
  <2> SUFFICES ASSUME NEW x \in Vacuums
               PROVE  /\ vpc'[x] # "idle" => vsnap'[x] > 0 /\ vsnap'[x] <= counter'
                      /\ vpc'[x] = "draining" /\ counter' = vsnap'[x]
                            => vcursor'[x] = processed_seq'
                      /\ vpc'[x] = "drained" /\ counter' = vsnap'[x] => Collected'
    BY DEF SweepsAreThorough
  <2>1. QED
    BY <1>2, <1>5, <1>6, <1>7 DEF Sweeping, SweepsAreThorough
<1>9. NoOrphanedRows'
  BY <1>2, <1>5, <1>6 DEF Sweeping, NoOrphanedRows, Collected
<1>10. QED
  BY <1>8, <1>9 DEF Sweeping

\* A sweep is over.  If its snapshot was the whole counter, it left nothing; if
\* not, or if it was cut short, the counter still points at the partition.
LEMMA VacuumEndSweeping ==
    ASSUME Inv, Sweeping, \A u, x \in Vacuums : u = x,
           NEW v \in Vacuums, VacuumDecrement(v) \/ VacuumAbort(v)
    PROVE  Sweeping'
<1>1. /\ UNCHANGED <<outgoing, processed_seq>>
      /\ \A x \in Vacuums : vpc'[x] = "idle"
  BY SweepTypes DEF VacuumDecrement, VacuumAbort, EndSweep, sequencerVars, rowVars
<1>2. vsnap[v] > 0 /\ vsnap[v] <= counter /\ vsnap[v] \in Nat /\ counter \in Nat
  BY SweepTypes DEF Sweeping, SweepsAreThorough, VacuumDecrement, VacuumAbort
<1>3. counter' = 0 => Collected
  <2>1. CASE VacuumAbort(v)
    BY <1>2, <2>1 DEF VacuumAbort
  <2>2. CASE VacuumDecrement(v)
    <3>1. counter' = IF counter > vsnap[v] THEN counter - vsnap[v] ELSE 0
      BY <2>2 DEF VacuumDecrement
    <3>2. counter' = 0 => counter = vsnap[v]
      BY <1>2, <3>1
    <3>3. QED
      BY <2>2, <3>2 DEF Sweeping, SweepsAreThorough, VacuumDecrement
  <2>3. QED
    BY <2>1, <2>2
<1>4. QED
  BY <1>1, <1>3 DEF Sweeping, SweepsAreThorough, NoOrphanedRows, Collected

\* Only numbering, acknowledging and vacuuming touch what a sweep is about.
LEMMA SweepingIsLocal ==
    ASSUME [Next]_vars,
           ~(\E q \in Sequencers : CommitSequenced(q)),
           ~(\E w \in Workers : AckAdvance(w)),
           ~(\E v \in Vacuums : VacuumStep(v))
    PROVE  UNCHANGED <<outgoing, processed_seq, counter, vpc, vsnap, vcursor>>
<1>1. CASE \E p \in Producers : ProducerStep(p)
  BY <1>1 DEF ProducerStep, Enqueue, CommitEnqueue, RollbackEnqueue, sequencerVars,
              rowVars, vacuumVars
<1>2. CASE \E q \in Sequencers : SequencerStep(q)
  BY <1>2 DEF SequencerStep, ClaimIncoming, RollbackSequenced, rowVars, vacuumVars
<1>3. CASE \E w \in Workers : WorkerStep(w)
  <2>1. PICK w \in Workers : WorkerStep(w)
    BY <1>3
  <2>2. CASE AcquireLease(w) \/ ReleaseEmpty(w) \/ PassFails(w) \/ Crash(w)
    BY <2>2 DEF AcquireLease, ReleaseEmpty, PassFails, Crash, sequencerVars, rowVars,
                vacuumVars
  <2>3. CASE HandlerStep(w)
    BY <2>3 DEF HandlerStep, HandleOk, HandleReject, ReturnSuccess, ReturnRetry,
                ReturnReject, Return, sequencerVars, rowVars, vacuumVars
  <2>4. CASE AckRelease(w) \/ AckRetry(w) \/ AckLost(w)
    BY <2>4 DEF AckRelease, AckRetry, AckLost, sequencerVars, rowVars, vacuumVars
  <2>5. QED
    BY <2>1, <2>2, <2>3, <2>4 DEF WorkerStep, AckStep
<1>4. CASE LeaseExpires
  BY <1>4 DEF LeaseExpires, sequencerVars, vacuumVars
<1>5. CASE UNCHANGED vars
  BY <1>5 DEF vars, sequencerVars, rowVars, vacuumVars
<1>6. QED
  BY <1>1, <1>2, <1>3, <1>4, <1>5 DEF Next

LEMMA NextSweeping ==
    ASSUME \A u, x \in Vacuums : u = x
    PROVE  Inv /\ Sweeping /\ [Next]_vars => Sweeping'
<1> SUFFICES ASSUME Inv, Sweeping, [Next]_vars PROVE Sweeping'
  OBVIOUS
<1>1. CASE \E q \in Sequencers : CommitSequenced(q)
  BY <1>1, CommitSequencedSweeping
<1>2. CASE \E w \in Workers : AckAdvance(w)
  BY <1>2, AckAdvanceSweeping
<1>3. CASE \E v \in Vacuums : VacuumStep(v)
  BY <1>3, VacuumSnapshotSweeping, VacuumReadSweeping, VacuumDeleteSweeping,
     VacuumEndSweeping DEF VacuumStep
<1>4. CASE /\ ~(\E q \in Sequencers : CommitSequenced(q))
           /\ ~(\E w \in Workers : AckAdvance(w))
           /\ ~(\E v \in Vacuums : VacuumStep(v))
  BY <1>4, SweepingIsLocal, FrameSweeping
<1>5. QED
  BY <1>1, <1>2, <1>3, <1>4

\* With a single vacuum worker, no acknowledged row is left where no sweep would
\* find it, whatever is acknowledged during a sweep and wherever it is cut short
\* (drain_partition).  Two workers break it: the two_vacuums run.
THEOREM OneVacuumFindsAll ==
    ASSUME \A u, x \in Vacuums : u = x
    PROVE  Spec => []NoOrphanedRows
<1>1. Init => Sweeping
  BY DEF Init, Sweeping, SweepsAreThorough, NoOrphanedRows
<1>2. Sweeping => NoOrphanedRows
  BY DEF Sweeping
<1>3. Inv /\ Sweeping /\ [Next]_vars => Sweeping'
  BY NextSweeping
<1>4. QED
  BY <1>1, <1>2, <1>3, Invariance, PTL DEF Spec
=============================================================================
