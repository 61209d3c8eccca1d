-------------------------- MODULE OutboxRefinement --------------------------
(***************************************************************************)
(* The pipeline of Outbox implements the queue of OutboxQueue: machine-    *)
(* checked for any number of actors, messages and faults.                  *)
(***************************************************************************)
EXTENDS OutboxProofs

LEMMA InitRefines == Init => Queue!Init
<1> SUFFICES ASSUME Init PROVE Queue!Init
  OBVIOUS
<1>1. {s \in Seqs : calls[s] = "handled"} = {}
  BY DEF Init
<1>2. {s \in Seqs : dead_letters[s] > 0} = {}
  BY BoundsAssumption DEF Init, Seqs
<1>3. QED
  BY <1>1, <1>2 DEF Init, Queue!Init

\* The commit of a business transaction submits its messages.
LEMMA CommitEnqueueSubmits ==
    ASSUME Inv, NEW p \in Producers, CommitEnqueue(p)
    PROVE  Queue!Submit
<1>1. open[p] \in SUBSET Ids
  BY DEF Inv, TypeOK, EnqueueTypes
<1>2. incoming \cup Queue!InLog = committed
  BY DEF Inv, SequencedOnce, Queue!InLog, Elems
<1>3. open[p] \in SUBSET (Ids \ (incoming \cup Queue!InLog))
  BY <1>1, <1>2 DEF Inv, IdsAreFresh
<1>4. UNCHANGED <<log, calls, processed_seq, dead_letters>>
  BY DEF CommitEnqueue, rowVars
<1>5. QED
  BY <1>3, <1>4 DEF Queue!Submit, CommitEnqueue

\* The sequencer's commit gives pending messages the next places.
LEMMA CommitSequencedOrders ==
    ASSUME Inv, NEW q \in Sequencers, CommitSequenced(q)
    PROVE  Queue!Order
<1> DEFINE c == claimed[q]
           n == Len(c)
<1>1. c \in Seq(Ids) /\ n \in Nat \ {0} /\ DOMAIN c = 1..n
  BY DEF Inv, TypeOK, SequencerTypes, CommitSequenced
<1>2. /\ Elems(c) \subseteq incoming
      /\ \A i, j \in 1..n : i < j => c[i] < c[j]
  BY <1>1 DEF Inv, ClaimsAreExclusive, CommitSequenced
<1>3. \A i \in 1..n : c[i] \in Nat /\ c[i] \in incoming
  <2>1. Ids \subseteq Nat
    BY BoundsAssumption DEF Ids
  <2>2. \A i \in 1..n : c[i] \in Ids
    BY <1>1
  <2>3. \A i \in 1..n : c[i] \in incoming
    BY <1>1, <1>2, Zenon DEF Elems
  <2>4. QED
    BY <2>1, <2>2, <2>3, Zenon
<1>4. \A i, j \in 1..n : i # j => c[i] # c[j]
  <2> SUFFICES ASSUME NEW i \in 1..n, NEW j \in 1..n, i < j PROVE c[i] # c[j]
    OBVIOUS
  <2>1. c[i] < c[j] /\ c[i] \in Nat
    BY <1>2, <1>3
  <2>2. QED
    BY <2>1
<1>5. c \in [1..n -> incoming]
  BY <1>1, <1>3
<1>6. n \in 1..SeqBatch
  BY <1>1, SettingsAssumption DEF Inv, ClaimsAreExclusive, CommitSequenced
<1>7. {c[i] : i \in 1..n} = Elems(c)
  BY <1>1 DEF Elems
<1>8. UNCHANGED <<calls, processed_seq, dead_letters>>
  BY DEF CommitSequenced, rowVars
<1>9. log' = log \o c /\ incoming' = incoming \ Elems(c)
  BY DEF CommitSequenced
<1> HIDE DEF c, n
<1>10. UNCHANGED <<{s \in Seqs : calls[s] = "handled"}, processed_seq,
                   {s \in Seqs : dead_letters[s] > 0}>>
  BY <1>8
<1>11. SUFFICES \E k \in 1..SeqBatch : \E d \in [1..k -> incoming] :
          /\ \A i, j \in 1..k : i # j => d[i] # d[j]
          /\ log' = log \o d
          /\ incoming' = incoming \ {d[i] : i \in 1..k}
          /\ UNCHANGED <<{s \in Seqs : calls[s] = "handled"}, processed_seq,
                         {s \in Seqs : dead_letters[s] > 0}>>
  BY Zenon DEF Queue!Order
<1>12. incoming' = incoming \ {c[i] : i \in 1..n}
  BY <1>7, <1>9
<1>13. QED
  BY <1>4, <1>5, <1>6, <1>9, <1>10, <1>12, Zenon

\* A handler call that succeeds is an acknowledgement.
LEMMA HandleOkAcknowledges ==
    ASSUME Inv, NEW w \in Workers, HandleOk(w)
    PROVE  Queue!Acknowledge
<1> DEFINE m == batch[w][done[w] + 1]
<1>1. m \in Seqs /\ done[w] + 1 \in DOMAIN batch[w]
  BY CurrentMessage DEF HandleOk
<1>2. m \in DOMAIN log
  <2>1. m \in 1..sequence
    BY <1>1 DEF HandleOk, Inv, PassesAreSound, Working
  <2>2. QED
    BY <2>1 DEF Inv, TypeOK, HistoryTypes, NumbersAreDense
<1>3. calls' = [calls EXCEPT ![m] = "handled"] /\ calls \in [Seqs -> {"none", "tried", "handled"}]
  BY DEF HandleOk, Inv, TypeOK, CallTypes
<1> HIDE DEF m
<1>4. {s \in Seqs : calls'[s] = "handled"} = {s \in Seqs : calls[s] = "handled"} \cup {m}
  BY <1>1, <1>3
<1>5. UNCHANGED <<incoming, log, processed_seq, dead_letters>>
  BY DEF HandleOk, enqueueVars, rowVars
<1>6. QED
  BY <1>2, <1>4, <1>5 DEF Queue!Acknowledge

\* The acknowledgement of a lease holder settles what it moves the cursor past.
LEMMA AckAdvanceSettles ==
    ASSUME Inv, NEW w \in Workers, AckAdvance(w)
    PROVE  Queue!Settle
<1> DEFINE n == processed_seq'
           D == RejectedSeqs(w) \cup RejectedTail(w)
           Passed == processed_seq + 1 .. n
<1>1. /\ processed_seq \in Nat /\ sequence \in Nat /\ n \in Nat
      /\ n > processed_seq /\ n <= sequence
      /\ \A s \in Passed : s \in Seqs /\ (calls[s] = "handled" \/ s \in D)
      /\ \A s \in D : s \in Passed
  BY AckAdvanceFacts DEF Inv, TypeOK, RowTypes, SequencerTypes
<1>2. n \in processed_seq + 1 .. Len(log)
  BY <1>1 DEF Inv, NumbersAreDense
<1>3. D \in SUBSET Passed /\ Passed \ D \subseteq {s \in Seqs : calls[s] = "handled"}
  BY <1>1
<1>4. /\ dead_letters \in [Seqs -> Nat]
      /\ dead_letters' = [s \in Seqs |->
            dead_letters[s] + One(s \in RejectedSeqs(w)) + One(s \in RejectedTail(w))]
  BY DEF Inv, TypeOK, CallTypes, AckAdvance, InsertDeadLetters
<1>5. {s \in Seqs : dead_letters'[s] > 0} = {s \in Seqs : dead_letters[s] > 0} \cup D
  <2>1. \A s \in Seqs : dead_letters'[s] > 0 <=> dead_letters[s] > 0 \/ s \in D
    BY <1>4 DEF One
  <2>2. D \subseteq Seqs
    BY <1>1
  <2>3. QED
    BY <2>1, <2>2
<1>6. UNCHANGED <<incoming, log, calls>>
  BY DEF AckAdvance, enqueueVars, historyVars
<1>7. QED
  BY <1>2, <1>3, <1>5, <1>6 DEF Queue!Settle

\* Everything else leaves the queue as it is.
LEMMA OthersStutter ==
    ASSUME Inv, [Next]_vars,
           \A p \in Producers : ~CommitEnqueue(p),
           \A q \in Sequencers : ~CommitSequenced(q),
           \A w \in Workers : ~HandleOk(w) /\ ~AckAdvance(w)
    PROVE  UNCHANGED Queue!queueVars
<1>1. UNCHANGED <<incoming, log, processed_seq, dead_letters>> /\
      \A s \in Seqs : calls'[s] = "handled" <=> calls[s] = "handled"
  <2>1. CASE \E p \in Producers : ProducerStep(p)
    BY <2>1 DEF ProducerStep, Enqueue, RollbackEnqueue, rowVars
  <2>2. CASE \E q \in Sequencers : SequencerStep(q)
    BY <2>2 DEF SequencerStep, ClaimIncoming, RollbackSequenced, rowVars, enqueueVars,
                historyVars
  <2>3. CASE \E w \in Workers : WorkerStep(w)
    <3>1. PICK w \in Workers : WorkerStep(w)
      BY <2>3
    <3>2. CASE AcquireLease(w) \/ ReleaseEmpty(w) \/ PassFails(w) \/ Crash(w)
      BY <3>2 DEF AcquireLease, ReleaseEmpty, PassFails, Crash, enqueueVars, rowVars,
                  historyVars
    <3>3. CASE HandlerStep(w)
      <4>1. UNCHANGED <<incoming, log, processed_seq, dead_letters>>
        BY <3>3 DEF HandlerStep, HandleOk, HandleReject, ReturnSuccess, ReturnRetry,
                    ReturnReject, Return, rowVars, enqueueVars
      <4>2. CASE UNCHANGED calls
        BY <4>1, <4>2
      <4>3. CASE HandleReject(w) \/ (ReturnRetry(w) /\ done[w] < Len(batch[w]))
        <5>1. batch[w][done[w] + 1] \in Seqs
          BY <4>3, CurrentMessage DEF HandleReject, ReturnRetry, Return
        <5>2. QED
          BY <4>1, <4>3, <5>1 DEF HandleReject, ReturnRetry, Inv, TypeOK, CallTypes
      <4>4. QED
        BY <3>3, <4>2, <4>3 DEF HandlerStep, ReturnSuccess, ReturnRetry, ReturnReject
    <3>4. CASE AckRelease(w) \/ AckRetry(w) \/ AckLost(w)
      BY <3>4 DEF AckRelease, AckRetry, AckLost, rowVars, enqueueVars, historyVars
    <3>5. QED
      BY <3>1, <3>2, <3>3, <3>4 DEF WorkerStep, AckStep
  <2>4. CASE LeaseExpires
    BY <2>4 DEF LeaseExpires, enqueueVars
  <2>5. CASE \E v \in Vacuums : VacuumStep(v)
    BY <2>5 DEF VacuumStep, VacuumSnapshot, VacuumRead, VacuumDelete, VacuumDecrement,
                VacuumAbort, rowVars, enqueueVars, historyVars
  <2>6. CASE UNCHANGED vars
    BY <2>6 DEF vars, rowVars, enqueueVars, historyVars
  <2>7. QED
    BY <2>1, <2>2, <2>3, <2>4, <2>5, <2>6 DEF Next
<1>2. {s \in Seqs : calls'[s] = "handled"} = {s \in Seqs : calls[s] = "handled"}
  BY <1>1
<1>3. QED
  BY <1>1, <1>2 DEF Queue!queueVars

\* The pipeline implements the queue: concurrent sequencers, leases that are
\* lost, redelivery and vacuuming are invisible at that level.
THEOREM Refinement == Spec => ImplementsQueue
<1>1. Inv /\ [Next]_vars => [Queue!Next]_(Queue!queueVars)
  BY CommitEnqueueSubmits, CommitSequencedOrders, HandleOkAcknowledges,
     AckAdvanceSettles, OthersStutter DEF Queue!Next
<1>2. QED
  BY <1>1, InitRefines, Invariance, PTL DEF Spec, ImplementsQueue, Queue!Spec
=============================================================================
