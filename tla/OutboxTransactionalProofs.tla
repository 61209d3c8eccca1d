--------------------- MODULE OutboxTransactionalProofs ---------------------
(***************************************************************************)
(* The safety properties of OutboxTransactional for any number of          *)
(* processes, partitions, messages and faults.  They follow from what an   *)
(* open pass knows: it holds the row lock, so the cursor it read is still  *)
(* the cursor, and a Success has handled the whole batch.                  *)
(***************************************************************************)
EXTENDS OutboxTransactional, TLAPS

\* A worker inside a pass holds its partition's row; the cursor is where the
\* pass read it and the batch is made of sequenced messages.
PassIsFenced ==
    \A w \in Workers : wpc[w] # "idle" =>
        /\ row_lock[w[2]] = w[1]
        /\ base[w] = processed_seq[w[2]]
        /\ handled[w] <= count[w]
        /\ base[w] + count[w] <= outgoing[w[2]]

\* handle() says Success only after the last message of the batch.
SuccessIsComplete ==
    \A w \in Workers :
        wpc[w] \in {"returned", "counted"} /\ result[w] = "Success"
            => handled[w] = count[w]

CursorIsSequenced == \A k \in Partitions : processed_seq[k] <= outgoing[k]

Inv ==
    /\ TypeOK
    /\ PassIsFenced
    /\ SuccessIsComplete
    /\ CursorIsSequenced
    /\ NothingSkipped
    /\ RepeatedOnlyByRetry
-----------------------------------------------------------------------------
LEMMA Limits == MaxMsgs \in Nat /\ MaxFaults \in Nat
  BY LimitsAssumption

\* Initially nothing is handled, locked or dead-lettered.
LEMMA InitInv == Init => Inv
<1>1. SUFFICES ASSUME Init PROVE Inv
  OBVIOUS
<1>2. TypeOK
  BY <1>1, TuningAssumption, Limits
  DEF Init, TypeOK, CountersOK, PassOK, Results, Seqs
<1>3. PassIsFenced /\ SuccessIsComplete /\ CursorIsSequenced
  BY <1>1 DEF Init, PassIsFenced, SuccessIsComplete, CursorIsSequenced
<1>4. NothingSkipped /\ RepeatedOnlyByRetry
  BY <1>1, Limits DEF Init, NothingSkipped, RepeatedOnlyByRetry, Seqs
<1>. QED
  BY <1>2, <1>3, <1>4 DEF Inv

\* A step that leaves the database's rows and the outgoing table alone keeps
\* what the invariant says of them.
LEMMA DatabaseUnchanged ==
    ASSUME NothingSkipped, RepeatedOnlyByRetry, UNCHANGED dbVars
    PROVE  NothingSkipped' /\ RepeatedOnlyByRetry'
  BY DEF NothingSkipped, RepeatedOnlyByRetry, dbVars

\* What a pass that is about to commit does to the database (ack and commit),
\* whether or not the worker hears of it.
LEMMA AckPreserves ==
    ASSUME NEW p \in Processes, NEW k \in Partitions, Inv,
           wpc[<<p, k>>] = "counted", Ack(<<p, k>>), EndPass(p, k)
    PROVE  /\ processed_seq' \in [Partitions -> 0..MaxMsgs]
           /\ attempts' \in [Partitions -> Nat]
           /\ counter' \in [Partitions -> Nat]
           /\ effects' \in [Partitions -> [Seqs -> Nat]]
           /\ dead_letters' \in [Partitions -> [Seqs -> Nat]]
           /\ retried' \in [Partitions -> Nat]
           /\ \A j \in Partitions : j # k => processed_seq'[j] = processed_seq[j]
           /\ processed_seq'[k] >= processed_seq[k]
           /\ CursorIsSequenced'
           /\ NothingSkipped'
           /\ RepeatedOnlyByRetry'
           /\ \A j \in Partitions : \A s \in Seqs : s <= processed_seq[j] =>
                  effects'[j][s] = effects[j][s] /\ dead_letters'[j][s] = dead_letters[j][s]
<1>. DEFINE w == <<p, k>>
            e(s) == IF s \in HandledSeqs(w) THEN 1 ELSE 0
            d(s) == IF s \in BatchSeqs(w) THEN 1 ELSE 0
<1>1. w \in Workers /\ w[1] = p /\ w[2] = k
  BY DEF Workers
<1>2. TypeOK /\ CountersOK /\ PassOK
  BY DEF Inv, TypeOK
<1>3. /\ base[w] = processed_seq[k]
      /\ handled[w] <= count[w]
      /\ base[w] + count[w] <= outgoing[k]
      /\ result[w] = "Success" => handled[w] = count[w]
  BY <1>1 DEF Inv, PassIsFenced, SuccessIsComplete
<1>4. /\ base[w] \in Nat /\ count[w] \in Nat /\ handled[w] \in Nat
      /\ outgoing[k] \in 0..MaxMsgs /\ processed_seq[k] \in 0..MaxMsgs
      /\ outgoing' = outgoing /\ MaxMsgs \in Nat
  <2>1. base[w] \in 0..MaxMsgs /\ count[w] \in 0..BatchSize /\ handled[w] \in 0..BatchSize
    BY <1>1, <1>2 DEF PassOK
  <2>2. outgoing[k] \in 0..MaxMsgs /\ processed_seq[k] \in 0..MaxMsgs
    BY <1>2 DEF CountersOK
  <2>3. outgoing' = outgoing
    BY DEF EndPass
  <2>. QED
    BY <2>1, <2>2, <2>3, Limits, TuningAssumption
<1>5. /\ effects' = [effects EXCEPT ![k] = [s \in Seqs |-> effects[k][s] + e(s)]]
      /\ effects' \in [Partitions -> [Seqs -> Nat]]
      /\ \A s \in Seqs : effects'[k][s] = effects[k][s] + e(s)
      /\ \A j \in Partitions : j # k => effects'[j] = effects[j]
  <2>1. effects' = [effects EXCEPT ![k] = [s \in Seqs |-> effects[k][s] + e(s)]]
    BY <1>1 DEF Ack, CommitWrites
  <2>2. effects \in [Partitions -> [Seqs -> Nat]]
    BY <1>2 DEF CountersOK
  <2>. HIDE DEF e
  <2>3. \A s \in Seqs : e(s) \in {0, 1}
    BY DEF e
  <2>4. \A s \in Seqs : effects[k][s] + e(s) \in Nat
    BY <2>2, <2>3
  <2>. QED
    BY <2>1, <2>2, <2>4
<1>6. \A s \in Seqs : s \in Nat
  BY DEF Seqs
<1>7. ASSUME NEW s \in Seqs
      PROVE  /\ e(s) = IF processed_seq[k] < s /\ s <= processed_seq[k] + handled[w]
                       THEN 1 ELSE 0
             /\ d(s) = IF processed_seq[k] < s /\ s <= processed_seq[k] + count[w]
                       THEN 1 ELSE 0
  BY <1>3, <1>4, <1>6 DEF HandledSeqs, BatchSeqs
<1>8. /\ \A s \in Seqs : e(s) \in {0, 1} /\ d(s) \in {0, 1}
      /\ \A s \in Seqs : s <= processed_seq[k] => e(s) = 0 /\ d(s) = 0
      /\ \A s \in Seqs : s > processed_seq[k] + count[w] => e(s) = 0 /\ d(s) = 0
      /\ \A s \in Seqs : s > processed_seq[k] /\ s <= processed_seq[k] + count[w]
             => d(s) = 1 /\ (result[w] = "Success" => e(s) = 1)
  BY <1>3, <1>4, <1>6, <1>7
<1>9. /\ \A j \in Partitions : \A s \in Seqs :
             /\ dead_letters[j][s] \in Nat /\ effects[j][s] \in Nat
             /\ s <= processed_seq[j] => effects[j][s] >= 1 \/ dead_letters[j][s] = 1
             /\ s > processed_seq[j] => dead_letters[j][s] = 0
             /\ dead_letters[j][s] <= 1
             /\ effects[j][s] <= retried[j] + (IF s <= processed_seq[j] THEN 1 ELSE 0)
      /\ \A j \in Partitions : processed_seq[j] \in Nat /\ retried[j] \in Nat
  BY <1>2 DEF Inv, NothingSkipped, RepeatedOnlyByRetry, CountersOK
<1>. HIDE DEF e, d
<1>10. CASE result[w] = "Retry"
  <2>1. /\ processed_seq' = processed_seq /\ counter' = counter
        /\ dead_letters' = dead_letters
        /\ attempts' = [attempts EXCEPT ![k] = @ + 1]
        /\ retried' = [retried EXCEPT ![k] = @ + 1]
    BY <1>1, <1>10 DEF Ack
  <2>2. attempts' \in [Partitions -> Nat] /\ retried' \in [Partitions -> Nat]
    BY <1>2, <2>1 DEF CountersOK
  <2>3. CursorIsSequenced'
    BY <1>4, <2>1 DEF Inv, CursorIsSequenced
  <2>4. NothingSkipped'
    BY <1>5, <1>8, <1>9, <2>1 DEF NothingSkipped
  <2>5. /\ retried'[k] = retried[k] + 1
        /\ \A j \in Partitions : j # k => retried'[j] = retried[j]
    BY <1>2, <2>1 DEF CountersOK
  <2>6. RepeatedOnlyByRetry'
    <3>1. SUFFICES ASSUME NEW j \in Partitions, NEW s \in Seqs
                   PROVE  effects'[j][s] <= retried'[j]
                              + (IF s <= processed_seq[j] THEN 1 ELSE 0)
      BY <2>1 DEF RepeatedOnlyByRetry
    <3>2. CASE j # k
      BY <1>5, <1>9, <2>5, <3>2
    <3>3. CASE j = k
      BY <1>5, <1>6, <1>8, <1>9, <2>5, <3>3
    <3>. QED
      BY <3>2, <3>3
  <2>7. \A j \in Partitions : \A s \in Seqs : s <= processed_seq[j] =>
            effects'[j][s] = effects[j][s] /\ dead_letters'[j][s] = dead_letters[j][s]
    BY <1>5, <1>8, <1>9, <2>1
  <2>8. /\ processed_seq' \in [Partitions -> 0..MaxMsgs]
        /\ counter' \in [Partitions -> Nat]
        /\ dead_letters' \in [Partitions -> [Seqs -> Nat]]
        /\ processed_seq'[k] >= processed_seq[k]
    BY <1>2, <1>9, <2>1 DEF CountersOK
  <2>. QED
    BY <1>5, <2>1, <2>2, <2>3, <2>4, <2>6, <2>7, <2>8
<1>11. CASE result[w] \in {"Success", "Reject"}
  <2>1. /\ processed_seq' = [processed_seq EXCEPT ![k] = base[w] + count[w]]
        /\ attempts' = [attempts EXCEPT ![k] = 0]
        /\ counter' = [counter EXCEPT ![k] = @ + 1]
        /\ retried' = retried
    BY <1>1, <1>11 DEF Ack, Advance
  <2>2. /\ processed_seq' \in [Partitions -> 0..MaxMsgs]
        /\ attempts' \in [Partitions -> Nat]
        /\ counter' \in [Partitions -> Nat]
        /\ retried' \in [Partitions -> Nat]
    BY <1>2, <1>3, <1>4, <2>1 DEF CountersOK
  <2>3. /\ processed_seq'[k] = processed_seq[k] + count[w]
        /\ \A j \in Partitions : j # k => processed_seq'[j] = processed_seq[j]
    BY <1>2, <1>3, <2>1 DEF CountersOK
  <2>4. CursorIsSequenced'
    BY <1>3, <1>4, <2>3 DEF Inv, CursorIsSequenced
  <2>5. /\ dead_letters' \in [Partitions -> [Seqs -> Nat]]
        /\ \A s \in Seqs : dead_letters'[k][s]
               = dead_letters[k][s] + (IF result[w] = "Reject" THEN d(s) ELSE 0)
        /\ \A j \in Partitions : j # k => dead_letters'[j] = dead_letters[j]
    <3>1. dead_letters \in [Partitions -> [Seqs -> Nat]]
      BY <1>2 DEF CountersOK
    <3>2. CASE result[w] = "Success"
      <4>1. dead_letters' = dead_letters
        BY <1>1, <3>2 DEF Ack
      <4>. QED
        BY <1>9, <3>1, <3>2, <4>1
    <3>3. CASE result[w] = "Reject"
      <4>1. dead_letters' = [dead_letters EXCEPT ![k] =
                                [s \in Seqs |-> dead_letters[k][s] + d(s)]]
        BY <1>1, <3>3 DEF Ack, DeadLetterBatch, d
      <4>2. \A s \in Seqs : dead_letters[k][s] + d(s) \in Nat
        BY <1>8, <1>9
      <4>. QED
        BY <3>1, <3>3, <4>1, <4>2
    <3>. QED
      BY <1>11, <3>2, <3>3
  <2>6. NothingSkipped'
    <3>1. SUFFICES ASSUME NEW j \in Partitions, NEW s \in Seqs
                   PROVE  /\ s <= processed_seq'[j] =>
                                 effects'[j][s] >= 1 \/ dead_letters'[j][s] = 1
                          /\ s > processed_seq'[j] => dead_letters'[j][s] = 0
                          /\ dead_letters'[j][s] <= 1
      BY DEF NothingSkipped
    <3>2. CASE j # k
      <4>1. /\ effects'[j] = effects[j] /\ dead_letters'[j] = dead_letters[j]
            /\ processed_seq'[j] = processed_seq[j]
        BY <1>5, <2>3, <2>5, <3>2, Zenon
      <4>. QED
        BY <1>9, <4>1
    <3>3. CASE j = k
      <4>1. /\ effects'[k][s] = effects[k][s] + e(s)
            /\ dead_letters'[k][s] = dead_letters[k][s]
                   + (IF result[w] = "Reject" THEN d(s) ELSE 0)
        BY <1>5, <2>5
      <4>2. CASE s <= processed_seq[k]
        BY <1>4, <1>6, <1>8, <1>9, <2>3, <3>3, <4>1, <4>2
      <4>3. CASE s > processed_seq[k] /\ s <= processed_seq[k] + count[w]
        <5>1. /\ d(s) = 1 /\ dead_letters[k][s] = 0 /\ effects[k][s] \in Nat
              /\ e(s) \in {0, 1} /\ (result[w] = "Success" => e(s) = 1)
          BY <1>8, <1>9, <4>3
        <5>2. ~(s > processed_seq'[k])
          BY <1>4, <1>6, <2>3, <4>3
        <5>. QED
          BY <1>11, <3>3, <4>1, <5>1, <5>2
      <4>4. CASE s > processed_seq[k] + count[w]
        <5>1. d(s) = 0 /\ dead_letters[k][s] = 0
          BY <1>4, <1>6, <1>8, <1>9, <4>4
        <5>2. ~(s <= processed_seq'[k])
          BY <1>4, <1>6, <2>3, <4>4
        <5>. QED
          BY <3>3, <4>1, <5>1, <5>2
      <4>. QED
        BY <1>4, <1>6, <4>2, <4>3, <4>4
    <3>. QED
      BY <3>2, <3>3
  <2>7. RepeatedOnlyByRetry'
    <3>1. SUFFICES ASSUME NEW j \in Partitions, NEW s \in Seqs
                   PROVE  effects'[j][s] <= retried[j]
                              + (IF s <= processed_seq'[j] THEN 1 ELSE 0)
      BY <2>1 DEF RepeatedOnlyByRetry
    <3>2. CASE j # k
      BY <1>5, <1>9, <2>3, <3>2
    <3>3. CASE j = k
      BY <1>4, <1>5, <1>6, <1>8, <1>9, <2>3, <3>3
    <3>. QED
      BY <3>2, <3>3
  <2>8. \A j \in Partitions : \A s \in Seqs : s <= processed_seq[j] =>
            effects'[j][s] = effects[j][s] /\ dead_letters'[j][s] = dead_letters[j][s]
    <3>1. SUFFICES ASSUME NEW j \in Partitions, NEW s \in Seqs, s <= processed_seq[j]
                   PROVE  /\ effects'[j][s] = effects[j][s]
                          /\ dead_letters'[j][s] = dead_letters[j][s]
      OBVIOUS
    <3>2. CASE j # k
      BY <1>5, <2>5, <3>2, Zenon
    <3>3. CASE j = k
      <4>1. e(s) = 0 /\ d(s) = 0 /\ effects[k][s] \in Nat /\ dead_letters[k][s] \in Nat
        BY <1>8, <1>9, <3>1, <3>3
      <4>2. /\ effects'[k][s] = effects[k][s] + e(s)
            /\ dead_letters'[k][s]
                   = dead_letters[k][s] + (IF result[w] = "Reject" THEN d(s) ELSE 0)
        BY <1>5, <2>5, Zenon
      <4>. QED
        BY <3>3, <4>1, <4>2
    <3>. QED
      BY <3>2, <3>3
  <2>9. processed_seq'[k] >= processed_seq[k]
    BY <1>4, <2>3
  <2>. QED
    BY <1>5, <2>2, <2>3, <2>4, <2>5, <2>6, <2>7, <2>8, <2>9
<1>. QED
  BY <1>1, <1>2, <1>10, <1>11 DEF PassOK, Results

\* The type invariant is inductive.
LEMMA TypeStep == Inv /\ [Next]_vars => TypeOK'
<1>0. SUFFICES ASSUME Inv, [Next]_vars PROVE TypeOK'
  OBVIOUS
<1>1. CountersOK /\ PassOK
  BY <1>0 DEF Inv, TypeOK
<1>2. CASE UNCHANGED vars
  BY <1>1, <1>2 DEF vars, dbVars, passVars, modeVars, TypeOK, CountersOK, PassOK
<1>3. ASSUME NEW k \in Partitions, Sequence(k) PROVE TypeOK'
  <2>1. outgoing' \in [Partitions -> 0..MaxMsgs]
    BY Limits, <1>1, <1>3 DEF Sequence, CountersOK
  <2>. QED
    BY <1>1, <1>3, <2>1
    DEF Sequence, TypeOK, CountersOK, PassOK, dbVars, passVars, modeVars
<1>4. ASSUME NEW p \in Processes, NEW k \in Partitions,
             Step(p, k) \/ CommitAnswerLost(p, k) \/ PassFails(p, k)
      PROVE  TypeOK'
  <2>. DEFINE w == <<p, k>>
  <2>1. w \in Workers /\ w[1] = p /\ w[2] = k
    BY DEF Workers
  <2>. HIDE DEF w
  <2>2. CASE Begin(p, k)
    <3>1. /\ Readable(w) \in 0..BatchSize
          /\ processed_seq[k] \in 0..MaxMsgs
      <4>1. size[w] \in 1..BatchSize /\ processed_seq[k] \in 0..MaxMsgs
            /\ outgoing[k] \in 0..MaxMsgs
        BY <1>1, <2>1 DEF CountersOK, PassOK
      <4>2. Readable(w) > 0 /\ Readable(w) = Least(size[w], outgoing[k] - processed_seq[k])
        BY <2>1, <2>2 DEF Begin, Readable, w
      <4>. QED
        BY <4>1, <4>2, TuningAssumption, Limits DEF Least
    <3>2. /\ row_lock' \in [Partitions -> Processes \cup {None}]
          /\ wpc' \in [Workers -> {"idle", "handling", "returned", "counted"}]
          /\ base' \in [Workers -> 0..MaxMsgs]
          /\ count' \in [Workers -> 0..BatchSize]
          /\ handled' \in [Workers -> 0..BatchSize]
          /\ processed' \in [Processes -> Nat]
      BY <1>1, <2>1, <2>2, <3>1, TuningAssumption DEF Begin, w, PassOK, CountersOK
    <3>. QED
      BY <1>1, <2>2, <3>2 DEF Begin, TypeOK, CountersOK, PassOK, dbVars, modeVars
  <2>3. CASE HandleOk(p, k)
    <3>1. count[w] \in 0..BatchSize /\ handled[w] \in 0..BatchSize
      BY <1>1, <2>1 DEF PassOK
    <3>2. handled' \in [Workers -> 0..BatchSize] /\ processed' \in [Processes -> Nat]
      BY <1>1, <2>1, <2>3, <3>1, TuningAssumption DEF HandleOk, w, PassOK, CountersOK
    <3>. QED
      BY <1>1, <2>3, <3>2 DEF HandleOk, TypeOK, CountersOK, PassOK, dbVars, modeVars
  <2>4. ASSUME NEW r \in Results, Return(p, k, r), faults' \in 0..MaxFaults
        PROVE  TypeOK'
    <3>1. /\ wpc' \in [Workers -> {"idle", "handling", "returned", "counted"}]
          /\ result' \in [Workers -> Results]
      BY <1>1, <2>1, <2>4 DEF Return, w, PassOK
    <3>. QED
      BY <1>1, <2>4, <3>1 DEF Return, TypeOK, CountersOK, PassOK, dbVars, modeVars
  <2>5. CASE ReturnSuccess(p, k) \/ ReturnRetry(p, k) \/ ReturnReject(p, k)
    <3>1. faults' \in 0..MaxFaults
      BY Limits, <1>1, <2>5 DEF ReturnSuccess, ReturnRetry, ReturnReject, Fault, CountersOK
    <3>. QED
      BY <2>4, <2>5, <3>1 DEF ReturnSuccess, ReturnRetry, ReturnReject, Results
  <2>6. CASE ReadCount(p, k)
    <3>1. processed[p] \in Nat /\ count[w] \in 0..BatchSize
      BY <1>1, <2>1 DEF CountersOK, PassOK
    <3>2. Least(processed[p], count[w]) \in 0..BatchSize
      BY <3>1, TuningAssumption DEF Least
    <3>3. /\ wpc' \in [Workers -> {"idle", "handling", "returned", "counted"}]
          /\ reported' \in [Workers -> 0..BatchSize]
      BY <1>1, <2>1, <2>6, <3>2 DEF ReadCount, w, PassOK
    <3>. QED
      BY <1>1, <2>6, <3>3 DEF ReadCount, TypeOK, CountersOK, PassOK, dbVars, modeVars
  <2>7. ASSUME EndPass(p, k)
        PROVE  /\ wpc' \in [Workers -> {"idle", "handling", "returned", "counted"}]
               /\ row_lock' \in [Partitions -> Processes \cup {None}]
    BY <1>1, <2>1, <2>7 DEF EndPass, w, PassOK
  <2>8. CASE PassFails(p, k)
    <3>1. faults' \in 0..MaxFaults
      <4>1. Fault /\ faults \in 0..MaxFaults
        BY <1>1, <2>8 DEF PassFails, CountersOK
      <4>. QED
        BY <4>1, Limits DEF Fault
    <3>. QED
      BY <1>1, <2>7, <2>8, <3>1
      DEF PassFails, EndPass, TypeOK, CountersOK, PassOK, dbVars, modeVars
  <2>9. ASSUME wpc[<<p, k>>] = "counted", Ack(<<p, k>>), EndPass(p, k),
               faults' \in 0..MaxFaults
        PROVE  CountersOK'
    <3>1. /\ processed_seq' \in [Partitions -> 0..MaxMsgs]
          /\ attempts' \in [Partitions -> Nat]
          /\ counter' \in [Partitions -> Nat]
          /\ effects' \in [Partitions -> [Seqs -> Nat]]
          /\ dead_letters' \in [Partitions -> [Seqs -> Nat]]
          /\ retried' \in [Partitions -> Nat]
      BY <1>0, <2>9, AckPreserves
    <3>. QED
      BY <1>1, <2>9, <3>1 DEF EndPass, CountersOK
  <2>10. CASE CommitAnswerLost(p, k)
    <3>1. faults' \in 0..MaxFaults
      BY Limits, <1>1, <2>10 DEF CommitAnswerLost, Fault, CountersOK
    <3>2. CountersOK'
      BY <2>9, <2>10, <3>1 DEF CommitAnswerLost
    <3>. QED
      BY <1>1, <2>7, <2>10, <3>2 DEF CommitAnswerLost, EndPass, TypeOK, PassOK, modeVars
  <2>11. CASE Commit(p, k)
    <3>1. faults' \in 0..MaxFaults
      BY Limits, <1>1, <2>11 DEF Commit, CountersOK
    <3>2. CountersOK'
      BY <2>9, <2>11, <3>1 DEF Commit
    <3>3. /\ size[w] \in 1..BatchSize /\ failures[w] \in Nat
          /\ reported[w] \in 0..BatchSize /\ result[w] \in Results
      BY <1>1, <2>1 DEF PassOK
    <3>4. DegradeTo(w) \in 1..BatchSize
      BY <3>3, TuningAssumption DEF DegradeTo, AtLeastOne
    <3>5. NextSize(w) \in 1..BatchSize /\ NextFailures(w) \in Nat
      <4>1. NextFailures(w) \in Nat
        BY <3>3 DEF NextFailures
      <4>2. Least(2 * size[w], BatchSize) \in 1..BatchSize
        BY <3>3, TuningAssumption DEF Least
      <4>3. CASE result[w] = "Success"
        BY <4>1, <4>2, <4>3 DEF NextSize
      <4>4. CASE result[w] = "Retry"
        BY <3>3, <3>4, <4>1, <4>4 DEF NextSize
      <4>5. CASE result[w] = "Reject"
        BY <3>4, <4>1, <4>5 DEF NextSize
      <4>. QED
        BY <3>3, <4>3, <4>4, <4>5 DEF Results
    <3>6. size' \in [Workers -> 1..BatchSize] /\ failures' \in [Workers -> Nat]
      BY <1>1, <2>1, <2>11, <3>5 DEF Commit, Transition, PassOK, w
    <3>. QED
      BY <1>1, <2>7, <2>11, <3>2, <3>6 DEF Commit, EndPass, TypeOK, PassOK
  <2>. QED
    BY <1>4, <2>2, <2>3, <2>5, <2>6, <2>8, <2>10, <2>11 DEF Step
<1>5. ASSUME NEW p \in Processes, Crash(p) PROVE TypeOK'
  <2>1. faults' \in 0..MaxFaults
    <3>1. Fault /\ faults \in 0..MaxFaults
      BY <1>1, <1>5 DEF Crash, CountersOK
    <3>. QED
      BY <3>1, Limits DEF Fault
  <2>2. /\ row_lock' \in [Partitions -> Processes \cup {None}]
        /\ processed' \in [Processes -> Nat]
        /\ wpc' \in [Workers -> {"idle", "handling", "returned", "counted"}]
    BY <1>1, <1>5 DEF Crash, PassOK, CountersOK
  <2>3. /\ size' \in [Workers -> 1..BatchSize]
        /\ failures' \in [Workers -> Nat]
    BY <1>1, <1>5, TuningAssumption DEF Crash, PassOK
  <2>. QED
    BY <1>1, <1>5, <2>1, <2>2, <2>3 DEF Crash, TypeOK, CountersOK, PassOK, dbVars
<1>. QED
  BY <1>0, <1>2, <1>3, <1>4, <1>5 DEF Next

\* What an open pass knows survives every step: only the holder of the row lock
\* moves the cursor, and it ends its pass with the same step.
LEMMA FenceStep ==
    Inv /\ [Next]_vars => PassIsFenced' /\ SuccessIsComplete' /\ CursorIsSequenced'
<1>0. SUFFICES ASSUME Inv, [Next]_vars
               PROVE  PassIsFenced' /\ SuccessIsComplete' /\ CursorIsSequenced'
  OBVIOUS
<1>1. /\ CountersOK /\ PassOK
      /\ PassIsFenced /\ SuccessIsComplete /\ CursorIsSequenced
  BY <1>0 DEF Inv, TypeOK
<1>2. \A v \in Workers : /\ v[1] \in Processes /\ v[2] \in Partitions
                         /\ v = <<v[1], v[2]>>
  BY DEF Workers
<1>3. CASE UNCHANGED vars
  BY <1>1, <1>3 DEF vars, dbVars, passVars, PassIsFenced, SuccessIsComplete, CursorIsSequenced
<1>4. ASSUME NEW k \in Partitions, Sequence(k)
      PROVE  PassIsFenced' /\ SuccessIsComplete' /\ CursorIsSequenced'
  <2>1. /\ \A j \in Partitions : outgoing'[j] >= outgoing[j] /\ outgoing'[j] \in Nat
                                 /\ outgoing[j] \in Nat /\ processed_seq[j] \in Nat
        /\ \A v \in Workers : base[v] \in Nat /\ count[v] \in Nat
    <3>1. \A j \in Partitions : outgoing[j] \in Nat /\ processed_seq[j] \in Nat
      BY <1>1, Limits DEF CountersOK
    <3>2. \A v \in Workers : base[v] \in Nat /\ count[v] \in Nat
      BY <1>1, Limits, TuningAssumption DEF PassOK
    <3>3. outgoing' = [outgoing EXCEPT ![k] = @ + 1] /\ outgoing \in [Partitions -> 0..MaxMsgs]
      BY <1>1, <1>4 DEF Sequence, CountersOK
    <3>. QED
      BY <3>1, <3>2, <3>3
  <2>2. PassIsFenced'
    BY <1>1, <1>2, <1>4, <2>1 DEF Sequence, PassIsFenced, dbVars, passVars
  <2>3. SuccessIsComplete'
    BY <1>1, <1>4 DEF Sequence, SuccessIsComplete, passVars
  <2>4. CursorIsSequenced'
    BY <1>1, <1>4, <2>1 DEF Sequence, CursorIsSequenced, dbVars
  <2>. QED
    BY <2>2, <2>3, <2>4
<1>5. ASSUME NEW p \in Processes, NEW k \in Partitions,
             Step(p, k) \/ CommitAnswerLost(p, k) \/ PassFails(p, k)
      PROVE  PassIsFenced' /\ SuccessIsComplete' /\ CursorIsSequenced'
  <2>. DEFINE w == <<p, k>>
  <2>1. w \in Workers /\ w[1] = p /\ w[2] = k
    BY DEF Workers
  <2>2. /\ \A j \in Partitions : outgoing[j] \in Nat /\ processed_seq[j] \in Nat
        /\ \A v \in Workers : base[v] \in Nat /\ count[v] \in Nat /\ handled[v] \in Nat
    <3>1. \A j \in Partitions : outgoing[j] \in Nat /\ processed_seq[j] \in Nat
      BY <1>1, Limits DEF CountersOK
    <3>2. \A v \in Workers : base[v] \in Nat /\ count[v] \in Nat /\ handled[v] \in Nat
      BY <1>1, Limits, TuningAssumption DEF PassOK
    <3>. QED
      BY <3>1, <3>2
  \* Two workers inside a pass of the same partition are the same worker.
  <2>3. \A v \in Workers : wpc[v] # "idle" /\ wpc[w] # "idle" /\ v[2] = k => v = w
    BY <1>1, <1>2, <2>1 DEF PassIsFenced
  <2>. HIDE DEF w
  <2>4. CASE Begin(p, k)
    <3>1. /\ row_lock[k] = None /\ Readable(w) > 0 /\ outgoing' = outgoing
          /\ processed_seq' = processed_seq /\ result' = result
          /\ row_lock' = [row_lock EXCEPT ![k] = p]
          /\ wpc' = [wpc EXCEPT ![w] = "handling"]
          /\ base' = [base EXCEPT ![w] = processed_seq[k]]
          /\ count' = [count EXCEPT ![w] = Readable(w)]
          /\ handled' = [handled EXCEPT ![w] = 0]
      BY <2>4 DEF Begin, RowFree, dbVars, w
    <3>2. \A v \in Workers : v[2] = k => wpc[v] = "idle"
      BY <1>1, <1>2, <3>1, NobodyAssumption DEF PassIsFenced
    <3>3. Readable(w) \in Nat /\ processed_seq[k] + Readable(w) <= outgoing[k]
      <4>1. /\ size[w] \in 1..BatchSize
            /\ Readable(w) = Least(size[w], outgoing[k] - processed_seq[k])
        BY <1>1, <2>1 DEF PassOK, Readable
      <4>. QED
        BY <2>2, <3>1, <4>1, TuningAssumption DEF Least
    <3>4. ASSUME NEW v \in Workers, wpc'[v] # "idle"
          PROVE  /\ row_lock'[v[2]] = v[1]
                 /\ base'[v] = processed_seq'[v[2]]
                 /\ handled'[v] <= count'[v]
                 /\ base'[v] + count'[v] <= outgoing'[v[2]]
                 /\ wpc'[v] \in {"returned", "counted"} /\ result'[v] = "Success"
                        => handled'[v] = count'[v]
      <4>1. CASE v = w
        BY <1>1, <2>1, <3>1, <3>3, <4>1 DEF PassOK
      <4>2. CASE v # w
        <5>1. wpc'[v] = wpc[v] /\ v[2] # k
          BY <1>1, <2>1, <3>1, <3>2, <3>4, <4>2 DEF PassOK
        <5>2. /\ base'[v] = base[v] /\ count'[v] = count[v] /\ handled'[v] = handled[v]
              /\ row_lock'[v[2]] = row_lock[v[2]]
          BY <1>1, <1>2, <3>1, <4>2, <5>1 DEF PassOK
        <5>. QED
          BY <1>1, <3>1, <3>4, <5>1, <5>2 DEF PassIsFenced, SuccessIsComplete
      <4>. QED
        BY <4>1, <4>2
    <3>. QED
      BY <1>1, <3>1, <3>4 DEF PassIsFenced, SuccessIsComplete, CursorIsSequenced
  \* Steps inside a pass: the handler goes on, returns, or is asked for its count.
  <2>5. CASE HandleOk(p, k)
    <3>1. /\ wpc[w] = "handling" /\ handled[w] < count[w]
          /\ handled' = [handled EXCEPT ![w] = handled[w] + 1]
          /\ UNCHANGED <<outgoing, processed_seq, row_lock, wpc, base, count, result>>
      BY <2>5 DEF HandleOk, dbVars, w
    <3>2. /\ handled'[w] = handled[w] + 1
          /\ \A v \in Workers : v # w => handled'[v] = handled[v]
      BY <1>1, <2>1, <3>1 DEF PassOK
    <3>3. PassIsFenced'
      BY <1>1, <2>1, <2>2, <3>1, <3>2 DEF PassIsFenced
    <3>4. SuccessIsComplete'
      BY <1>1, <2>1, <3>1, <3>2 DEF SuccessIsComplete
    <3>. QED
      BY <1>1, <3>1, <3>3, <3>4 DEF CursorIsSequenced
  <2>6. CASE ReturnSuccess(p, k) \/ ReturnRetry(p, k) \/ ReturnReject(p, k)
    <3>1. PICK r \in Results :
              /\ wpc[w] = "handling"
              /\ wpc' = [wpc EXCEPT ![w] = "returned"]
              /\ result' = [result EXCEPT ![w] = r]
              /\ r = "Success" => handled[w] = count[w]
              /\ UNCHANGED <<outgoing, processed_seq, row_lock, base, count, handled>>
      BY <2>6 DEF ReturnSuccess, ReturnRetry, ReturnReject, Return, Results, dbVars, w
    <3>2. /\ wpc'[w] = "returned" /\ result'[w] = r
          /\ \A v \in Workers : v # w => wpc'[v] = wpc[v] /\ result'[v] = result[v]
      BY <1>1, <2>1, <3>1 DEF PassOK
    <3>3. PassIsFenced'
      BY <1>1, <2>1, <3>1, <3>2 DEF PassIsFenced
    <3>4. SuccessIsComplete'
      BY <1>1, <2>1, <3>1, <3>2 DEF SuccessIsComplete
    <3>. QED
      BY <1>1, <3>1, <3>3, <3>4 DEF CursorIsSequenced
  <2>7. CASE ReadCount(p, k)
    <3>1. /\ wpc[w] = "returned"
          /\ wpc' = [wpc EXCEPT ![w] = "counted"]
          /\ UNCHANGED <<outgoing, processed_seq, row_lock, base, count, handled, result>>
      BY <2>7 DEF ReadCount, dbVars, w
    <3>2. /\ wpc'[w] = "counted"
          /\ \A v \in Workers : v # w => wpc'[v] = wpc[v]
      BY <1>1, <2>1, <3>1 DEF PassOK
    <3>3. PassIsFenced'
      BY <1>1, <2>1, <3>1, <3>2 DEF PassIsFenced
    <3>4. SuccessIsComplete'
      BY <1>1, <2>1, <3>1, <3>2 DEF SuccessIsComplete
    <3>. QED
      BY <1>1, <3>1, <3>3, <3>4 DEF CursorIsSequenced
  \* The pass ends; every other pass is on another partition.
  <2>8. ASSUME wpc[w] # "idle", EndPass(p, k),
               \A j \in Partitions : j # k => processed_seq'[j] = processed_seq[j]
        PROVE  PassIsFenced' /\ SuccessIsComplete'
    <3>1. /\ wpc' = [wpc EXCEPT ![w] = "idle"]
          /\ row_lock' = [row_lock EXCEPT ![k] = None]
          /\ UNCHANGED <<outgoing, base, count, handled, result>>
      BY <2>8 DEF EndPass, w
    <3>2. ASSUME NEW v \in Workers, wpc'[v] # "idle"
          PROVE  /\ wpc'[v] = wpc[v] /\ v[2] # k
                 /\ row_lock'[v[2]] = row_lock[v[2]]
                 /\ processed_seq'[v[2]] = processed_seq[v[2]]
      <4>1. v # w /\ wpc'[v] = wpc[v]
        BY <1>1, <2>1, <3>1, <3>2 DEF PassOK
      <4>2. v[2] # k
        BY <2>3, <2>8, <3>2, <4>1
      <4>. QED
        BY <1>1, <1>2, <2>8, <3>1, <4>1, <4>2 DEF PassOK
    <3>3. PassIsFenced'
      BY <1>1, <3>1, <3>2 DEF PassIsFenced
    <3>4. SuccessIsComplete'
      BY <1>1, <3>1, <3>2 DEF SuccessIsComplete
    <3>. QED
      BY <3>3, <3>4
  <2>9. CASE PassFails(p, k)
    <3>1. /\ wpc[w] # "idle" /\ EndPass(p, k)
          /\ processed_seq' = processed_seq /\ outgoing' = outgoing
      BY <2>9 DEF PassFails, EndPass, dbVars, w
    <3>. QED
      BY <1>1, <2>8, <3>1 DEF CursorIsSequenced
  <2>10. CASE Commit(p, k) \/ CommitAnswerLost(p, k)
    <3>1. wpc[<<p, k>>] = "counted" /\ Ack(<<p, k>>) /\ EndPass(p, k)
      BY <2>10 DEF Commit, CommitAnswerLost
    <3>2. /\ \A j \in Partitions : j # k => processed_seq'[j] = processed_seq[j]
          /\ CursorIsSequenced'
      BY <1>0, <3>1, AckPreserves
    <3>3. wpc[w] # "idle"
      BY <3>1 DEF w
    <3>. QED
      BY <2>8, <3>1, <3>2, <3>3
  <2>. QED
    BY <1>5, <2>4, <2>5, <2>6, <2>7, <2>9, <2>10 DEF Step
<1>6. ASSUME NEW p \in Processes, Crash(p)
      PROVE  PassIsFenced' /\ SuccessIsComplete' /\ CursorIsSequenced'
  <2>1. /\ row_lock' = [k \in Partitions |-> IF row_lock[k] = p THEN None ELSE row_lock[k]]
        /\ wpc' = [v \in Workers |-> IF v[1] = p THEN "idle" ELSE wpc[v]]
        /\ UNCHANGED <<outgoing, processed_seq, base, count, handled, result>>
    BY <1>6 DEF Crash, dbVars
  <2>2. ASSUME NEW v \in Workers, wpc'[v] # "idle"
        PROVE  wpc'[v] = wpc[v] /\ row_lock'[v[2]] = row_lock[v[2]]
    <3>1. v[1] # p /\ wpc'[v] = wpc[v]
      BY <2>1, <2>2
    <3>2. row_lock[v[2]] = v[1]
      BY <1>1, <2>2, <3>1 DEF PassIsFenced
    <3>. QED
      BY <1>2, <2>1, <3>1, <3>2
  <2>3. PassIsFenced'
    BY <1>1, <2>1, <2>2 DEF PassIsFenced
  <2>4. SuccessIsComplete'
    BY <1>1, <2>1, <2>2 DEF SuccessIsComplete
  <2>. QED
    BY <1>1, <2>1, <2>3, <2>4 DEF CursorIsSequenced
<1>. QED
  BY <1>0, <1>3, <1>4, <1>5, <1>6 DEF Next

\* Only a committing pass changes what was handled or dead-lettered, and what it
\* changes lies ahead of the cursor.
LEMMA DatabaseStep ==
    Inv /\ [Next]_vars =>
        /\ NothingSkipped'
        /\ RepeatedOnlyByRetry'
        /\ \A k \in Partitions :
             /\ processed_seq'[k] >= processed_seq[k]
             /\ \A s \in Seqs : s <= processed_seq[k] =>
                    effects'[k][s] = effects[k][s] /\ dead_letters'[k][s] = dead_letters[k][s]
<1>0. SUFFICES ASSUME Inv, [Next]_vars
               PROVE  /\ NothingSkipped'
                      /\ RepeatedOnlyByRetry'
                      /\ \A k \in Partitions :
                           /\ processed_seq'[k] >= processed_seq[k]
                           /\ \A s \in Seqs : s <= processed_seq[k] =>
                                  /\ effects'[k][s] = effects[k][s]
                                  /\ dead_letters'[k][s] = dead_letters[k][s]
  OBVIOUS
<1>1. \A k \in Partitions : processed_seq[k] \in Nat
  BY <1>0 DEF Inv, TypeOK, CountersOK
<1>2. CASE UNCHANGED dbVars
  BY <1>0, <1>1, <1>2, DatabaseUnchanged DEF Inv, dbVars
<1>3. ASSUME NEW p \in Processes, NEW k \in Partitions,
             Commit(p, k) \/ CommitAnswerLost(p, k)
      PROVE  /\ NothingSkipped'
             /\ RepeatedOnlyByRetry'
             /\ \A j \in Partitions :
                  /\ processed_seq'[j] >= processed_seq[j]
                  /\ \A s \in Seqs : s <= processed_seq[j] =>
                         /\ effects'[j][s] = effects[j][s]
                         /\ dead_letters'[j][s] = dead_letters[j][s]
  <2>1. wpc[<<p, k>>] = "counted" /\ Ack(<<p, k>>) /\ EndPass(p, k)
    BY <1>3 DEF Commit, CommitAnswerLost
  <2>2. /\ NothingSkipped' /\ RepeatedOnlyByRetry'
        /\ \A j \in Partitions : j # k => processed_seq'[j] = processed_seq[j]
        /\ processed_seq'[k] >= processed_seq[k]
        /\ \A j \in Partitions : \A s \in Seqs : s <= processed_seq[j] =>
               effects'[j][s] = effects[j][s] /\ dead_letters'[j][s] = dead_letters[j][s]
    BY <1>0, <2>1, AckPreserves
  <2>. QED
    BY <1>1, <2>2
<1>4. ASSUME NEW k \in Partitions, Sequence(k) PROVE UNCHANGED dbVars
  BY <1>4 DEF Sequence
<1>5. ASSUME NEW p \in Processes, NEW k \in Partitions, Step(p, k), ~Commit(p, k)
      PROVE  UNCHANGED dbVars
  BY <1>5 DEF Step, Begin, HandleOk, ReturnSuccess, ReturnRetry, ReturnReject, Return,
              ReadCount
<1>6. ASSUME NEW p \in Processes, NEW k \in Partitions, PassFails(p, k)
      PROVE  UNCHANGED dbVars
  BY <1>6 DEF PassFails
<1>7. ASSUME NEW p \in Processes, Crash(p) PROVE UNCHANGED dbVars
  BY <1>7 DEF Crash
<1>8. CASE UNCHANGED vars
  BY <1>2, <1>8 DEF vars
<1>. QED
  BY <1>0, <1>2, <1>3, <1>4, <1>5, <1>6, <1>7, <1>8 DEF Next

\* The invariant holds in every reachable state.
THEOREM Invariance == Spec => []Inv
<1>1. Inv /\ [Next]_vars => Inv'
  BY TypeStep, FenceStep, DatabaseStep DEF Inv
<1>. QED
  BY InitInv, <1>1, PTL DEF Spec

\* Types, and a batch size that stays within 1..BatchSize, whatever the failures
\* degrade it to (PartitionMode::transition).
THEOREM TypeCorrect == Spec => []TypeOK
<1>1. Inv => TypeOK
  BY DEF Inv
<1>. QED
  BY Invariance, <1>1, PTL

\* No message is skipped or dead-lettered twice, for any number of processes,
\* partitions, messages and faults (strategy.rs, ack).
THEOREM NothingIsSkipped == Spec => []NothingSkipped
<1>1. Inv => NothingSkipped
  BY DEF Inv
<1>. QED
  BY Invariance, <1>1, PTL

\* The handler's writes are repeated only by committed Retry passes.
THEOREM WritesRepeatedOnlyByRetry == Spec => []RepeatedOnlyByRetry
<1>1. Inv => RepeatedOnlyByRetry
  BY DEF Inv
<1>. QED
  BY Invariance, <1>1, PTL

\* What the cursor has passed is never written for or dead-lettered again.
THEOREM SettledStaysSettled == Spec => SettledIsFinal
<1>1. Inv /\ [Next]_vars =>
        [\A k \in Partitions :
           /\ processed_seq'[k] >= processed_seq[k]
           /\ \A s \in Seqs : s <= processed_seq[k] =>
                  effects'[k][s] = effects[k][s]
                  /\ dead_letters'[k][s] = dead_letters[k][s]]_vars
  BY DatabaseStep
<1>. QED
  BY Invariance, <1>1, PTL DEF Spec, SettledIsFinal
=============================================================================
