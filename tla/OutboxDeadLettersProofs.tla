---------------------- MODULE OutboxDeadLettersProofs ----------------------
(***************************************************************************)
(* The lifecycle of dead letters and the exclusiveness of their claims for *)
(* any number of letters, callers, faults and ticks.  What a transaction   *)
(* has selected stays as it was because it holds the rows' locks, and a    *)
(* letter in time is its caller's because nobody else may select it.       *)
(***************************************************************************)
EXTENDS OutboxDeadLetters, TLAPS

\* A locked row is in the batch of an open transaction, and the other way round.
LocksMatch ==
    \A c \in Callers, l \in Letters :
        lock[l] = c <=> pc[c] \in {"replaying", "discarding"} /\ l \in batch[c]

\* What replay and discard have selected is still as they found it.
SelectionHolds ==
    \A c \in Callers :
        /\ since[c] <= now
        /\ \A l \in batch[c] :
              /\ pc[c] = "replaying" =>
                    status[l] = "pending" \/ (status[l] = "reprocessing" /\ deadline[l] < since[c])
              /\ pc[c] = "discarding" => status[l] = "pending"

\* A letter in time belongs to the caller that works on it.
InTimeIsOwned ==
    ~stolen =>
        \A c \in Callers : \A l \in InTime(c) :
            status[l] = "reprocessing" /\ deadline[l] = since[c] + Timeout /\ owner[l] = c

Inv == TypeOK /\ LocksMatch /\ SelectionHolds /\ InTimeIsOwned
-----------------------------------------------------------------------------
\* At first there is no letter and nobody works.
LEMMA InitInv == Init => Inv
<1>. SUFFICES ASSUME Init PROVE Inv
  OBVIOUS
<1>1. TypeOK
  <2>1. now \in Nat /\ faults \in 0..MaxFaults /\ attempts \in [Letters -> 0..AttemptsMax]
    BY DeadLetterAssumption DEF Init
  <2>2. stolen \in BOOLEAN
    BY DEF Init
  <2>. QED
    BY <2>1, <2>2 DEF Init, TypeOK
<1>2. LocksMatch
  BY DeadLetterAssumption DEF Init, LocksMatch
<1>3. SelectionHolds /\ InTimeIsOwned
  BY DEF Init, SelectionHolds, InTimeIsOwned, InTime
<1>. QED
  BY <1>1, <1>2, <1>3 DEF Inv

\* Rows that are nobody's business change nothing the invariant says of batches.
LEMMA InsertInv == ASSUME Inv, NEW l \in Letters, Insert(l) PROVE Inv'
<1>1. TypeOK' /\ LocksMatch'
  BY DEF Inv, Insert, TypeOK, LocksMatch, callerVars
<1>2. SelectionHolds'
  BY DEF Inv, Insert, TypeOK, SelectionHolds, callerVars
<1>3. InTimeIsOwned'
  BY DEF Inv, Insert, TypeOK, InTimeIsOwned, InTime, callerVars
<1>. QED
  BY <1>1, <1>2, <1>3 DEF Inv

\* A transaction locks only rows that are free.
LEMMA BeginInv ==
    ASSUME Inv, NEW c \in Callers, NEW S \in SUBSET Letters,
           NEW place \in {"replaying", "discarding"}, Begin(c, place, S),
           \A l \in S : RowFree(l),
           \A l \in S : IF place = "replaying" THEN Claimable(l) ELSE status[l] = "pending",
           UNCHANGED <<now, letterVars, unheard, faults, owner, stolen>>
    PROVE  Inv'
<1>1. TypeOK'
  BY DEF Inv, Begin, Lock, TypeOK, letterVars
<1>2. LocksMatch'
  BY DeadLetterAssumption DEF Inv, Begin, Lock, RowFree, TypeOK, LocksMatch
<1>3. SelectionHolds'
  BY DEF Inv, Begin, Claimable, TypeOK, SelectionHolds, letterVars
<1>4. InTimeIsOwned'
  BY DEF Inv, Begin, TypeOK, InTimeIsOwned, InTime, letterVars
<1>. QED
  BY <1>1, <1>2, <1>3, <1>4 DEF Inv

\* A replay begins with letters that are pending or past their deadline.
LEMMA ReplaySelectInv ==
    ASSUME Inv, NEW c \in Callers, NEW S \in SUBSET Letters, ReplaySelect(c, S) PROVE Inv'
<1> DEFINE T == FirstRows({l \in S : Claimable(l) /\ RowFree(l)})
<1>1. T \in SUBSET Letters /\ \A l \in T : Claimable(l) /\ RowFree(l)
  BY DEF FirstRows
<1>2. Begin(c, "replaying", T) /\ UNCHANGED <<now, letterVars, unheard, faults, owner, stolen>>
  BY DEF ReplaySelect
<1>. HIDE DEF T
<1>. QED
  BY <1>1, <1>2, BeginInv

\* A discard begins in the same way, with pending letters.
LEMMA DiscardSelectInv ==
    ASSUME Inv, NEW c \in Callers, NEW S \in SUBSET Letters, DiscardSelect(c, S) PROVE Inv'
  BY BeginInv DEF DiscardSelect

\* A claim takes only letters that are nobody's in time.
LEMMA ReplayCommitsInv == ASSUME Inv, NEW c \in Callers, ReplayCommits(c) PROVE Inv'
<1>1. TypeOK'
  <2>1. /\ status' \in [Letters -> {"none", "pending", "reprocessing", "resolved", "discarded", "deleted"}]
        /\ lock' \in [Letters -> Callers \cup {None}]
    BY DEF Inv, ReplayCommits, Unlock, TypeOK
  <2>2. deadline' \in [Letters -> Nat \cup {None}]
    BY DeadLetterAssumption DEF Inv, ReplayCommits, TypeOK
  <2>3. /\ pc' \in [Callers -> {"idle", "replaying", "discarding", "working"}]
        /\ since' \in [Callers -> Nat] /\ batch' \in [Callers -> SUBSET Letters]
        /\ unheard' \in [Callers -> SUBSET Letters]
        /\ owner' \in [Letters -> Callers \cup {None}]
    BY DEF Inv, ReplayCommits, Forget, TypeOK
  <2>4. faults' \in 0..MaxFaults
    BY DeadLetterAssumption DEF Inv, ReplayCommits, Fault, TypeOK
  <2>. QED
    BY <2>1, <2>2, <2>3, <2>4 DEF Inv, ReplayCommits, TypeOK
<1>2. \A d \in Callers \ {c} :
         pc'[d] = pc[d] /\ since'[d] = since[d] /\ batch'[d] = batch[d]
  BY DEF Inv, ReplayCommits, Forget, TypeOK
<1>3. pc'[c] \in {"idle", "working"}
  BY DEF Inv, ReplayCommits, Forget, TypeOK
<1>4. \A l \in Letters : lock'[l] = IF lock[l] = c THEN None ELSE lock[l]
  BY DEF ReplayCommits, Unlock
<1>5. LocksMatch'
  BY <1>2, <1>3, <1>4, DeadLetterAssumption DEF Inv, LocksMatch, TypeOK
<1>6. \A d \in Callers \ {c} : pc[d] \in {"replaying", "discarding"} => batch[d] \cap batch[c] = {}
  BY DEF Inv, LocksMatch, ReplayCommits, TypeOK
<1>7. SelectionHolds'
  <2>1. since'[c] <= now
    BY DEF Inv, ReplayCommits, Forget, SelectionHolds, TypeOK
  <2>. QED
    BY <1>2, <1>3, <1>6, <2>1 DEF Inv, SelectionHolds, ReplayCommits, TypeOK
<1>8. InTimeIsOwned'
  <2>1. ASSUME ~stolen, NEW d \in Callers \ {c}, NEW l \in InTime(d) PROVE l \notin batch[c]
    BY <2>1, DeadLetterAssumption DEF Inv, InTimeIsOwned, SelectionHolds, ReplayCommits, InTime, TypeOK
  <2>2. ASSUME NEW d \in Callers \ {c} PROVE InTime(d)' = InTime(d)
    BY <1>2, <2>2 DEF InTime, ReplayCommits
  <2>3. ASSUME ~stolen, NEW d \in Callers \ {c}, NEW l \in InTime(d)
        PROVE  status'[l] = status[l] /\ deadline'[l] = deadline[l] /\ owner'[l] = owner[l]
    BY <2>1, <2>3 DEF ReplayCommits, Inv, InTime, TypeOK
  <2>4. ASSUME NEW l \in InTime(c)'
        PROVE  status'[l] = "reprocessing" /\ deadline'[l] = since'[c] + Timeout /\ owner'[l] = c
    BY <2>4 DEF InTime, ReplayCommits, Forget, Inv, TypeOK
  <2>5. stolen' = stolen /\ \A d \in Callers \ {c} : since'[d] = since[d]
    BY <1>2 DEF ReplayCommits
  <2>. QED
    BY <2>2, <2>3, <2>4, <2>5 DEF Inv, InTimeIsOwned
<1>. QED
  BY <1>1, <1>5, <1>7, <1>8 DEF Inv

\* An answer changes reprocessing rows that nobody has locked; when it is its
\* caller's letter, the letter leaves the batch, and otherwise it is stolen.
LEMMA AnswerInv ==
    ASSUME Inv, NEW c \in Callers, NEW ids \in SUBSET Letters,
           AnswersFor(c, ids), Settle(c, ids), Heard(c, ids),
           \A l \in Letters : ~(l \in ids /\ Answerable(l)) => status'[l] = status[l],
           UNCHANGED <<now, lock, since>>,
           status' \in [Letters -> {"none", "pending", "reprocessing", "resolved", "discarded", "deleted"}],
           attempts' \in [Letters -> 0..AttemptsMax]
    PROVE  Inv'
<1>1. TypeOK'
  <2>1. deadline' \in [Letters -> Nat \cup {None}] /\ owner' \in [Letters -> Callers \cup {None}]
    BY DEF Inv, Settle, TypeOK
  <2>2. stolen' \in BOOLEAN
    BY DEF Settle
  <2>3. /\ pc' \in [Callers -> {"idle", "replaying", "discarding", "working"}]
        /\ batch' \in [Callers -> SUBSET Letters]
    BY DEF Inv, Heard, TypeOK
  <2>4. unheard' \in [Callers -> SUBSET Letters]
    BY DEF Inv, Heard, TypeOK
  <2>5. faults' \in 0..MaxFaults
    BY DeadLetterAssumption DEF Inv, Heard, Fault, TypeOK
  <2>. QED
    BY <2>1, <2>2, <2>3, <2>4, <2>5 DEF Inv, TypeOK
<1>2. /\ pc'[c] \in {"idle", "working"} /\ pc[c] = "working" /\ batch'[c] = batch[c] \ ids
      /\ \A d \in Callers \ {c} : pc'[d] = pc[d] /\ batch'[d] = batch[d]
  BY DEF Inv, AnswersFor, Heard, TypeOK
<1>3. LocksMatch'
  BY <1>2 DEF Inv, LocksMatch
<1>4. ASSUME NEW d \in Callers, pc[d] \in {"replaying", "discarding"}, NEW l \in batch[d]
      PROVE  l \notin ids
  <2>1. l \in Letters
    BY <1>4 DEF Inv, TypeOK
  <2>2. lock[l] = d
    BY <1>4, <2>1 DEF Inv, LocksMatch
  <2>. QED
    BY <1>4, <2>2, DeadLetterAssumption DEF AnswersFor
<1>5. \A l \in Letters \ ids : deadline'[l] = deadline[l] /\ owner'[l] = owner[l] /\ status'[l] = status[l]
  BY DEF Settle
<1>6. SelectionHolds'
  BY <1>2, <1>4, <1>5 DEF Inv, SelectionHolds, TypeOK
<1>7. InTimeIsOwned'
  <2>1. SUFFICES ASSUME ~stolen', NEW d \in Callers, NEW l \in InTime(d)'
                 PROVE  status'[l] = "reprocessing" /\ deadline'[l] = since'[d] + Timeout /\ owner'[l] = d
    BY DEF InTimeIsOwned
  <2>2. ~stolen
    BY <2>1 DEF Settle
  <2>3. l \in InTime(d) /\ l \in Letters
    BY <1>2, <2>1 DEF InTime, Inv, TypeOK
  <2>4. status[l] = "reprocessing" /\ deadline[l] = since[d] + Timeout /\ owner[l] = d
    BY <2>2, <2>3 DEF Inv, InTimeIsOwned
  <2>5. l \notin ids
    <3>1. CASE d = c
      BY <1>2, <2>1, <3>1 DEF InTime
    <3>2. CASE d # c
      BY <2>1, <2>4, <3>2 DEF Settle, Answerable
    <3>. QED
      BY <3>1, <3>2
  <2>. QED
    BY <1>5, <2>3, <2>4, <2>5
<1>. QED
  BY <1>1, <1>3, <1>6, <1>7 DEF Inv

\* Resolve is an answer that settles the letter.
LEMMA ResolveInv ==
    ASSUME Inv, NEW c \in Callers, NEW ids \in SUBSET Letters, Resolve(c, ids) PROVE Inv'
<1>1. status' \in [Letters -> {"none", "pending", "reprocessing", "resolved", "discarded", "deleted"}]
  BY DEF Inv, Resolve, TypeOK
<1>2. attempts' \in [Letters -> 0..AttemptsMax]
  BY DEF Inv, Resolve, TypeOK
<1>3. \A l \in Letters : ~(l \in ids /\ Answerable(l)) => status'[l] = status[l]
  BY DEF Resolve
<1>. QED
  BY <1>1, <1>2, <1>3, AnswerInv DEF Resolve

\* Reject is an answer that puts the letter back or gives it up.
LEMMA RejectInv ==
    ASSUME Inv, NEW c \in Callers, NEW ids \in SUBSET Letters, Reject(c, ids) PROVE Inv'
<1>1. status' \in [Letters -> {"none", "pending", "reprocessing", "resolved", "discarded", "deleted"}]
  BY DEF Inv, Reject, TypeOK
<1>2. attempts' \in [Letters -> 0..AttemptsMax]
  BY DeadLetterAssumption DEF Inv, Reject, Fits, TypeOK
<1>3. \A l \in Letters : ~(l \in ids /\ Answerable(l)) => status'[l] = status[l]
  BY DEF Reject
<1>. QED
  BY <1>1, <1>2, <1>3, AnswerInv DEF Reject

\* A transaction that ends forgets its batch and its locks.
LEMMA EndInv ==
    ASSUME Inv, NEW c \in Callers, pc[c] \in {"replaying", "discarding"}, Unlock(c), Forget(c),
           \A l \in Letters \ batch[c] : status'[l] = status[l],
           pc[c] = "replaying" => status' = status,
           status' \in [Letters -> {"none", "pending", "reprocessing", "resolved", "discarded", "deleted"}],
           faults' \in 0..MaxFaults,
           UNCHANGED <<now, attempts, deadline, owner, stolen>>
    PROVE  Inv'
<1>1. TypeOK'
  BY DEF Inv, TypeOK, Unlock, Forget
<1>2. /\ pc'[c] = "idle" /\ batch'[c] = {} /\ since'[c] = 0
      /\ \A d \in Callers \ {c} : pc'[d] = pc[d] /\ batch'[d] = batch[d] /\ since'[d] = since[d]
  BY DEF Inv, TypeOK, Forget
<1>3. LocksMatch'
  <2>1. \A l \in Letters : lock'[l] = IF lock[l] = c THEN None ELSE lock[l]
    BY DEF Unlock
  <2>. QED
    BY <1>2, <2>1, DeadLetterAssumption DEF Inv, LocksMatch
<1>4. SelectionHolds'
  <2>1. ASSUME NEW d \in Callers \ {c}, pc[d] \in {"replaying", "discarding"}, NEW l \in batch[d]
        PROVE  l \in Letters \ batch[c]
    BY <2>1 DEF Inv, LocksMatch, TypeOK
  <2>. QED
    BY <1>2, <2>1 DEF Inv, SelectionHolds, TypeOK
<1>5. InTimeIsOwned'
  <2>1. SUFFICES ASSUME ~stolen, NEW d \in Callers, NEW l \in InTime(d)'
                 PROVE  status'[l] = "reprocessing" /\ deadline'[l] = since'[d] + Timeout /\ owner'[l] = d
    BY DEF InTimeIsOwned
  <2>2. d # c /\ l \in InTime(d) /\ l \in Letters
    BY <1>2, <2>1 DEF InTime, Inv, TypeOK
  <2>3. status[l] = "reprocessing" /\ deadline[l] = since[d] + Timeout /\ owner[l] = d
    BY <2>1, <2>2 DEF Inv, InTimeIsOwned
  <2>4. status'[l] = status[l]
    BY <2>2, <2>3 DEF Inv, SelectionHolds
  <2>. QED
    BY <1>2, <2>2, <2>3, <2>4
<1>. QED
  BY <1>1, <1>3, <1>4, <1>5 DEF Inv

\* A discard settles letters that its own transaction has locked.
LEMMA DiscardCommitsInv == ASSUME Inv, NEW c \in Callers, DiscardCommits(c) PROVE Inv'
  BY EndInv DEF DiscardCommits, Inv, TypeOK

\* A transaction that fails changes no letter.
LEMMA TxFailsInv == ASSUME Inv, NEW c \in Callers, TxFails(c) PROVE Inv'
<1>1. faults' \in 0..MaxFaults
  BY DeadLetterAssumption DEF TxFails, Fault, Inv, TypeOK
<1>. QED
  BY <1>1, EndInv DEF TxFails, letterVars, Inv, TypeOK

\* A caller that vanishes leaves its letters as they are.
LEMMA VanishInv == ASSUME Inv, NEW c \in Callers, Vanish(c) PROVE Inv'
<1>1. TypeOK'
  BY DeadLetterAssumption DEF Inv, Vanish, Forget, Fault, TypeOK, letterVars
<1>2. /\ pc[c] = "working" /\ pc'[c] = "idle" /\ batch'[c] = {} /\ since'[c] = 0
      /\ \A d \in Callers \ {c} : pc'[d] = pc[d] /\ batch'[d] = batch[d] /\ since'[d] = since[d]
  BY DEF Inv, TypeOK, Vanish, Forget
<1>3. LocksMatch'
  BY <1>2 DEF Inv, LocksMatch, Vanish
<1>4. SelectionHolds'
  BY <1>2 DEF Inv, SelectionHolds, TypeOK, Vanish, letterVars
<1>5. InTimeIsOwned'
  BY <1>2 DEF Inv, InTimeIsOwned, InTime, Vanish, letterVars
<1>. QED
  BY <1>1, <1>3, <1>4, <1>5 DEF Inv

\* Cleanup deletes settled rows only, which nobody has selected or works on.
LEMMA CleanupInv == ASSUME Inv, NEW S \in SUBSET Letters, Cleanup(S) PROVE Inv'
<1>1. TypeOK' /\ LocksMatch'
  BY DEF Inv, Cleanup, TypeOK, LocksMatch, callerVars
<1>2. \A l \in Letters : status[l] \in {"pending", "reprocessing"} => status'[l] = status[l]
  BY DEF Cleanup, Terminal
<1>3. SelectionHolds'
  BY <1>2 DEF Inv, SelectionHolds, TypeOK, Cleanup, callerVars
<1>4. InTimeIsOwned'
  BY <1>2 DEF Inv, InTimeIsOwned, InTime, TypeOK, Cleanup, callerVars
<1>. QED
  BY <1>1, <1>3, <1>4 DEF Inv

\* Time takes letters out of their deadlines, never into them.
LEMMA TickInv == ASSUME Inv, Tick PROVE Inv'
<1>1. TypeOK' /\ LocksMatch' /\ SelectionHolds'
  BY DEF Inv, Tick, TypeOK, LocksMatch, SelectionHolds, letterVars, callerVars
<1>2. ASSUME NEW c \in Callers PROVE InTime(c)' \subseteq InTime(c)
  BY DeadLetterAssumption DEF Inv, Tick, TypeOK, InTime, callerVars
<1>3. InTimeIsOwned'
  BY <1>2 DEF Inv, Tick, InTimeIsOwned, letterVars, callerVars
<1>. QED
  BY <1>1, <1>3 DEF Inv

\* Every step keeps the invariant.
LEMMA StepInv == Inv /\ [Next]_vars => Inv'
<1>. SUFFICES ASSUME Inv, [Next]_vars PROVE Inv'
  OBVIOUS
<1>1. CASE UNCHANGED vars
  BY <1>1 DEF vars, letterVars, callerVars, Inv, TypeOK, LocksMatch, SelectionHolds,
              InTimeIsOwned, InTime
<1>2. ASSUME NEW c \in Callers, NEW S \in SUBSET Letters,
             ReplaySelect(c, S) \/ Resolve(c, S) \/ Reject(c, S) \/ DiscardSelect(c, S)
      PROVE  Inv'
  BY <1>2, ReplaySelectInv, ResolveInv, RejectInv, DiscardSelectInv
<1>3. ASSUME NEW c \in Callers,
             ReplayCommits(c) \/ DiscardCommits(c) \/ TxFails(c) \/ Vanish(c)
      PROVE  Inv'
  BY <1>3, ReplayCommitsInv, DiscardCommitsInv, TxFailsInv, VanishInv
<1>. QED
  BY <1>1, <1>2, <1>3, InsertInv, CleanupInv, TickInv DEF Next

\* The invariant holds in every state.
THEOREM Invariance == Spec => []Inv
  BY InitInv, StepInv, PTL DEF Spec

\* The rows keep their types, the counter of rejections its width included
\* (dead_letter_reject).
THEOREM TypeCorrect == Spec => []TypeOK
<1>1. Inv => TypeOK
  BY DEF Inv
<1>. QED
  BY Invariance, <1>1, PTL

\* As long as no answer hits another caller's letter, a letter is worked on by
\* one caller at a time, for any number of callers (dead_letter_replay).
THEOREM ClaimsAreExclusive == Spec => []OneReplayerUnlessStolen
<1>1. Inv => OneReplayerUnlessStolen
  <2>1. SUFFICES ASSUME Inv, ~stolen, NEW c \in Callers, NEW d \in Callers,
                        NEW l \in InTime(c) \cap InTime(d)
                 PROVE  c = d
    BY DEF OneReplayerUnlessStolen, OneReplayer
  <2>. QED
    BY <2>1 DEF Inv, InTimeIsOwned
<1>. QED
  BY Invariance, <1>1, PTL

\* Letters move along the lifecycle's diagram only, and are deleted when they
\* are settled, whoever answers late (dead_letter.rs, "Status lifecycle").
THEOREM LettersFollowTheDiagram == Spec => Lifecycle
<1> DEFINE Moves == \A l \in Letters : status'[l] # status[l] => <<status[l], status'[l]>> \in Edges
<1>1. Inv /\ [Next]_vars => [Moves]_vars
  <2>. SUFFICES ASSUME Inv, Next PROVE Moves
    OBVIOUS
  <2>1. ASSUME NEW l \in Letters, Insert(l) PROVE Moves
    BY <2>1 DEF Insert, Edges, Inv, TypeOK
  <2>2. ASSUME NEW c \in Callers, ReplayCommits(c) PROVE Moves
    BY <2>2 DEF ReplayCommits, Edges, Inv, TypeOK, SelectionHolds
  <2>3. ASSUME NEW c \in Callers, NEW S \in SUBSET Letters, Resolve(c, S) \/ Reject(c, S)
        PROVE  Moves
    BY <2>3 DEF Resolve, Reject, Answerable, Edges
  <2>4. ASSUME NEW c \in Callers, DiscardCommits(c) PROVE Moves
    BY <2>4 DEF DiscardCommits, Edges, Inv, SelectionHolds
  <2>5. ASSUME NEW S \in SUBSET Letters, Cleanup(S) PROVE Moves
    BY <2>5 DEF Cleanup, Terminal, Edges
  <2>. QED
    BY <2>1, <2>2, <2>3, <2>4, <2>5
    DEF Next, ReplaySelect, DiscardSelect, TxFails, Vanish, Tick, letterVars
<1>. QED
  BY Invariance, <1>1, PTL DEF Spec, Lifecycle
=============================================================================
