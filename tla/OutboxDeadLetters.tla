------------------------- MODULE OutboxDeadLetters -------------------------
(***************************************************************************)
(* The dead letters of the outbox (dead_letter.rs) after a handler has     *)
(* rejected them: replay hands letters to a caller with a deadline, who    *)
(* answers with resolve or reject; discard gives pending letters up and    *)
(* cleanup deletes the settled ones.  Callers are tasks of any process,    *)
(* each with one batch at a time.  A scope is any set of letters; the      *)
(* database is PostgreSQL or MySQL, which lock rows.                       *)
(***************************************************************************)
EXTENDS Integers, FiniteSets

CONSTANTS
    Letters,        \* ids of dead letters, in insertion order
    Callers,        \* tasks that replay and discard
    None,
    Limit,          \* scope.limit of replay and discard
    Timeout,        \* ticks a replayed letter is the caller's
    AttemptsMax,    \* largest value of the SMALLINT attempts
    MaxTime,        \* bound: the database clock
    MaxFaults       \* bound: failed or unheard statements, callers that vanish

ASSUME DeadLetterAssumption ==
    /\ Letters \subseteq Nat
    /\ None \notin Callers \cup Nat
    /\ Limit \in Nat \ {0} /\ Timeout \in Nat /\ AttemptsMax \in Nat
    /\ MaxTime \in Nat /\ MaxFaults \in Nat

VARIABLES
    now,            \* the database clock
    status,         \* status[l], or "none" before the insert, "deleted" after cleanup
    attempts,       \* attempts[l]
    deadline,       \* deadline[l], or None
    lock,           \* lock[l]: the caller whose open transaction has locked the row
    pc,             \* pc[c]: "idle", "replaying", "discarding" or "working"
    since,          \* since[c]: now() of c's transaction, and of its claim
    batch,          \* batch[c]: letters selected or handed out, and not answered
    unheard,        \* unheard[c]: letters answered without hearing of the outcome
    faults,
    owner,          \* history: the caller a letter was last handed to
    stolen          \* history: an answer has hit a letter handed to somebody else

letterVars == <<status, attempts, deadline>>
callerVars == <<pc, since, batch, unheard>>
vars == <<now, letterVars, lock, callerVars, faults, owner, stolen>>

Init ==
    /\ now = 0
    /\ status = [l \in Letters |-> "none"]
    /\ attempts = [l \in Letters |-> 0]
    /\ deadline = [l \in Letters |-> None]
    /\ lock = [l \in Letters |-> None]
    /\ pc = [c \in Callers |-> "idle"]
    /\ since = [c \in Callers |-> 0]
    /\ batch = [c \in Callers |-> {}]
    /\ unheard = [c \in Callers |-> {}]
    /\ faults = 0
    /\ owner = [l \in Letters |-> None] /\ stolen = FALSE

Fault == faults < MaxFaults /\ faults' = faults + 1

\* A handler's rejection inserts the letter with the partition's attempts.
Insert(l) ==
    /\ status[l] = "none" /\ \A k \in Letters : k < l => status[k] # "none"
    /\ status' = [status EXCEPT ![l] = "pending"]
    /\ \E a \in 0..AttemptsMax : attempts' = [attempts EXCEPT ![l] = a]
    /\ UNCHANGED <<now, deadline, lock, callerVars, faults, owner, stolen>>
-----------------------------------------------------------------------------
(* replay: a SELECT that locks, an UPDATE, a commit.                       *)

Claimable_PendingOnly(l) == status[l] = "pending"

Claimable(l) ==
    \/ status[l] = "pending"
    \/ status[l] = "reprocessing" /\ deadline[l] < now

RowFree_NoLock(l) == TRUE

\* FOR UPDATE SKIP LOCKED.
RowFree(l) == lock[l] = None

\* ORDER BY deadline ASC NULLS FIRST, id ASC.
Before(k, l) ==
    \/ deadline[k] = None /\ deadline[l] # None
    \/ deadline[k] = deadline[l] /\ k < l
    \/ deadline[k] # None /\ deadline[l] # None /\ deadline[k] < deadline[l]

\* The first Limit rows of S.
FirstRows(S) == {l \in S : Cardinality({k \in S : Before(k, l)}) < Limit}

Lock(c, S) == lock' = [l \in Letters |-> IF l \in S THEN c ELSE lock[l]]
Unlock(c) == lock' = [l \in Letters |-> IF lock[l] = c THEN None ELSE lock[l]]

Begin(c, place, S) ==
    /\ pc[c] = "idle" /\ S # {}
    /\ Lock(c, S)
    /\ pc' = [pc EXCEPT ![c] = place]
    /\ since' = [since EXCEPT ![c] = now]
    /\ batch' = [batch EXCEPT ![c] = S]

ReplaySelect(c, scope) ==
    /\ Begin(c, "replaying", FirstRows({l \in scope : Claimable(l) /\ RowFree(l)}))
    /\ UNCHANGED <<now, letterVars, unheard, faults, owner, stolen>>

Forget(c) ==
    /\ pc' = [pc EXCEPT ![c] = "idle"]
    /\ since' = [since EXCEPT ![c] = 0]
    /\ batch' = [batch EXCEPT ![c] = {}]
    /\ unheard' = [unheard EXCEPT ![c] = {}]

\* build_batch_claim and the commit; the caller may never get the answer.
ReplayCommits(c) ==
    /\ pc[c] = "replaying"
    /\ status' = [l \in Letters |-> IF l \in batch[c] THEN "reprocessing" ELSE status[l]]
    /\ deadline' = [l \in Letters |-> IF l \in batch[c] THEN since[c] + Timeout ELSE deadline[l]]
    /\ Unlock(c)
    /\ \/ /\ owner' = [l \in Letters |-> IF l \in batch[c] THEN c ELSE owner[l]]
          /\ pc' = [pc EXCEPT ![c] = "working"]
          /\ UNCHANGED <<since, batch, unheard, faults>>
       \/ /\ Fault
          /\ owner' = [l \in Letters |-> IF l \in batch[c] THEN None ELSE owner[l]]
          /\ Forget(c)
    /\ UNCHANGED <<now, attempts, stolen>>
-----------------------------------------------------------------------------
(* resolve and reject: one UPDATE of the ids that waits for locked rows.   *)

Answerable_Any(l) == TRUE

\* AND status = 'reprocessing'.
Answerable(l) == status[l] = "reprocessing"

\* What the caller knows after an answer for ids.
Heard(c, ids) ==
    \/ /\ batch' = [batch EXCEPT ![c] = @ \ ids]
       /\ unheard' = [unheard EXCEPT ![c] = @ \ ids]
       /\ pc' = [pc EXCEPT ![c] = IF (batch[c] \cup unheard[c]) \subseteq ids THEN "idle" ELSE @]
       /\ UNCHANGED faults
    \/ /\ Fault
       /\ batch' = [batch EXCEPT ![c] = @ \ ids]
       /\ unheard' = [unheard EXCEPT ![c] = @ \cup ids]
       /\ UNCHANGED pc

\* The ids a caller answers for, all its rows unlocked.
AnswersFor(c, ids) ==
    /\ pc[c] = "working" /\ ids # {} /\ ids \subseteq batch[c] \cup unheard[c]
    /\ \A l \in ids : lock[l] = None

Settle(c, ids) ==
    /\ stolen' = (stolen \/ \E l \in ids : Answerable(l) /\ owner[l] # c)
    /\ owner' = [l \in Letters |-> IF l \in ids /\ Answerable(l) THEN None ELSE owner[l]]
    /\ deadline' = [l \in Letters |-> IF l \in ids /\ Answerable(l) THEN None ELSE deadline[l]]

Resolve(c, ids) ==
    /\ AnswersFor(c, ids)
    /\ status' = [l \in Letters |-> IF l \in ids /\ Answerable(l) THEN "resolved" ELSE status[l]]
    /\ Settle(c, ids) /\ Heard(c, ids)
    /\ UNCHANGED <<now, attempts, lock, since>>

\* attempts + 1 is still a SMALLINT.
Fits(l) == attempts[l] < AttemptsMax

Reject(c, ids) ==
    /\ AnswersFor(c, ids)
    /\ \A l \in ids : Answerable(l) => Fits(l)
    /\ status' = [l \in Letters |-> IF l \in ids /\ Answerable(l) THEN "pending" ELSE status[l]]
    /\ attempts' = [l \in Letters |-> IF l \in ids /\ Answerable(l) THEN attempts[l] + 1 ELSE attempts[l]]
    /\ Settle(c, ids) /\ Heard(c, ids)
    /\ UNCHANGED <<now, lock, since>>

\* The caller stops answering: it dies, gives up, or its UPDATE keeps failing.
Vanish(c) ==
    /\ pc[c] = "working"
    /\ Fault \/ (UNCHANGED faults /\ \E l \in batch[c] : Answerable(l) /\ ~Fits(l))
    /\ Forget(c)
    /\ UNCHANGED <<now, letterVars, lock, owner, stolen>>
-----------------------------------------------------------------------------
(* discard and cleanup.                                                    *)

\* No ORDER BY: any Limit of the scope's pending rows.
DiscardSelect(c, S) ==
    /\ \A l \in S : status[l] = "pending" /\ RowFree(l)
    /\ Cardinality(S) <= Limit
    /\ Begin(c, "discarding", S)
    /\ UNCHANGED <<now, letterVars, unheard, faults, owner, stolen>>

\* build_batch_discard asks for the ids only.
DiscardCommits(c) ==
    /\ pc[c] = "discarding"
    /\ status' = [l \in Letters |-> IF l \in batch[c] THEN "discarded" ELSE status[l]]
    /\ Unlock(c)
    /\ Forget(c)
    /\ UNCHANGED <<now, attempts, deadline, faults, owner, stolen>>

\* A replay or a discard fails before its commit.
TxFails(c) ==
    /\ pc[c] \in {"replaying", "discarding"}
    /\ Fault
    /\ Unlock(c)
    /\ Forget(c)
    /\ UNCHANGED <<now, letterVars, owner, stolen>>

Terminal == {"resolved", "discarded"}

Cleanup(S) ==
    /\ S # {} /\ \A l \in S : status[l] \in Terminal /\ RowFree(l)
    /\ status' = [l \in Letters |-> IF l \in S THEN "deleted" ELSE status[l]]
    /\ UNCHANGED <<now, attempts, deadline, lock, callerVars, faults, owner, stolen>>

Tick ==
    /\ now < MaxTime
    /\ now' = now + 1
    /\ UNCHANGED <<letterVars, lock, callerVars, faults, owner, stolen>>

Next ==
    \/ \E l \in Letters : Insert(l)
    \/ \E c \in Callers :
          \/ \E S \in SUBSET Letters :
                ReplaySelect(c, S) \/ Resolve(c, S) \/ Reject(c, S) \/ DiscardSelect(c, S)
          \/ ReplayCommits(c) \/ DiscardCommits(c) \/ TxFails(c) \/ Vanish(c)
    \/ \E S \in SUBSET Letters : Cleanup(S)
    \/ Tick

Spec == Init /\ [][Next]_vars

\* Time passes and begun transactions end; nobody has to call or to answer.
Fairness ==
    /\ WF_vars(Tick)
    /\ \A c \in Callers : WF_vars(ReplayCommits(c)) /\ WF_vars(DiscardCommits(c))

FairSpec == Spec /\ Fairness
-----------------------------------------------------------------------------
(* Properties.                                                             *)

\* Type invariant.
TypeOK ==
    /\ now \in Nat /\ faults \in 0..MaxFaults
    /\ status \in [Letters -> {"none", "pending", "reprocessing", "resolved", "discarded", "deleted"}]
    /\ attempts \in [Letters -> 0..AttemptsMax]
    /\ deadline \in [Letters -> Nat \cup {None}]
    /\ lock \in [Letters -> Callers \cup {None}]
    /\ pc \in [Callers -> {"idle", "replaying", "discarding", "working"}]
    /\ since \in [Callers -> Nat]
    /\ batch \in [Callers -> SUBSET Letters]
    /\ unheard \in [Callers -> SUBSET Letters]
    /\ owner \in [Letters -> Callers \cup {None}] /\ stolen \in BOOLEAN

\* The lifecycle of the module's diagram, with the deletion of settled letters.
Edges ==
    {<<"none", "pending">>, <<"pending", "reprocessing">>, <<"reprocessing", "resolved">>,
     <<"reprocessing", "pending">>, <<"pending", "discarded">>,
     <<"resolved", "deleted">>, <<"discarded", "deleted">>}

\* A letter only moves along the diagram: once resolved or discarded it is never
\* handed out again, and it is deleted only then, however replays, discards, late
\* answers and cleanups of several callers interleave ("pending and reprocessing
\* rows are always preserved", dead_letter_cleanup).
Lifecycle ==
    [][\A l \in Letters : status'[l] # status[l] => <<status[l], status'[l]>> \in Edges]_vars

\* The letters a caller works on before its deadline.
InTime(c) == IF pc[c] = "working" /\ now <= since[c] + Timeout THEN batch[c] ELSE {}

\* No letter is worked on by two callers within their deadlines.
OneReplayer == \A c, d \in Callers : c # d => InTime(c) \cap InTime(d) = {}

\* No letter is worked on by two callers within their deadlines ("to prevent
\* concurrent callers from claiming the same rows", replay), as long as no answer
\* has hit a letter that was handed to another caller in the meantime, which
\* resolve and reject do not check.
OneReplayerUnlessStolen == ~stolen => OneReplayer

\* No letter stays with a caller that vanished, was never told of its claim, or
\* cannot record its rejection: after the deadline a replay can take it again
\* (build_replay_select).
Recoverable ==
    \A l \in Letters :
        status[l] = "reprocessing" /\ now < MaxTime - Timeout
            ~> status[l] # "reprocessing" \/ (Claimable(l) /\ RowFree(l))
=============================================================================
