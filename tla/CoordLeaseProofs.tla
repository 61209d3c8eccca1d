-------------------------- MODULE CoordLeaseProofs --------------------------
(***************************************************************************)
(* The safety properties of CoordLease for any number of workers, calls,   *)
(* faults and ticks, any TTL, skew and retry budget.  The argument is about*)
(* the row's lock: a claim or a fence UPDATE that has succeeded holds it   *)
(* until its commit, and what it has checked stays true for so long.       *)
(***************************************************************************)
EXTENDS CoordLease, TLAPS

\* The row names the latest term, or nobody.
RowIsLatest == row # NoRow => row.by \in {None, terms}

\* A guard has a UUID, and a row exists once there is a guard or a heartbeat.
GuardsHaveRows ==
    \A w \in Workers :
        /\ pc[w] \in {"held", "lost"} \cup InAck => uuid[w] \in Nat /\ row # NoRow
        /\ beat[w] # "off" => row # NoRow

\* A claim that is about to commit has locked the row it found expired.
ClaimHoldsRow ==
    \A w \in Workers : pc[w] = "claim" =>
        /\ locker = w
        /\ pend[w] # NoRow /\ pend[w].by = terms + 1
        /\ row # NoRow => row.until < start[w]

\* A fence UPDATE that has succeeded has locked the row it found its own.
FenceHoldsRow ==
    Impl = "coord" =>
        \A w \in Workers : pc[w] = "fenced" => locker = w /\ row.by = uuid[w]

\* A snapshot no write has made stale shows the row.
FreshSnapshots ==
    \A w \in Workers : pc[w] \in {"read", "worked"} /\ ~stale[w] => snap[w] = row

\* NOW() of a transaction or a statement is not later than the clock.
ClocksAgree ==
    \A w \in Workers : start[w] <= now /\ (renewAt[w] # None => renewAt[w] <= now)

\* Claims in preparation are bounded as the row is.
ClaimsAreBounded ==
    Impl = "coord" =>
        /\ LeaseIsBounded
        /\ \A w \in Workers : pc[w] = "claim" => pend[w].until <= now + TTL

Inv ==
    /\ TypeOK
    /\ RowIsLatest
    /\ GuardsHaveRows
    /\ ClaimHoldsRow
    /\ FenceHoldsRow
    /\ FreshSnapshots
    /\ ClocksAgree
    /\ ClaimsAreBounded
    /\ (Impl = "coord" => FencedByLatest)
-----------------------------------------------------------------------------
\* At first there is no row, no guard and no transaction.
LEMMA InitInv == Init => Inv
<1>1. SUFFICES ASSUME Init PROVE Inv
  OBVIOUS
<1>2. TypeOK
  BY <1>1, LeaseAssumption DEF Init, TypeOK
<1>3. RowIsLatest /\ GuardsHaveRows /\ ClaimHoldsRow /\ FenceHoldsRow /\ FreshSnapshots
  BY <1>1 DEF Init, RowIsLatest, GuardsHaveRows, ClaimHoldsRow, FenceHoldsRow,
              FreshSnapshots, InAck
<1>4. ClocksAgree /\ ClaimsAreBounded /\ FencedByLatest
  BY <1>1 DEF Init, ClocksAgree, ClaimsAreBounded, LeaseIsBounded, FencedByLatest
<1>. QED
  BY <1>2, <1>3, <1>4 DEF Inv

\* A write makes every open snapshot stale.
LEMMA WriteMarks ==
    ASSUME NEW r, Write(r)
    PROVE  /\ row' = r /\ stale' \in [Workers -> BOOLEAN]
           /\ \A v \in Workers : pc[v] \in {"read", "worked"} => stale'[v]
<1>1. row' = r /\ stale' = [v \in Workers |-> pc[v] \in {"read", "worked"}]
  BY DEF Write
<1>2. stale' \in [Workers -> BOOLEAN]
  <2>1. \A v \in Workers : (pc[v] \in {"read", "worked"}) \in BOOLEAN
    OBVIOUS
  <2>. QED
    BY <1>1, <2>1, Zenon
<1>3. \A v \in Workers : pc[v] \in {"read", "worked"} => stale'[v]
  BY <1>1, Zenon
<1>. QED
  BY <1>1, <1>2, <1>3

\* The types of the variables a transaction keeps for its call.
TxTypeOK ==
    /\ pc \in [Workers -> {"idle", "held", "lost"} \cup InAcquire \cup InAck]
    /\ tries \in [Workers -> 1..MaxAttempts]
    /\ start \in [Workers -> Nat]
    /\ snap \in [Workers -> Rows \cup {NoRow}]
    /\ pend \in [Workers -> Rows \cup {NoRow}]

\* A call that returns leaves them typed.
LEMMA GotoType ==
    ASSUME TypeOK, NEW w \in Workers, NEW place \in {"idle", "held", "lost"},
           Goto(w, place)
    PROVE  TxTypeOK'
  BY LeaseAssumption DEF Goto, TxTypeOK, TypeOK

\* So does one that is retried or given up.
LEMMA RetryType ==
    ASSUME TypeOK, NEW w \in Workers, Retry(w) \/ GiveUp(w)
    PROVE  TxTypeOK' /\ stale' \in [Workers -> BOOLEAN]
<1>1. CASE GiveUp(w)
  BY <1>1, GotoType DEF GiveUp, Return, TypeOK
<1>2. CASE tries[w] < MaxAttempts /\ Restart(w, tries[w] + 1)
  <2>1. tries[w] + 1 \in 1..MaxAttempts
    BY <1>2, LeaseAssumption DEF TypeOK
  <2>. QED
    BY <1>2, <2>1 DEF Restart, TxTypeOK, TypeOK, InAcquire, InAck
<1>. QED
  BY <1>1, <1>2 DEF Retry

\* A call that begins touches only its own place.
LEMMA AcquireCallInv == ASSUME Inv, NEW w \in Workers, AcquireCall(w) PROVE Inv'
<1>0. /\ TypeOK /\ RowIsLatest /\ GuardsHaveRows /\ ClaimHoldsRow /\ FenceHoldsRow
      /\ FreshSnapshots /\ ClocksAgree /\ ClaimsAreBounded
      /\ Impl = "coord" => FencedByLatest
  BY DEF Inv
<1>1. RowIsLatest' /\ GuardsHaveRows' /\ ClaimHoldsRow' /\ FenceHoldsRow' /\
     FreshSnapshots' /\ ClocksAgree' /\ ClaimsAreBounded' /\
     (Impl = "coord" => FencedByLatest')
  BY <1>0
  DEF AcquireCall, beatVars, RowIsLatest, GuardsHaveRows, InAck, ClaimHoldsRow,
      FenceHoldsRow, FreshSnapshots, ClocksAgree, ClaimsAreBounded,
      LeaseIsBounded, FencedByLatest
<1>2. TypeOK'
  BY <1>0, LeaseAssumption
  DEF AcquireCall, beatVars, TypeOK, InAcquire
<1>. QED
  BY <1>1, <1>2 DEF Inv

\* The SELECT's snapshot is the row.
LEMMA AcquireReadInv == ASSUME Inv, NEW w \in Workers, AcquireRead(w) PROVE Inv'
<1>0. /\ TypeOK /\ RowIsLatest /\ GuardsHaveRows /\ ClaimHoldsRow /\ FenceHoldsRow
      /\ FreshSnapshots /\ ClocksAgree /\ ClaimsAreBounded
      /\ Impl = "coord" => FencedByLatest
  BY DEF Inv
<1>1. RowIsLatest' /\ (Impl = "coord" => FencedByLatest')
  BY <1>0
  DEF AcquireRead, beatVars, RowIsLatest, FencedByLatest
<1>2. TypeOK'
  <2>1. TxTypeOK' /\ stale' \in [Workers -> BOOLEAN]
    <3>1. CASE Return(w, "idle")
      BY <3>1, <1>0, GotoType DEF Return, TypeOK
    <3>2. CASE ~Return(w, "idle")
      BY <3>2, <1>0 DEF AcquireRead, TxTypeOK, TypeOK, InAcquire
    <3>. QED
      BY <3>1, <3>2
  <2>. QED
    BY <1>0, <2>1 DEF AcquireRead, TxTypeOK, TypeOK, beatVars
<1>3. GuardsHaveRows'
  BY <1>0
  DEF AcquireRead, beatVars, Return, Goto, GuardsHaveRows, InAck, TypeOK
<1>4. ClaimHoldsRow'
  BY <1>0
  DEF AcquireRead, Return, Goto, ClaimHoldsRow, TypeOK
<1>5. FenceHoldsRow'
  BY <1>0
  DEF AcquireRead, Return, Goto, FenceHoldsRow, TypeOK
<1>6. FreshSnapshots'
  BY <1>0
  DEF AcquireRead, Return, Goto, FreshSnapshots, TypeOK
<1>7. ClocksAgree'
  BY <1>0
  DEF AcquireRead, beatVars, Return, Goto, ClocksAgree, TypeOK
<1>8. ClaimsAreBounded'
  BY <1>0
  DEF AcquireRead, Return, Goto, ClaimsAreBounded, LeaseIsBounded, TypeOK,
      ClocksAgree
<1>. QED
  BY <1>1, <1>2, <1>3, <1>4, <1>5, <1>6, <1>7, <1>8 DEF Inv

\* The claim locks the row it read, which nobody has written since.
LEMMA AcquireClaimsInv == ASSUME Inv, NEW w \in Workers, AcquireClaims(w) PROVE Inv'
<1>0. /\ TypeOK /\ RowIsLatest /\ GuardsHaveRows /\ ClaimHoldsRow /\ FenceHoldsRow
      /\ FreshSnapshots /\ ClocksAgree /\ ClaimsAreBounded
      /\ Impl = "coord" => FencedByLatest
  BY DEF Inv
<1>1. RowIsLatest' /\ GuardsHaveRows' /\ FreshSnapshots' /\ ClocksAgree' /\
     (Impl = "coord" => FencedByLatest')
  BY <1>0
  DEF AcquireClaims, beatVars, RowIsLatest, GuardsHaveRows, InAck,
      FreshSnapshots, ClocksAgree, FencedByLatest
<1>2. TypeOK'
  BY <1>0, LeaseAssumption
  DEF AcquireClaims, beatVars, ClaimedRow, ClaimSlot, InsertClaimed, FreshRow,
      TypeOK, Rows, InAcquire
<1>3. ClaimHoldsRow'
  BY <1>0, LeaseAssumption
  DEF AcquireClaims, ClaimedRow, ClaimSlot, InsertClaimed, Expired, FreshRow,
      ClaimHoldsRow, TypeOK, Rows, FreshSnapshots, FenceHoldsRow
<1>4. FenceHoldsRow'
  BY <1>0, LeaseAssumption
  DEF AcquireClaims, ClaimedRow, ClaimSlot, InsertClaimed, FreshRow,
      FenceHoldsRow, TypeOK
<1>5. ClaimsAreBounded'
  BY <1>0, LeaseAssumption
  DEF AcquireClaims, ClaimedRow, ClaimSlot, InsertClaimed, FreshRow,
      ClaimsAreBounded, LeaseIsBounded, TypeOK, ClocksAgree
<1>. QED
  BY <1>1, <1>2, <1>3, <1>4, <1>5 DEF Inv

\* An acquire that finds the lease held leaves no trace.
LEMMA AcquireHeldInv == ASSUME Inv, NEW w \in Workers, AcquireHeld(w) PROVE Inv'
<1>0. /\ TypeOK /\ RowIsLatest /\ GuardsHaveRows /\ ClaimHoldsRow /\ FenceHoldsRow
      /\ FreshSnapshots /\ ClocksAgree /\ ClaimsAreBounded
      /\ Impl = "coord" => FencedByLatest
  BY DEF Inv
<1>1. RowIsLatest' /\ GuardsHaveRows' /\ ClaimHoldsRow' /\ FenceHoldsRow' /\
     ClaimsAreBounded' /\ (Impl = "coord" => FencedByLatest')
  BY <1>0
  DEF AcquireHeld, beatVars, RowIsLatest, Return, Goto, GuardsHaveRows, InAck,
      ClaimHoldsRow, FenceHoldsRow, ClaimsAreBounded, LeaseIsBounded,
      FencedByLatest
<1>2. TypeOK'
  BY <1>0, LeaseAssumption
  DEF AcquireHeld, beatVars, Return, Goto, TypeOK
<1>3. FreshSnapshots'
  BY <1>0
  DEF AcquireHeld, Return, Goto, FreshSnapshots, TypeOK
<1>4. ClocksAgree'
  BY <1>0
  DEF AcquireHeld, beatVars, Return, Goto, ClocksAgree, TypeOK
<1>. QED
  BY <1>1, <1>2, <1>3, <1>4 DEF Inv

\* An acquire that loses the row to a peer begins again or gives up.
LEMMA AcquireConflictsInv == ASSUME Inv, NEW w \in Workers, AcquireConflicts(w) PROVE Inv'
<1>0. /\ TypeOK /\ RowIsLatest /\ GuardsHaveRows /\ ClaimHoldsRow /\ FenceHoldsRow
      /\ FreshSnapshots /\ ClocksAgree /\ ClaimsAreBounded
      /\ Impl = "coord" => FencedByLatest
  BY DEF Inv
<1>1. RowIsLatest' /\ (Impl = "coord" => FencedByLatest')
  BY <1>0
  DEF AcquireConflicts, beatVars, RowIsLatest, FencedByLatest
<1>2. TypeOK'
  <2>1. TxTypeOK' /\ stale' \in [Workers -> BOOLEAN]
    BY <1>0, RetryType DEF AcquireConflicts
  <2>. QED
    BY <1>0, <2>1 DEF AcquireConflicts, TxTypeOK, TypeOK, beatVars
<1>3. GuardsHaveRows'
  BY <1>0
  DEF AcquireConflicts, beatVars, Retry, Restart, GiveUp, Return, Goto,
      GuardsHaveRows, InAck, TypeOK
<1>4. ClaimHoldsRow'
  BY <1>0
  DEF AcquireConflicts, Retry, Restart, GiveUp, Return, Goto, ClaimHoldsRow,
      TypeOK
<1>5. FenceHoldsRow'
  BY <1>0
  DEF AcquireConflicts, Retry, Restart, GiveUp, Return, Goto, FenceHoldsRow,
      TypeOK
<1>6. FreshSnapshots'
  BY <1>0
  DEF AcquireConflicts, Retry, Restart, GiveUp, Return, Goto, FreshSnapshots,
      TypeOK
<1>7. ClocksAgree'
  BY <1>0
  DEF AcquireConflicts, beatVars, Retry, Restart, GiveUp, Return, Goto,
      ClocksAgree, TypeOK
<1>8. ClaimsAreBounded'
  BY <1>0
  DEF AcquireConflicts, Retry, Restart, GiveUp, Return, Goto, ClaimsAreBounded,
      LeaseIsBounded, TypeOK, ClocksAgree
<1>. QED
  BY <1>1, <1>2, <1>3, <1>4, <1>5, <1>6, <1>7, <1>8 DEF Inv

\* The committed claim is the latest term.
LEMMA AcquireCommitsInv == ASSUME Inv, NEW w \in Workers, AcquireCommits(w) PROVE Inv'
<1>0. /\ TypeOK /\ RowIsLatest /\ GuardsHaveRows /\ ClaimHoldsRow /\ FenceHoldsRow
      /\ FreshSnapshots /\ ClocksAgree /\ ClaimsAreBounded
      /\ Impl = "coord" => FencedByLatest
  BY DEF Inv
<1>1. Impl = "coord" => FencedByLatest'
  BY <1>0
  DEF AcquireCommits, beatVars, FencedByLatest
<1>2. TypeOK'
  <2>1. TxTypeOK'
    BY <1>0, GotoType DEF AcquireCommits
  <2>2. row' \in Rows \cup {NoRow} /\ stale' \in [Workers -> BOOLEAN]
    BY <1>0, WriteMarks DEF AcquireCommits, TypeOK
  <2>3. /\ locker' \in Workers \cup {None} /\ faults' \in 0..MaxFaults
        /\ terms' \in Nat /\ uuid' \in [Workers -> Nat \cup {None}]
    BY <1>0, LeaseAssumption DEF AcquireCommits, Unlocked, Fault, TypeOK
  <2>. QED
    BY <1>0, <2>1, <2>2, <2>3 DEF AcquireCommits, TxTypeOK, TypeOK, beatVars
<1>3. RowIsLatest'
  BY <1>0, WriteMarks
  DEF AcquireCommits, RowIsLatest, TypeOK, ClaimHoldsRow
<1>4. GuardsHaveRows'
  BY <1>0, WriteMarks
  DEF AcquireCommits, Goto, GuardsHaveRows, InAck, TypeOK, ClaimHoldsRow
<1>5. ClaimHoldsRow'
  BY <1>0
  DEF AcquireCommits, Goto, ClaimHoldsRow, TypeOK
<1>6. FenceHoldsRow'
  BY <1>0
  DEF AcquireCommits, Goto, FenceHoldsRow, TypeOK, ClaimHoldsRow
<1>7. FreshSnapshots'
  BY <1>0, WriteMarks
  DEF AcquireCommits, Goto, FreshSnapshots, TypeOK
<1>8. ClocksAgree'
  BY <1>0
  DEF AcquireCommits, beatVars, Goto, ClocksAgree, TypeOK
<1>9. ClaimsAreBounded'
  BY <1>0, WriteMarks
  DEF AcquireCommits, Goto, ClaimsAreBounded, LeaseIsBounded, TypeOK,
      ClocksAgree
<1>. QED
  BY <1>1, <1>2, <1>3, <1>4, <1>5, <1>6, <1>7, <1>8, <1>9 DEF Inv

\* A fenced call that begins touches only its own place.
LEMMA AckCallInv == ASSUME Inv, NEW w \in Workers, AckCall(w) PROVE Inv'
<1>0. /\ TypeOK /\ RowIsLatest /\ GuardsHaveRows /\ ClaimHoldsRow /\ FenceHoldsRow
      /\ FreshSnapshots /\ ClocksAgree /\ ClaimsAreBounded
      /\ Impl = "coord" => FencedByLatest
  BY DEF Inv
<1>1. RowIsLatest' /\ GuardsHaveRows' /\ ClaimHoldsRow' /\ FenceHoldsRow' /\
     FreshSnapshots' /\ ClaimsAreBounded' /\ (Impl = "coord" => FencedByLatest')
  BY <1>0
  DEF AckCall, beatVars, RowIsLatest, GuardsHaveRows, InAck, ClaimHoldsRow,
      FenceHoldsRow, FreshSnapshots, ClaimsAreBounded, LeaseIsBounded,
      FencedByLatest
<1>2. TypeOK'
  BY <1>0, LeaseAssumption
  DEF AckCall, beatVars, TypeOK, InAck
<1>3. ClocksAgree'
  BY <1>0
  DEF AckCall, beatVars, ClocksAgree, TypeOK
<1>. QED
  BY <1>1, <1>2, <1>3 DEF Inv

\* The snapshot of the caller's work is the row.
LEMMA AckWorkInv == ASSUME Inv, NEW w \in Workers, AckWork(w) PROVE Inv'
<1>0. /\ TypeOK /\ RowIsLatest /\ GuardsHaveRows /\ ClaimHoldsRow /\ FenceHoldsRow
      /\ FreshSnapshots /\ ClocksAgree /\ ClaimsAreBounded
      /\ Impl = "coord" => FencedByLatest
  BY DEF Inv
<1>1. RowIsLatest' /\ GuardsHaveRows' /\ ClaimHoldsRow' /\ FenceHoldsRow' /\
     ClocksAgree' /\ ClaimsAreBounded' /\ (Impl = "coord" => FencedByLatest')
  BY <1>0
  DEF AckWork, beatVars, RowIsLatest, GuardsHaveRows, InAck, ClaimHoldsRow,
      FenceHoldsRow, ClocksAgree, ClaimsAreBounded, LeaseIsBounded,
      FencedByLatest
<1>2. TypeOK'
  BY <1>0
  DEF AckWork, beatVars, TypeOK, InAck
<1>3. FreshSnapshots'
  BY <1>0
  DEF AckWork, FreshSnapshots, TypeOK
<1>. QED
  BY <1>1, <1>2, <1>3 DEF Inv

\* A fence UPDATE that matches a fresh snapshot locks a row that is its own.
LEMMA AckFenceInv == ASSUME Inv, NEW w \in Workers, AckFence(w) PROVE Inv'
<1>0. /\ TypeOK /\ RowIsLatest /\ GuardsHaveRows /\ ClaimHoldsRow /\ FenceHoldsRow
      /\ FreshSnapshots /\ ClocksAgree /\ ClaimsAreBounded
      /\ Impl = "coord" => FencedByLatest
  BY DEF Inv
<1>1. RowIsLatest' /\ GuardsHaveRows' /\ FreshSnapshots' /\ ClocksAgree' /\
     ClaimsAreBounded' /\ (Impl = "coord" => FencedByLatest')
  BY <1>0
  DEF AckFence, beatVars, RowIsLatest, GuardsHaveRows, InAck, FreshSnapshots,
      ClocksAgree, ClaimsAreBounded, LeaseIsBounded, FencedByLatest
<1>2. TypeOK'
  BY <1>0
  DEF AckFence, beatVars, FenceMatches, FencePasses, UpdateFence, SelectFence,
      TypeOK, InAck
<1>3. ClaimHoldsRow'
  BY <1>0, LeaseAssumption
  DEF AckFence, FenceMatches, FencePasses, UpdateFence, SelectFence,
      ClaimHoldsRow, TypeOK
<1>4. FenceHoldsRow'
  BY <1>0, LeaseAssumption
  DEF AckFence, FenceMatches, FencePasses, UpdateFence, SelectFence,
      FenceHoldsRow, TypeOK, FreshSnapshots
<1>. QED
  BY <1>1, <1>2, <1>3, <1>4 DEF Inv

\* A fence whose row was written since begins again or gives up.
LEMMA AckConflictsInv == ASSUME Inv, NEW w \in Workers, AckConflicts(w) PROVE Inv'
<1>0. /\ TypeOK /\ RowIsLatest /\ GuardsHaveRows /\ ClaimHoldsRow /\ FenceHoldsRow
      /\ FreshSnapshots /\ ClocksAgree /\ ClaimsAreBounded
      /\ Impl = "coord" => FencedByLatest
  BY DEF Inv
<1>1. RowIsLatest' /\ (Impl = "coord" => FencedByLatest')
  BY <1>0
  DEF AckConflicts, beatVars, RowIsLatest, FencedByLatest
<1>2. TypeOK'
  <2>1. TxTypeOK' /\ stale' \in [Workers -> BOOLEAN]
    BY <1>0, RetryType DEF AckConflicts
  <2>. QED
    BY <1>0, <2>1 DEF AckConflicts, TxTypeOK, TypeOK, beatVars
<1>3. GuardsHaveRows'
  BY <1>0
  DEF AckConflicts, Retry, Restart, GiveUp, Return, Goto, GuardsHaveRows,
      InAck, TypeOK
<1>4. ClaimHoldsRow'
  BY <1>0
  DEF AckConflicts, Retry, Restart, GiveUp, Return, Goto, ClaimHoldsRow, TypeOK
<1>5. FenceHoldsRow'
  BY <1>0
  DEF AckConflicts, Retry, Restart, GiveUp, Return, Goto, FenceHoldsRow, TypeOK
<1>6. FreshSnapshots'
  BY <1>0
  DEF AckConflicts, Retry, Restart, GiveUp, Return, Goto, FreshSnapshots,
      TypeOK
<1>7. ClocksAgree'
  BY <1>0
  DEF AckConflicts, beatVars, Retry, Restart, GiveUp, Return, Goto,
      ClocksAgree, TypeOK
<1>8. ClaimsAreBounded'
  BY <1>0
  DEF AckConflicts, Retry, Restart, GiveUp, Return, Goto, ClaimsAreBounded,
      LeaseIsBounded, TypeOK, ClocksAgree
<1>. QED
  BY <1>1, <1>2, <1>3, <1>4, <1>5, <1>6, <1>7, <1>8 DEF Inv

\* A lost lease ends the call.
LEMMA AckLostInv == ASSUME Inv, NEW w \in Workers, AckLost(w) PROVE Inv'
<1>0. /\ TypeOK /\ RowIsLatest /\ GuardsHaveRows /\ ClaimHoldsRow /\ FenceHoldsRow
      /\ FreshSnapshots /\ ClocksAgree /\ ClaimsAreBounded
      /\ Impl = "coord" => FencedByLatest
  BY DEF Inv
<1>1. RowIsLatest' /\ GuardsHaveRows' /\ ClaimHoldsRow' /\ FenceHoldsRow' /\
     ClaimsAreBounded' /\ (Impl = "coord" => FencedByLatest')
  BY <1>0
  DEF AckLost, beatVars, RowIsLatest, Return, Goto, GuardsHaveRows, InAck,
      ClaimHoldsRow, FenceHoldsRow, ClaimsAreBounded, LeaseIsBounded,
      FencedByLatest
<1>2. TypeOK'
  BY <1>0, LeaseAssumption
  DEF AckLost, beatVars, Return, Goto, TypeOK
<1>3. FreshSnapshots'
  BY <1>0
  DEF AckLost, Return, Goto, FreshSnapshots, TypeOK
<1>4. ClocksAgree'
  BY <1>0
  DEF AckLost, beatVars, Return, Goto, ClocksAgree, TypeOK
<1>. QED
  BY <1>1, <1>2, <1>3, <1>4 DEF Inv

\* Whoever commits behind a fence UPDATE is the latest term.
LEMMA AckCommitsInv == ASSUME Inv, NEW w \in Workers, AckCommits(w) PROVE Inv'
<1>0. /\ TypeOK /\ RowIsLatest /\ GuardsHaveRows /\ ClaimHoldsRow /\ FenceHoldsRow
      /\ FreshSnapshots /\ ClocksAgree /\ ClaimsAreBounded
      /\ Impl = "coord" => FencedByLatest
  BY DEF Inv
<1>1. RowIsLatest' /\ GuardsHaveRows' /\ ClaimHoldsRow' /\ ClaimsAreBounded'
  BY <1>0, WriteMarks
  DEF AckCommits, beatVars, Unlocked, Goto, RowIsLatest, GuardsHaveRows, InAck,
      ClaimHoldsRow, ClaimsAreBounded, LeaseIsBounded
<1>2. TypeOK'
  <2>1. TxTypeOK'
    BY <1>0, GotoType DEF AckCommits
  <2>2. acked' \subseteq Nat \X Nat
    BY <1>0 DEF AckCommits, TypeOK, GuardsHaveRows, InAck
  <2>3. row' = row /\ stale' \in [Workers -> BOOLEAN]
    <3>1. CASE Impl = "coord"
      BY <3>1, WriteMarks DEF AckCommits
    <3>2. CASE Impl # "coord"
      BY <1>0, <3>2 DEF AckCommits, TypeOK
    <3>. QED
      BY <3>1, <3>2
  <2>4. locker' \in Workers \cup {None}
    BY <1>0 DEF AckCommits, Unlocked, TypeOK
  <2>. QED
    BY <1>0, <2>1, <2>2, <2>3, <2>4 DEF AckCommits, TxTypeOK, TypeOK, beatVars
<1>3. FenceHoldsRow'
  BY <1>0
  DEF AckCommits, Goto, FenceHoldsRow, TypeOK
<1>4. FreshSnapshots'
  BY <1>0, WriteMarks
  DEF AckCommits, Goto, FreshSnapshots, TypeOK
<1>5. ClocksAgree'
  BY <1>0
  DEF AckCommits, beatVars, Goto, ClocksAgree, TypeOK
<1>6. Impl = "coord" => FencedByLatest'
  BY <1>0, LeaseAssumption
  DEF AckCommits, FencedByLatest, TypeOK, RowIsLatest, FenceHoldsRow,
      GuardsHaveRows, InAck
<1>. QED
  BY <1>1, <1>2, <1>3, <1>4, <1>5, <1>6 DEF Inv

\* A transaction that fails gives the row's lock back.
LEMMA TxFailsInv == ASSUME Inv, NEW w \in Workers, TxFails(w) PROVE Inv'
<1>0. /\ TypeOK /\ RowIsLatest /\ GuardsHaveRows /\ ClaimHoldsRow /\ FenceHoldsRow
      /\ FreshSnapshots /\ ClocksAgree /\ ClaimsAreBounded
      /\ Impl = "coord" => FencedByLatest
  BY DEF Inv
<1>1. RowIsLatest' /\ (Impl = "coord" => FencedByLatest')
  BY <1>0
  DEF TxFails, beatVars, RowIsLatest, FencedByLatest
<1>2. TypeOK'
  <2>1. TxTypeOK' /\ stale' \in [Workers -> BOOLEAN]
    BY <1>0, RetryType DEF TxFails
  <2>. QED
    BY <1>0, <2>1, LeaseAssumption DEF TxFails, TxTypeOK, TypeOK, Unlocked, Fault, beatVars
<1>3. GuardsHaveRows'
  BY <1>0
  DEF TxFails, beatVars, Retry, Restart, GiveUp, Return, Goto, GuardsHaveRows,
      InAck, TypeOK
<1>4. ClaimHoldsRow'
  BY <1>0
  DEF TxFails, Retry, Restart, GiveUp, Return, Goto, Unlocked, ClaimHoldsRow,
      TypeOK
<1>5. FenceHoldsRow'
  BY <1>0
  DEF TxFails, Retry, Restart, GiveUp, Return, Goto, Unlocked, FenceHoldsRow,
      TypeOK
<1>6. FreshSnapshots'
  BY <1>0
  DEF TxFails, Retry, Restart, GiveUp, Return, Goto, FreshSnapshots, TypeOK
<1>7. ClocksAgree'
  BY <1>0
  DEF TxFails, beatVars, Retry, Restart, GiveUp, Return, Goto, ClocksAgree,
      TypeOK
<1>8. ClaimsAreBounded'
  BY <1>0
  DEF TxFails, Retry, Restart, GiveUp, Return, Goto, ClaimsAreBounded,
      LeaseIsBounded, TypeOK, ClocksAgree
<1>. QED
  BY <1>1, <1>2, <1>3, <1>4, <1>5, <1>6, <1>7, <1>8 DEF Inv

\* A heartbeat begins while its guard is there.
LEMMA SpawnRenewalInv == ASSUME Inv, NEW w \in Workers, SpawnRenewal(w) PROVE Inv'
<1>0. /\ TypeOK /\ RowIsLatest /\ GuardsHaveRows /\ ClaimHoldsRow /\ FenceHoldsRow
      /\ FreshSnapshots /\ ClocksAgree /\ ClaimsAreBounded
      /\ Impl = "coord" => FencedByLatest
  BY DEF Inv
<1>1. TypeOK' /\ RowIsLatest' /\ GuardsHaveRows' /\ ClaimHoldsRow' /\ FenceHoldsRow' /\
     FreshSnapshots' /\ ClocksAgree' /\ ClaimsAreBounded' /\
     (Impl = "coord" => FencedByLatest')
  BY <1>0
  DEF SpawnRenewal, txVars, TypeOK, RowIsLatest, GuardsHaveRows, InAck,
      ClaimHoldsRow, FenceHoldsRow, FreshSnapshots, ClocksAgree,
      ClaimsAreBounded, LeaseIsBounded, FencedByLatest
<1>. QED
  BY <1>1 DEF Inv

\* A renewal that waits has a NOW() of the past.
LEMMA RenewBlocksInv == ASSUME Inv, NEW w \in Workers, RenewBlocks(w) PROVE Inv'
<1>0. /\ TypeOK /\ RowIsLatest /\ GuardsHaveRows /\ ClaimHoldsRow /\ FenceHoldsRow
      /\ FreshSnapshots /\ ClocksAgree /\ ClaimsAreBounded
      /\ Impl = "coord" => FencedByLatest
  BY DEF Inv
<1>1. TypeOK' /\ RowIsLatest' /\ GuardsHaveRows' /\ ClaimHoldsRow' /\ FenceHoldsRow' /\
     FreshSnapshots' /\ ClaimsAreBounded' /\ (Impl = "coord" => FencedByLatest')
  BY <1>0
  DEF RenewBlocks, txVars, TypeOK, RowIsLatest, GuardsHaveRows, InAck,
      ClaimHoldsRow, FenceHoldsRow, FreshSnapshots, ClaimsAreBounded,
      LeaseIsBounded, FencedByLatest
<1>2. ClocksAgree'
  BY <1>0
  DEF RenewBlocks, txVars, ClocksAgree, TypeOK
<1>. QED
  BY <1>1, <1>2 DEF Inv

\* A renewal keeps the holder and reaches no further than TTL.
LEMMA RenewOnceInv == ASSUME Inv, NEW w \in Workers, RenewOnce(w) PROVE Inv'
<1>0. /\ TypeOK /\ RowIsLatest /\ GuardsHaveRows /\ ClaimHoldsRow /\ FenceHoldsRow
      /\ FreshSnapshots /\ ClocksAgree /\ ClaimsAreBounded
      /\ Impl = "coord" => FencedByLatest
  BY DEF Inv
<1> DEFINE Wrote ==
            /\ row' \in Rows /\ row'.by = row.by
            /\ row'.until <= row.until \/ row'.until <= now + TTL
            /\ stale' \in [Workers -> BOOLEAN]
            /\ \/ row' = row /\ stale' = stale
               \/ \A v \in Workers : pc[v] \in {"read", "worked"} => stale'[v]
<1>10. Wrote
  <2>1. row \in Rows
    BY <1>0 DEF RenewOnce, TypeOK, GuardsHaveRows
  <2>2. CASE UNCHANGED <<row, stale>>
    BY <1>0, <2>1, <2>2 DEF TypeOK, Rows
  <2>3. ASSUME NEW t \in Nat, t <= now, Write([row EXCEPT !.until = t + TTL])
        PROVE  Wrote
    BY <1>0, <2>1, <2>3, WriteMarks, LeaseAssumption DEF TypeOK, Rows
  <2>4. (IF renewAt[w] = None THEN now ELSE renewAt[w]) \in 0..now
    BY <1>0 DEF TypeOK, ClocksAgree
  <2>. QED
    BY <2>2, <2>3, <2>4, <1>0 DEF RenewOnce, TypeOK
<1>1. FenceHoldsRow' /\ FreshSnapshots' /\ ClocksAgree' /\
     (Impl = "coord" => FencedByLatest')
  BY <1>0, <1>10
  DEF RenewOnce, txVars, FenceHoldsRow, FreshSnapshots, ClocksAgree,
      FencedByLatest
<1>2. TypeOK'
  <2>1. beat' \in [Workers -> {"off", "healthy", "lost", "cancelled"}]
        /\ beatId' \in [Workers -> Nat \cup {None}]
    <3>1. CASE UNCHANGED <<beat, beatId>>
      BY <1>0, <3>1 DEF TypeOK
    <3>2. CASE BeatEnds(w, "off") \/ BeatEnds(w, "lost")
      BY <1>0, <3>2 DEF BeatEnds, TypeOK
    <3>. QED
      BY <3>1, <3>2 DEF RenewOnce, AfterRenewal
  <2>. QED
    BY <1>0, <1>10, <2>1 DEF RenewOnce, TypeOK, txVars
<1>3. RowIsLatest'
  BY <1>0, <1>10
  DEF RenewOnce, RowIsLatest, TypeOK, GuardsHaveRows
<1>4. GuardsHaveRows'
  BY <1>0, <1>10, LeaseAssumption
  DEF RenewOnce, txVars, TypeOK, Rows, RowIsLatest, GuardsHaveRows,
      ClocksAgree, ClaimsAreBounded, LeaseIsBounded, FencedByLatest
<1>5. ClaimHoldsRow'
  BY <1>0, <1>10, LeaseAssumption
  DEF RenewOnce, txVars, ClaimHoldsRow, TypeOK
<1>6. ClaimsAreBounded'
  BY <1>0, <1>10, LeaseAssumption, WriteMarks
  DEF RenewOnce, txVars, Renewable, AfterRenewal, BeatEnds, ClaimsAreBounded,
      LeaseIsBounded, TypeOK, Rows, ClocksAgree
<1>. QED
  BY <1>1, <1>2, <1>3, <1>4, <1>5, <1>6 DEF Inv

\* A failed renewal leaves the row.
LEMMA RenewFailsInv == ASSUME Inv, NEW w \in Workers, RenewFails(w) PROVE Inv'
<1>0. /\ TypeOK /\ RowIsLatest /\ GuardsHaveRows /\ ClaimHoldsRow /\ FenceHoldsRow
      /\ FreshSnapshots /\ ClocksAgree /\ ClaimsAreBounded
      /\ Impl = "coord" => FencedByLatest
  BY DEF Inv
<1>1. RowIsLatest' /\ GuardsHaveRows' /\ ClaimHoldsRow' /\ FenceHoldsRow' /\
     FreshSnapshots' /\ ClocksAgree' /\ ClaimsAreBounded' /\
     (Impl = "coord" => FencedByLatest')
  BY <1>0
  DEF RenewFails, txVars, RowIsLatest, GuardsHaveRows, InAck, ClaimHoldsRow,
      FenceHoldsRow, FreshSnapshots, ClocksAgree, ClaimsAreBounded,
      LeaseIsBounded, FencedByLatest
<1>2. TypeOK'
  BY <1>0, LeaseAssumption
  DEF RenewFails, txVars, AfterRenewal, BeatEnds, Fault, TypeOK
<1>. QED
  BY <1>1, <1>2 DEF Inv

\* A heartbeat that is stopped leaves the row.
LEMMA StopRenewalInv == ASSUME Inv, NEW w \in Workers, StopRenewal(w) PROVE Inv'
<1>0. /\ TypeOK /\ RowIsLatest /\ GuardsHaveRows /\ ClaimHoldsRow /\ FenceHoldsRow
      /\ FreshSnapshots /\ ClocksAgree /\ ClaimsAreBounded
      /\ Impl = "coord" => FencedByLatest
  BY DEF Inv
<1>1. TypeOK' /\ RowIsLatest' /\ GuardsHaveRows' /\ ClaimHoldsRow' /\ FenceHoldsRow' /\
     FreshSnapshots' /\ ClocksAgree' /\ ClaimsAreBounded' /\
     (Impl = "coord" => FencedByLatest')
  BY <1>0
  DEF StopRenewal, txVars, BeatEnds, TypeOK, RowIsLatest, GuardsHaveRows,
      InAck, ClaimHoldsRow, FenceHoldsRow, FreshSnapshots, ClocksAgree,
      ClaimsAreBounded, LeaseIsBounded, FencedByLatest
<1>. QED
  BY <1>1 DEF Inv

\* A release writes a free row, if it is the releaser's.
LEMMA ReleaseInv == ASSUME Inv, NEW w \in Workers, Release(w) PROVE Inv'
<1>0. /\ TypeOK /\ RowIsLatest /\ GuardsHaveRows /\ ClaimHoldsRow /\ FenceHoldsRow
      /\ FreshSnapshots /\ ClocksAgree /\ ClaimsAreBounded
      /\ Impl = "coord" => FencedByLatest
  BY DEF Inv
<1> DEFINE Wrote ==
            /\ row' \in Rows /\ row'.by \in {row.by, None}
            /\ row'.until = row.until \/ row'.until = 0
            /\ stale' \in [Workers -> BOOLEAN]
            /\ \/ row' = row /\ stale' = stale
               \/ \A v \in Workers : pc[v] \in {"read", "worked"} => stale'[v]
<1>10. Wrote
  <2>1. row \in Rows
    BY <1>0 DEF Release, TypeOK, GuardsHaveRows
  <2>2. CASE UNCHANGED <<row, stale>>
    BY <1>0, <2>1, <2>2 DEF TypeOK
  <2>3. ASSUME NEW reset \in BOOLEAN, Write(Released(reset))
        PROVE  Wrote
    BY <1>0, <2>1, <2>3, WriteMarks DEF TypeOK, Rows, Released, Epoch
  <2>. QED
    BY <2>2, <2>3 DEF Release
<1>1. FreshSnapshots' /\ ClocksAgree' /\ (Impl = "coord" => FencedByLatest')
  BY <1>0, <1>10, WriteMarks
  DEF Release, beatVars, DropGuard, Released, MayRelease, Epoch,
      FreshSnapshots, ClocksAgree, FencedByLatest
<1>2. TypeOK'
  <2>1. /\ pc' \in [Workers -> {"idle", "held", "lost"} \cup InAcquire \cup InAck]
        /\ uuid' \in [Workers -> Nat \cup {None}]
    BY <1>0 DEF Release, DropGuard, TypeOK
  <2>. QED
    BY <1>0, <1>10, <2>1 DEF Release, TypeOK, beatVars
<1>3. RowIsLatest'
  BY <1>0, <1>10
  DEF Release, DropGuard, RowIsLatest, TypeOK, GuardsHaveRows
<1>4. GuardsHaveRows'
  BY <1>0, <1>10, LeaseAssumption
  DEF Release, DropGuard, TypeOK, Rows, InAck, RowIsLatest, GuardsHaveRows,
      ClocksAgree, ClaimsAreBounded, LeaseIsBounded, FencedByLatest
<1>5. ClaimHoldsRow'
  BY <1>0, <1>10, LeaseAssumption
  DEF Release, DropGuard, ClaimHoldsRow, TypeOK
<1>6. FenceHoldsRow'
  BY <1>0, <1>10, LeaseAssumption
  DEF Release, DropGuard, FenceHoldsRow, TypeOK
<1>7. ClaimsAreBounded'
  BY <1>0, <1>10, LeaseAssumption
  DEF Release, DropGuard, TypeOK, RowIsLatest, GuardsHaveRows, ClocksAgree,
      ClaimsAreBounded, LeaseIsBounded, FencedByLatest
<1>. QED
  BY <1>1, <1>2, <1>3, <1>4, <1>5, <1>6, <1>7 DEF Inv

\* A guard that is dropped leaves the row.
LEMMA AbandonInv == ASSUME Inv, NEW w \in Workers, Abandon(w) PROVE Inv'
<1>0. /\ TypeOK /\ RowIsLatest /\ GuardsHaveRows /\ ClaimHoldsRow /\ FenceHoldsRow
      /\ FreshSnapshots /\ ClocksAgree /\ ClaimsAreBounded
      /\ Impl = "coord" => FencedByLatest
  BY DEF Inv
<1>1. TypeOK' /\ RowIsLatest' /\ ClaimHoldsRow' /\ FenceHoldsRow' /\ FreshSnapshots' /\
     ClocksAgree' /\ ClaimsAreBounded' /\ (Impl = "coord" => FencedByLatest')
  BY <1>0
  DEF Abandon, beatVars, DropGuard, TypeOK, RowIsLatest, ClaimHoldsRow,
      FenceHoldsRow, FreshSnapshots, ClocksAgree, ClaimsAreBounded,
      LeaseIsBounded, FencedByLatest
<1>2. GuardsHaveRows'
  BY <1>0
  DEF Abandon, DropGuard, GuardsHaveRows, InAck, TypeOK
<1>. QED
  BY <1>1, <1>2 DEF Inv

\* A crash ends the transaction and the heartbeat, never the row.
LEMMA CrashInv == ASSUME Inv, NEW w \in Workers, Crash(w) PROVE Inv'
<1>0. /\ TypeOK /\ RowIsLatest /\ GuardsHaveRows /\ ClaimHoldsRow /\ FenceHoldsRow
      /\ FreshSnapshots /\ ClocksAgree /\ ClaimsAreBounded
      /\ Impl = "coord" => FencedByLatest
  BY DEF Inv
<1>1. RowIsLatest' /\ (Impl = "coord" => FencedByLatest')
  BY <1>0
  DEF Crash, RowIsLatest, FencedByLatest
<1>2. TypeOK'
  BY <1>0, LeaseAssumption
  DEF Crash, Fault, Return, Goto, Unlocked, BeatEnds, TypeOK
<1>3. GuardsHaveRows'
  BY <1>0
  DEF Crash, Return, Goto, BeatEnds, GuardsHaveRows, InAck, TypeOK
<1>4. ClaimHoldsRow'
  BY <1>0
  DEF Crash, Return, Goto, Unlocked, ClaimHoldsRow, TypeOK
<1>5. FenceHoldsRow'
  BY <1>0
  DEF Crash, Return, Goto, Unlocked, FenceHoldsRow, TypeOK
<1>6. FreshSnapshots'
  BY <1>0
  DEF Crash, Return, Goto, FreshSnapshots, TypeOK
<1>7. ClocksAgree'
  BY <1>0
  DEF Crash, Return, Goto, ClocksAgree, TypeOK
<1>8. ClaimsAreBounded'
  BY <1>0
  DEF Crash, Return, Goto, ClaimsAreBounded, LeaseIsBounded, TypeOK,
      ClocksAgree
<1>. QED
  BY <1>1, <1>2, <1>3, <1>4, <1>5, <1>6, <1>7, <1>8 DEF Inv

-----------------------------------------------------------------------------
\* The clock only moves forward, so it invalidates no bound.
LEMMA TickInv == ASSUME Inv, Tick PROVE Inv'
<1>1. TypeOK' /\ ClocksAgree'
  BY DEF Inv, Tick, TypeOK, ClocksAgree, txVars, beatVars
<1>2. RowIsLatest' /\ GuardsHaveRows' /\ ClaimHoldsRow' /\ FenceHoldsRow' /\ FreshSnapshots'
  BY DEF Inv, Tick, RowIsLatest, GuardsHaveRows, ClaimHoldsRow, FenceHoldsRow,
         FreshSnapshots, txVars, beatVars
<1>3. ClaimsAreBounded'
  BY LeaseAssumption
  DEF Inv, Tick, ClaimsAreBounded, ClaimHoldsRow, LeaseIsBounded, TypeOK, Rows, txVars
<1>4. Impl = "coord" => FencedByLatest'
  BY DEF Inv, Tick, FencedByLatest
<1>. QED
  BY <1>1, <1>2, <1>3, <1>4 DEF Inv

\* Every step keeps the invariant.
LEMMA StepInv == Inv /\ [Next]_vars => Inv'
<1>. SUFFICES ASSUME Inv, [Next]_vars PROVE Inv'
  OBVIOUS
<1>1. CASE UNCHANGED vars
  BY <1>1 DEF vars, txVars, beatVars, Inv, TypeOK, RowIsLatest, GuardsHaveRows,
              ClaimHoldsRow, FenceHoldsRow, FreshSnapshots, ClocksAgree,
              ClaimsAreBounded, LeaseIsBounded, FencedByLatest
<1>2. CASE Tick
  BY <1>2, TickInv
<1>3. ASSUME NEW w \in Workers,
             \/ AcquireCall(w) \/ AckCall(w) \/ CallStep(w) \/ TxFails(w)
             \/ SpawnRenewal(w) \/ RenewBlocks(w) \/ RenewOnce(w) \/ RenewFails(w)
             \/ StopRenewal(w) \/ Release(w) \/ Abandon(w) \/ Crash(w)
      PROVE  Inv'
  <2>1. CASE CallStep(w)
    BY <2>1, AcquireReadInv, AcquireClaimsInv, AcquireHeldInv, AcquireConflictsInv,
       AcquireCommitsInv, AckWorkInv, AckFenceInv, AckConflictsInv, AckLostInv,
       AckCommitsInv
    DEF CallStep
  <2>. QED
    BY <1>3, <2>1, AcquireCallInv, AckCallInv, TxFailsInv, SpawnRenewalInv,
       RenewBlocksInv, RenewOnceInv, RenewFailsInv, StopRenewalInv, ReleaseInv,
       AbandonInv, CrashInv
<1>. QED
  BY <1>1, <1>2, <1>3 DEF Next

\* The invariant holds in every state, in both implementations of the lease.
THEOREM Invariance == Spec => []Inv
  BY InitInv, StepInv, PTL DEF Spec

\* The lease's columns, the transactions' locals and the retry counter keep their
\* types in every instance of both implementations.
THEOREM TypeCorrect == Spec => []TypeOK
<1>1. Inv => TypeOK
  BY DEF Inv
<1>. QED
  BY Invariance, <1>1, PTL

\* With the fence UPDATE, work is committed by the latest holder only, for any
\* number of workers, clocks, retries and faults (coord, with_ack_in_tx).
THEOREM OnlyTheLatestCommits ==
    ASSUME Impl = "coord"
    PROVE  Spec => []FencedByLatest
<1>1. Inv => FencedByLatest
  BY DEF Inv
<1>. QED
  BY Invariance, <1>1, PTL

\* No lease of coord reaches further than TTL from the database's clock, however
\* wrong the workers' clocks are (claim_expired_slot, renew_once).
THEOREM LeasesAreBounded ==
    ASSUME Impl = "coord"
    PROVE  Spec => []LeaseIsBounded
<1>1. Inv => LeaseIsBounded
  BY DEF Inv, ClaimsAreBounded
<1>. QED
  BY Invariance, <1>1, PTL

\* A term is ended by its own guard, or by a claim after its locked_until: in
\* both implementations nothing takes a live lease from its holder.
THEOREM OnlyExpiryOrRelease == Spec => TermEnds
<1> DEFINE Ends ==
      row # NoRow /\ row.by # None /\ row'.by # row.by =>
         \/ \E w \in Workers : uuid[w] = row.by /\ uuid'[w] = None /\ row'.by = None
         \/ row'.by = terms + 1 /\ row.until < now
<1>1. Inv /\ [Next]_vars => [Ends]_vars
  <2>. SUFFICES ASSUME Inv, Next PROVE row' = row \/ Ends
    BY DEF vars
  <2>1. ASSUME NEW w \in Workers, AcquireCommits(w) PROVE Ends
    BY <2>1 DEF AcquireCommits, Write, Inv, ClaimHoldsRow, ClocksAgree, TypeOK, Rows
  <2>2. ASSUME NEW w \in Workers, RenewOnce(w) PROVE row' = row \/ Ends
    BY <2>2 DEF RenewOnce, Write, Inv, TypeOK, GuardsHaveRows, Rows
  <2>3. ASSUME NEW w \in Workers, Release(w) PROVE row' = row \/ Ends
    BY <2>3 DEF Release, DropGuard, MayRelease, Released, Write, Inv, TypeOK
  <2>4. ASSUME NEW w \in Workers, AckCommits(w) PROVE row' = row
    BY <2>4 DEF AckCommits, Write
  <2>. QED
    BY <2>1, <2>2, <2>3, <2>4
    DEF Next, CallStep, AcquireCall, AckCall, AcquireRead, AcquireClaims, AcquireHeld,
        AcquireConflicts, AckWork, AckFence, AckConflicts, AckLost, TxFails,
        SpawnRenewal, RenewBlocks, RenewFails, StopRenewal, Abandon, Crash, Tick
<1>. QED
  BY Invariance, <1>1, PTL DEF Spec, TermEnds
=============================================================================
