---------------------------- MODULE RetentionProofs ----------------------------
(***************************************************************************)
(* For every number of replicas, admins, stages and claims: a sweep never  *)
(* releases more than the project holds, and never marks a stage it has    *)
(* not booked.  A sweep that is to release a stage still has one in its    *)
(* queue; that is what the invariants rest on.  The types hold as well:    *)
(* the advisory lock counts no further than its bound, because its count   *)
(* is zero exactly while nobody holds it.                                  *)
(***************************************************************************)
EXTENDS RetentionSweep, WellFoundedInduction, TLAPS

\* What a sweep at a point of the loop needs: the stage it is about.
Queued == \A w \in Workers : at[w] \in {"reread", "release"} => queue[w] # {}

\* The part of TypeOK the two properties need.
Kinds ==
  /\ free \in Int
  /\ at \in [Workers -> Points] /\ queue \in [Workers -> SUBSET Stages]
  /\ stages \subseteq Stages

\* Preserved by every step: the two properties and what they rest on.
SweepInv == Kinds /\ Queued /\ ReleaseIsCovered /\ MarkIsBacked

\* First picks a member of every queue that is not empty.
LEMMA FirstIn == ASSUME NEW S \in SUBSET Stages, S # {} PROVE First(S) \in S
<1>1. S \in SUBSET Nat
  BY StageIds
<1>2. PICK s \in S : \A t \in S : <<t, s>> \notin OpToRel(<, Nat)
  BY <1>1, NatLessThanWellFounded, WFMin
<1>3. ASSUME NEW t \in S PROVE s <= t
  <2>1. s \in Nat /\ t \in Nat
    BY <1>1
  <2>2. ~(t < s)
    BY <1>2, <2>1 DEF OpToRel
  <2>3. QED
    BY <2>1, <2>2
<1>4. QED
  BY <1>3 DEF First

\* A step of the sweep that moves on, with a queue that fits its new point.
LEMMA SweepMoves ==
  ASSUME SweepInv, NEW w \in Workers, NEW point \in Points, NEW Q \in SUBSET Stages,
         at' = [at EXCEPT ![w] = point], queue' = [queue EXCEPT ![w] = Q],
         point \in {"reread", "release"} => Q # {},
         UNCHANGED stages
  PROVE  Queued' /\ at' \in [Workers -> Points] /\ queue' \in [Workers -> SUBSET Stages]
BY DEF SweepInv, Kinds, Queued

LEMMA FinishMoves ==
  ASSUME SweepInv, NEW w \in Workers, Finish(w), UNCHANGED stages
  PROVE  Queued' /\ at' \in [Workers -> Points] /\ queue' \in [Workers -> SUBSET Stages]
<1>1. Over(w) \in Points /\ Over(w) \notin {"reread", "release"}
  BY DEF Over, Points
<1>2. QED
  BY <1>1, SweepMoves DEF Finish, Goto

LEMMA GotoMoves ==
  ASSUME SweepInv, NEW w \in Workers, NEW point \in Points, Goto(w, point), UNCHANGED <<queue, stages>>,
         point \in {"reread", "release"} => queue[w] # {}
  PROVE  Queued' /\ at' \in [Workers -> Points] /\ queue' \in [Workers -> SUBSET Stages]
BY DEF SweepInv, Kinds, Queued, Goto

LEMMA NextMoves ==
  ASSUME SweepInv, NEW w \in Workers, NextStage(w), UNCHANGED stages
  PROVE  Queued' /\ at' \in [Workers -> Points] /\ queue' \in [Workers -> SUBSET Stages]
<1> DEFINE rest == queue[w] \ {First(queue[w])}
<1>1. CASE rest = {}
  BY <1>1, FinishMoves DEF NextStage
<1>2. CASE rest # {}
  <2>1. /\ at' = [at EXCEPT ![w] = "reread"]
        /\ queue' = [queue EXCEPT ![w] = rest]
        /\ rest \in SUBSET Stages
    BY <1>2 DEF NextStage, Goto, SweepInv, Kinds
  <2>2. "reread" \in Points
    BY DEF Points
  <2> HIDE DEF rest
  <2>3. QED
    BY <1>2, <2>1, <2>2, SweepMoves
<1>3. QED
  BY <1>1, <1>2

\* A step that books and marks nothing and leaves the ceiling covered.
LEMMA MoneyKept ==
  ASSUME SweepInv, UNCHANGED money
  PROVE  free' \in Int /\ ReleaseIsCovered' /\ MarkIsBacked'
BY DEF SweepInv, Kinds, ReleaseIsCovered, MarkIsBacked, money

LEMMA SweepPreserves == ASSUME SweepInv, NEW w \in Workers, SweepStep(w) PROVE SweepInv'
<1>1. CASE Scan(w) \/ CheckClaims(w) \/ CheckDispute(w)
  <2>1. "claims" \in Points /\ "dispute" \in Points /\ "list" \in Points
    BY DEF Points
  <2>2. UNCHANGED <<money, stages>>
    BY <1>1 DEF Scan, CheckClaims, CheckDispute, case
  <2>3. \/ Finish(w)
        \/ \E point \in {"claims", "dispute", "list"} : Goto(w, point) /\ UNCHANGED queue
    BY <1>1 DEF Scan, CheckClaims, CheckDispute
  <2>4. QED
    BY <2>1, <2>2, <2>3, FinishMoves, GotoMoves, MoneyKept DEF SweepInv, Kinds
<1>2. CASE List(w)
  <2>1. UNCHANGED <<money, stages>>
    BY <1>2 DEF List, case
  <2>2. CASE stages \subseteq mark
    BY <1>2, <2>1, <2>2, FinishMoves, MoneyKept DEF List, SweepInv, Kinds
  <2>3. CASE ~(stages \subseteq mark)
    <3>1. stages \ mark \in SUBSET Stages /\ stages \ mark # {} /\ "reread" \in Points
      BY <2>3 DEF SweepInv, Kinds, Points
    <3>2. Queued' /\ at' \in [Workers -> Points] /\ queue' \in [Workers -> SUBSET Stages]
      BY <1>2, <2>1, <2>3, <3>1, SweepMoves DEF List, Goto
    <3>3. QED
      BY <2>1, <3>2, MoneyKept DEF SweepInv, Kinds
  <2>4. QED
    BY <2>2, <2>3
<1>3. CASE Reread(w)
  <2>1. UNCHANGED <<money, stages>>
    BY <1>3 DEF Reread, case
  <2>2. queue[w] # {} /\ "release" \in Points
    BY <1>3 DEF Reread, SweepInv, Queued, Points
  <2>3. Queued' /\ at' \in [Workers -> Points] /\ queue' \in [Workers -> SUBSET Stages]
    BY <1>3, <2>1, <2>2, GotoMoves, NextMoves DEF Reread
  <2>4. QED
    BY <2>1, <2>3, MoneyKept DEF SweepInv, Kinds
<1>4. CASE Release(w)
  <2>1. PICK s : s = First(queue[w])
    OBVIOUS
  <2>2. s \in Stages /\ Held[s] \in Nat
    BY <1>4, <2>1, FirstIn, HeldPositive DEF Release, SweepInv, Queued, Kinds
  <2>3. UNCHANGED stages /\ NextStage(w)
    BY <1>4 DEF Release, case
  <2>4. Queued' /\ at' \in [Workers -> Points] /\ queue' \in [Workers -> SUBSET Stages]
    BY <2>3, NextMoves
  <2>5. free' \in Int /\ ReleaseIsCovered' /\ MarkIsBacked'
    BY <1>4, <2>1, <2>2, MoneyKept DEF Release, SweepInv, Kinds, ReleaseIsCovered, MarkIsBacked
  <2>6. QED
    BY <2>3, <2>4, <2>5 DEF SweepInv, Kinds
<1>5. ASSUME NEW c \in Conns, Unlock(w, c) PROVE SweepInv'
  <2>1. UNCHANGED <<money, stages, queue>> /\ Goto(w, "idle") /\ "idle" \in Points
    BY <1>5 DEF Unlock, case, Points
  <2>2. QED
    BY <2>1, GotoMoves, MoneyKept DEF SweepInv, Kinds
<1>6. QED
  BY <1>1, <1>2, <1>3, <1>4, <1>5 DEF SweepStep

LEMMA AroundPreserves == ASSUME SweepInv, Around PROVE SweepInv'
<1>1. UNCHANGED <<at, queue>> /\ stages' \subseteq stages
  BY DEF Around, Handover, WarrantyEnds, Dispute, BeginClaim, FileClaim, UpdateClaim, Reduce,
     DepositMore, PayStage, DeleteStage, sweep, case
<1>2. mark' \subseteq mark /\ booked' = booked
  BY DEF Around, Handover, WarrantyEnds, Dispute, BeginClaim, FileClaim, UpdateClaim, Reduce,
     DepositMore, PayStage, DeleteStage, money
<1>3. free' \in Int /\ free' >= 0
  BY DEF Around, Handover, WarrantyEnds, Dispute, BeginClaim, FileClaim, UpdateClaim, Reduce,
     DepositMore, PayStage, DeleteStage, money, SweepInv, Kinds, ReleaseIsCovered
<1>4. QED
  BY <1>1, <1>2, <1>3 DEF SweepInv, Kinds, Queued, ReleaseIsCovered, MarkIsBacked

LEMMA SweepNext == SweepInv /\ [Next]_vars => SweepInv'
<1>1. SUFFICES ASSUME SweepInv, [Next]_vars PROVE SweepInv'
  OBVIOUS
<1>2. CASE UNCHANGED vars
  BY <1>1, <1>2 DEF SweepInv, Kinds, Queued, ReleaseIsCovered, MarkIsBacked, vars, case, money, sweep
<1>3. ASSUME NEW r \in Replicas, NEW c \in Conns, TryLock(r, c) \/ Expire(r, c) PROVE SweepInv'
  <2>1. r \in Workers /\ "scan" \in Points
    BY DEF Workers, Points
  <2>2. CASE TryLock(r, c)
    BY <1>1, <2>1, <2>2, GotoMoves, MoneyKept DEF TryLock, case, SweepInv, Kinds
  <2>3. CASE Expire(r, c)
    BY <1>1, <2>3 DEF Expire, SweepInv, Kinds, Queued, ReleaseIsCovered, MarkIsBacked, case, money, sweep
  <2>4. QED
    BY <1>3, <2>2, <2>3
<1>4. ASSUME NEW a \in Admins, AdminRelease(a) PROVE SweepInv'
  <2>1. a \in Workers /\ "scan" \in Points
    BY DEF Workers, Points
  <2>2. QED
    BY <1>1, <1>4, <2>1, GotoMoves, MoneyKept DEF AdminRelease, case, SweepInv, Kinds
<1>5. ASSUME NEW w \in Workers, Cancelled(w) PROVE SweepInv'
  BY <1>1, <1>5, FinishMoves, MoneyKept DEF Cancelled, case, SweepInv, Kinds
<1>6. ASSUME NEW r \in Replicas, Crash(r) PROVE SweepInv'
  <2>1. r \in Workers /\ "idle" \in Points
    BY DEF Workers, Points
  <2>2. QED
    BY <1>1, <1>6, <2>1, SweepMoves, MoneyKept DEF Crash, case, SweepInv, Kinds
<1>7. QED
  BY <1>1, <1>2, <1>3, <1>4, <1>5, <1>6, SweepPreserves, AroundPreserves DEF Next

LEMMA SweepInit == Init => SweepInv
BY OpeningFits DEF Init, SweepInv, Kinds, Queued, ReleaseIsCovered, MarkIsBacked, Points

\* The invariant holds at every moment, whatever sweeps crash or are cancelled.
THEOREM SweepInvariance == Spec => []SweepInv
BY SweepInit, SweepNext, PTL DEF Spec

\* However many sweeps, payments and reductions run at once, what is released
\* is covered by what the project holds at that moment.
THEOREM ReleaseCovered == Spec => []ReleaseIsCovered
<1>1. SweepInv => ReleaseIsCovered
  BY DEF SweepInv
<1>2. QED
  BY <1>1, SweepInvariance, PTL

\* Whatever is cancelled or crashes in between, a stage that later sweeps
\* leave out has its retention_release row.
THEOREM MarkBacked == Spec => []MarkIsBacked
<1>1. SweepInv => MarkIsBacked
  BY DEF SweepInv
<1>2. QED
  BY <1>1, SweepInvariance, PTL

(***************************************************************************)
(* Types.  The count of the advisory lock stays within its bound because   *)
(* it is zero exactly while nobody holds the lock: each way out of it, the *)
(* last unlock, a closed connection or a crash, resets both.               *)
(***************************************************************************)
LockCounted ==
  /\ holder \in {NoConn} \cup (Replicas \X Conns) /\ depth \in 0..MaxDepth
  /\ (holder = NoConn) = (depth = 0)

\* The part of TypeOK about the rows and the failures.
Rows ==
  /\ warranty \in {"unset", "running", "expired"}
  /\ claim \in [Claims -> ClaimStatus] /\ filing \subseteq Claims
  /\ disputed \in BOOLEAN
  /\ mark \subseteq Stages /\ booked \subseteq Stages /\ paid \subseteq Stages
  /\ failures \in Nat

TypesInv == SweepInv /\ LockCounted /\ Rows

LEMMA LockNext == ASSUME LockCounted, [Next]_vars PROVE LockCounted'
<1>1. CASE UNCHANGED lock
  BY <1>1 DEF LockCounted, lock
<1>2. ASSUME NEW r \in Replicas, NEW c \in Conns, TryLock(r, c) PROVE LockCounted'
  <2>1. Conn(r, c) \in Replicas \X Conns /\ Conn(r, c) # NoConn
    BY NoConnIsNone DEF Conn
  <2>2. holder' = Conn(r, c) /\ depth' = depth + 1 /\ (holder = NoConn \/ depth < MaxDepth)
    BY <1>2 DEF TryLock
  <2>3. depth' \in 0..MaxDepth /\ depth' # 0
    BY <2>2, BoundsAreNats DEF LockCounted
  <2>4. QED
    BY <2>1, <2>2, <2>3 DEF LockCounted
<1>3. ASSUME NEW r \in Replicas, NEW c \in Conns, Expire(r, c) PROVE LockCounted'
  BY <1>3, BoundsAreNats DEF Expire, LockCounted
<1>4. ASSUME NEW r \in Replicas, NEW c \in Conns, Unlock(r, c) PROVE LockCounted'
  <2>1. CASE holder # Conn(r, c)
    BY <1>1, <1>4, <2>1 DEF Unlock
  <2>2. CASE holder = Conn(r, c)
    <3>1. holder # NoConn /\ depth \in 1..MaxDepth
      BY <2>2, NoConnIsNone DEF Conn, LockCounted
    <3>2. depth' = depth - 1 /\ holder' = IF depth = 1 THEN NoConn ELSE holder
      BY <1>4, <2>2 DEF Unlock
    <3>3. depth' \in 0..MaxDepth /\ (depth' = 0) = (depth = 1)
      BY <3>1, <3>2, BoundsAreNats
    <3>4. (holder' = NoConn) = (depth = 1)
      BY <3>1, <3>2
    <3>5. holder' \in {NoConn} \cup (Replicas \X Conns)
      BY <3>2 DEF LockCounted
    <3>6. QED
      BY <3>3, <3>4, <3>5 DEF LockCounted
  <2>3. QED
    BY <2>1, <2>2
<1>5. ASSUME NEW r \in Replicas, Crash(r) PROVE LockCounted'
  <2>1. CASE UNCHANGED lock
    BY <1>1, <2>1
  <2>2. CASE holder' = NoConn /\ depth' = 0
    BY <2>2, BoundsAreNats DEF LockCounted
  <2>3. QED
    BY <1>5, <2>1, <2>2 DEF Crash
<1>6. \/ UNCHANGED lock
      \/ \E r \in Replicas, c \in Conns : TryLock(r, c) \/ Expire(r, c) \/ Unlock(r, c)
      \/ \E r \in Replicas : Crash(r)
  <2>1. CASE UNCHANGED vars
    BY <2>1 DEF vars, lock
  <2>2. ASSUME NEW w \in Workers, SweepStep(w)
        PROVE  UNCHANGED lock \/ \E r \in Replicas, c \in Conns : Unlock(r, c)
    BY <2>2 DEF SweepStep, Scan, CheckClaims, CheckDispute, List, Reread, Release
  <2>3. CASE (\E a \in Admins : AdminRelease(a)) \/ \E w \in Workers : Cancelled(w)
    BY <2>3 DEF AdminRelease, Cancelled
  <2>4. CASE Around
    BY <2>4 DEF Around, Handover, WarrantyEnds, Dispute, BeginClaim, FileClaim, UpdateClaim, Reduce, DepositMore, PayStage, DeleteStage
  <2>5. QED
    BY <2>1, <2>2, <2>3, <2>4 DEF Next
<1>7. QED
  BY <1>1, <1>2, <1>3, <1>4, <1>5, <1>6

LEMMA RowsNext == ASSUME SweepInv, Rows, [Next]_vars PROVE Rows'
<1>1. CASE UNCHANGED vars
  BY <1>1 DEF Rows, vars, case, money
<1>2. ASSUME NEW w \in Workers, SweepStep(w) PROVE Rows'
  <2>1. UNCHANGED case /\ UNCHANGED failures
    BY <1>2 DEF SweepStep, Scan, CheckClaims, CheckDispute, List, Reread, Release, Unlock
  <2>2. mark' \subseteq Stages /\ booked' \subseteq Stages
    <3>1. CASE UNCHANGED money
      BY <3>1 DEF Rows, money
    <3>2. CASE Release(w)
      <4>1. First(queue[w]) \in Stages
        BY <3>2, FirstIn DEF Release, SweepInv, Queued, Kinds
      <4>2. QED
        BY <3>1, <3>2, <4>1 DEF Release, Rows
    <3>3. QED
      BY <1>2, <3>1, <3>2 DEF SweepStep, Scan, CheckClaims, CheckDispute, List, Reread, Unlock
  <2>3. QED
    BY <2>1, <2>2 DEF Rows, case
<1>3. ASSUME NEW r \in Replicas, NEW c \in Conns, TryLock(r, c) \/ Expire(r, c) PROVE Rows'
  BY <1>3 DEF TryLock, Expire, Rows, case, money
<1>4. CASE \/ \E a \in Admins : AdminRelease(a)
           \/ \E w \in Workers : Cancelled(w)
           \/ \E r \in Replicas : Crash(r)
  BY <1>4 DEF AdminRelease, Cancelled, Crash, Rows, case, money
<1>5. CASE Around
  <2>1. /\ warranty' \in {"unset", "running", "expired"} /\ disputed' \in BOOLEAN /\ UNCHANGED failures
    BY <1>5 DEF Around, Handover, WarrantyEnds, Dispute, BeginClaim, FileClaim, UpdateClaim, Reduce, DepositMore, PayStage, DeleteStage, Rows, case
  <2>2. claim' \in [Claims -> ClaimStatus] /\ filing' \subseteq Claims
    BY <1>5 DEF Around, Handover, WarrantyEnds, Dispute, BeginClaim, FileClaim, UpdateClaim, Reduce, DepositMore, PayStage, DeleteStage, Rows, case,
       ClaimStatus
  <2>3. mark' \subseteq Stages /\ booked' \subseteq Stages /\ paid' \subseteq Stages
    BY <1>5 DEF Around, Handover, WarrantyEnds, Dispute, BeginClaim, FileClaim, UpdateClaim, Reduce, DepositMore, PayStage, DeleteStage, Rows, case,
       money, SweepInv, Kinds
  <2>4. QED
    BY <2>1, <2>2, <2>3 DEF Rows
<1>6. QED
  BY <1>1, <1>2, <1>3, <1>4, <1>5 DEF Next

LEMMA TypesInit == Init => TypesInv
<1>1. Init => LockCounted
  BY BoundsAreNats DEF Init, LockCounted
<1>2. Init => Rows
  <2> SUFFICES ASSUME Init PROVE Rows
    OBVIOUS
  <2>1. booked \subseteq Stages /\ warranty = "unset" /\ disputed = FALSE /\ mark = {} /\ paid = {} /\ filing = {} /\ failures = 0
    BY StageIds DEF Init
  <2>2. claim \in [Claims -> ClaimStatus]
    BY DEF Init, ClaimStatus
  <2>3. QED
    BY <2>1, <2>2 DEF Rows
<1>3. QED
  BY <1>1, <1>2, SweepInit DEF TypesInv

\* However often a connection re-takes the lock, and whoever closes or crashes,
\* every variable of the sweep keeps its type.
THEOREM SweepTypes == Spec => []TypeOK
<1>1. TypesInv /\ [Next]_vars => TypesInv'
  BY SweepNext, LockNext, RowsNext DEF TypesInv
<1>2. TypesInv => TypeOK
  BY DEF TypesInv, SweepInv, Kinds, LockCounted, Rows, TypeOK
<1>3. QED
  BY <1>1, <1>2, TypesInit, PTL DEF Spec

=============================================================================
