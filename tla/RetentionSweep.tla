---------------------------- MODULE RetentionSweep ----------------------------
(***************************************************************************)
(* The release of retention balances.  A part of each stage is held back   *)
(* until the warranty of the project ends; a daily sweep of every gateway  *)
(* replica, or an admin by hand, then books one retention_release row per  *)
(* stage and marks the stage.  Replicas elect a winner with an advisory    *)
(* lock that PostgreSQL keeps per connection, while the gateway takes any  *)
(* pooled connection for each statement.                                   *)
(*                                                                         *)
(* Each statement of the sweep outside releaseOneRetention's transaction   *)
(* is a step of its own.  Inside it everything after SELECT ... FOR UPDATE *)
(* of the project is one step: the other writers of the ceiling, the       *)
(* ledger and the disputes wait for that row.                              *)
(***************************************************************************)
EXTENDS Integers, FiniteSets

CONSTANTS
  Replicas,      \* gateway processes, each with a scheduler loop
  Admins,        \* admin requests that run the sweep by hand
  Conns,         \* the pooled connections of one replica
  Stages,        \* ids of the stages that hold a retention
  Held,          \* Held[s]: retention_amount of stage s
  HalfWritten,   \* stages whose ledger row may exist without the mark
  Claims,        \* ids the warranty claims may get
  Opening,       \* what the ceiling leaves at the start
  MaxCeiling,    \* bound: no deposit is asked for above this
  MaxFailures,   \* bound: crashes and cancelled sweeps
  MaxDepth,      \* bound: how often one connection re-takes the advisory lock
  NoConn

ASSUME StageIds      == Stages \subseteq Nat /\ HalfWritten \subseteq Stages
ASSUME HeldPositive  == Held \in [Stages -> Nat \ {0}]
ASSUME OpeningFits   == Opening \in Nat /\ MaxCeiling \in Nat
ASSUME WorkersDiffer == Replicas \cap Admins = {}
ASSUME BoundsAreNats == MaxFailures \in Nat /\ MaxDepth \in Nat \ {0}
ASSUME NoConnIsNone  == NoConn \notin Replicas \X Conns

VARIABLES
  warranty,      \* projects.warranty_end_at: unset, in the future, passed
  claim,         \* project_warranty_claims.status
  filing,        \* claims whose request has passed the date check
  disputed,      \* an open project_disputes row exists
  mark,          \* stages with retention_released_at
  booked,        \* stages with a retention_release row
  stages,        \* the stage rows that still exist
  paid,          \* the stages paid, or on their way to it (verifying, paid)
  free,          \* projects.budget minus paidTotalMinor
  at, queue,     \* where each sweep is, and the stages it has yet to release
  holder, depth, \* the connection with the advisory lock, and how often it took it
  failures

money == <<mark, booked, free>>
sweep == <<at, queue>>
lock  == <<holder, depth>>
case  == <<warranty, claim, filing, disputed, stages, paid>>
vars  == <<case, money, sweep, lock, failures>>

Workers     == Replicas \cup Admins
ClaimStatus == {"none", "open", "resolved"}
Points      == {"idle", "scan", "claims", "dispute", "list", "reread", "release", "unlock"}

Blocking == \E c \in Claims : claim[c] = "open"
First(S) == CHOOSE s \in S : \A t \in S : s <= t

\* A sweep that is over: the scheduler still has to give the lock back.
Over(w) == IF w \in Replicas THEN "unlock" ELSE "idle"

Goto(w, point) == at' = [at EXCEPT ![w] = point]
Finish(w) == Goto(w, Over(w)) /\ queue' = [queue EXCEPT ![w] = {}]

(***************************************************************************)
(* The advisory lock of runWithLock.  The three statements may run on      *)
(* three connections: unlocking on one that does not hold the lock does    *)
(* nothing but warn, and a connection that holds it may take it again.     *)
(***************************************************************************)
Conn(r, c) == <<r, c>>

TryLock(r, c) ==
  /\ at[r] = "idle"
  /\ holder = NoConn \/ (holder = Conn(r, c) /\ depth < MaxDepth)
  /\ holder' = Conn(r, c)
  /\ depth' = depth + 1
  /\ Goto(r, "scan")
  /\ UNCHANGED <<case, money, queue, failures>>

Unlock(r, c) ==
  /\ at[r] = "unlock"
  /\ Goto(r, "idle")
  /\ IF holder # Conn(r, c) THEN UNCHANGED lock
     ELSE /\ depth' = depth - 1
          /\ holder' = IF depth = 1 THEN NoConn ELSE holder
  /\ UNCHANGED <<case, money, queue, failures>>

\* Mutant: the server forgets the lock of a closed connection but not its count.
ExpireKeepsDepth(r, c) ==
  /\ holder = Conn(r, c)
  /\ holder' = NoConn
  /\ UNCHANGED <<case, money, sweep, depth, failures>>

\* The pool closes a connection that is old or idle; its locks go with it.
Expire(r, c) ==
  /\ holder = Conn(r, c)
  /\ holder' = NoConn
  /\ depth' = 0
  /\ UNCHANGED <<case, money, sweep, failures>>

(***************************************************************************)
(* ReleaseExpiredRetentions.                                               *)
(***************************************************************************)
AdminRelease(a) ==
  /\ a \in Admins /\ at[a] = "idle"
  /\ Goto(a, "scan")
  /\ UNCHANGED <<case, money, queue, lock, failures>>

Scan(w) ==
  /\ at[w] = "scan"
  /\ IF warranty = "expired" THEN Goto(w, "claims") /\ UNCHANGED queue ELSE Finish(w)
  /\ UNCHANGED <<case, money, lock, failures>>

CheckClaims(w) ==
  /\ at[w] = "claims"
  /\ IF Blocking THEN Finish(w) ELSE Goto(w, "dispute") /\ UNCHANGED queue
  /\ UNCHANGED <<case, money, lock, failures>>

CheckDispute(w) ==
  /\ at[w] = "dispute"
  /\ IF disputed THEN Finish(w) ELSE Goto(w, "list") /\ UNCHANGED queue
  /\ UNCHANGED <<case, money, lock, failures>>

List(w) ==
  /\ at[w] = "list"
  /\ IF stages \subseteq mark THEN Finish(w)
     ELSE Goto(w, "reread") /\ queue' = [queue EXCEPT ![w] = stages \ mark]
  /\ UNCHANGED <<case, money, lock, failures>>

\* The loop over the listed stages goes on with the next one.
NextStage(w) ==
  LET rest == queue[w] \ {First(queue[w])} IN
  IF rest = {} THEN Finish(w)
  ELSE Goto(w, "reread") /\ queue' = [queue EXCEPT ![w] = rest]

\* releaseOneRetention before the lock: a stage that is gone or released is left.
Reread(w) ==
  /\ at[w] = "reread"
  /\ IF First(queue[w]) \in stages \ mark THEN Goto(w, "release") /\ UNCHANGED queue
     ELSE NextStage(w)
  /\ UNCHANGED <<case, money, lock, failures>>

\* Mutant: a ledger row without the mark counts as released.
ReleaseNoRepair(w) ==
  LET s == First(queue[w]) IN
  /\ at[w] = "release"
  /\ IF free < Held[s] \/ s \in booked THEN UNCHANGED money
     ELSE /\ booked' = booked \cup {s}
          /\ free' = free - Held[s]
          /\ mark' = mark \cup ({s} \cap stages)
  /\ NextStage(w)
  /\ UNCHANGED <<case, lock, failures>>

\* Mutant: the ceiling is not looked at again under the lock.
ReleaseUncovered(w) ==
  LET s == First(queue[w]) IN
  /\ at[w] = "release"
  /\ booked' = booked \cup {s}
  /\ free' = IF s \in booked THEN free ELSE free - Held[s]
  /\ mark' = mark \cup ({s} \cap stages)
  /\ NextStage(w)
  /\ UNCHANGED <<case, lock, failures>>

\* Mutant: the mark is written even when the ceiling does not cover the row.
ReleaseMarksAlways(w) ==
  LET s == First(queue[w]) IN
  /\ at[w] = "release"
  /\ IF free < Held[s] THEN UNCHANGED <<booked, free>>
     ELSE /\ booked' = booked \cup {s}
          /\ free' = IF s \in booked THEN free ELSE free - Held[s]
  /\ mark' = mark \cup ({s} \cap stages)
  /\ NextStage(w)
  /\ UNCHANGED <<case, lock, failures>>

\* releaseOneRetention from SELECT ... FOR UPDATE to COMMIT: too little left
\* means the next run, a row that exists only needs its mark.
Release(w) ==
  LET s == First(queue[w]) IN
  /\ at[w] = "release"
  /\ IF free < Held[s] THEN UNCHANGED money
     ELSE /\ booked' = booked \cup {s}
          /\ free' = IF s \in booked THEN free ELSE free - Held[s]
          /\ mark' = mark \cup ({s} \cap stages)
  /\ NextStage(w)
  /\ UNCHANGED <<case, lock, failures>>

\* The ten minutes are over or a statement outside the loop failed.
Cancelled(w) ==
  /\ at[w] \notin {"idle", "unlock"} /\ failures < MaxFailures
  /\ failures' = failures + 1
  /\ Finish(w)
  /\ UNCHANGED <<case, money, lock>>

\* A replica dies: its sweep is forgotten, its connections close.
Crash(r) ==
  /\ failures < MaxFailures
  /\ failures' = failures + 1
  /\ at' = [at EXCEPT ![r] = "idle"]
  /\ queue' = [queue EXCEPT ![r] = {}]
  /\ IF holder \in {r} \X Conns THEN holder' = NoConn /\ depth' = 0 ELSE UNCHANGED lock
  /\ UNCHANGED <<case, money>>

(***************************************************************************)
(* What happens around the sweep.                                          *)
(***************************************************************************)
\* handoverFinalize: the warranty starts, again if the owner accepts again.
Handover ==
  /\ warranty' = "running"
  /\ UNCHANGED <<claim, filing, disputed, stages, paid, money, sweep, lock, failures>>

WarrantyEnds ==
  /\ warranty = "running"
  /\ warranty' = "expired"
  /\ UNCHANGED <<claim, filing, disputed, stages, paid, money, sweep, lock, failures>>

\* StoreWarrantyClaimHandler: the date check, then uploads, then the INSERT.
BeginClaim(c) ==
  /\ warranty = "running" /\ claim[c] = "none"
  /\ filing' = filing \cup {c}
  /\ UNCHANGED <<warranty, claim, disputed, stages, paid, money, sweep, lock, failures>>

FileClaim(c) ==
  /\ c \in filing
  /\ filing' = filing \ {c}
  /\ claim' = [claim EXCEPT ![c] = "open"]
  /\ UNCHANGED <<warranty, disputed, stages, paid, money, sweep, lock, failures>>

\* The sweep reads 'fixing' as it reads 'open', and 'closed' as 'resolved'.
UpdateClaim(c, status) ==
  /\ claim[c] # "none"
  /\ claim' = [claim EXCEPT ![c] = status]
  /\ UNCHANGED <<warranty, filing, disputed, stages, paid, money, sweep, lock, failures>>

\* A dispute is filed, or the last one is closed.
Dispute ==
  /\ disputed' = ~disputed
  /\ UNCHANGED <<warranty, claim, filing, stages, paid, money, sweep, lock, failures>>

\* A stage is paid its net: never under a dispute, never beyond the ceiling.
PayStage(s) ==
  /\ s \in stages \ paid /\ ~disputed /\ free >= 1
  /\ paid' = paid \cup {s}
  /\ free' = free - 1
  /\ UNCHANGED <<warranty, claim, filing, disputed, stages, mark, booked, sweep, lock, failures>>

\* A reduction takes from what the ceiling leaves, a deposit adds.
Reduce(n) ==
  /\ ~disputed /\ free >= n
  /\ free' = free - n
  /\ UNCHANGED <<case, mark, booked, sweep, lock, failures>>

DepositMore(n) ==
  /\ free + n <= MaxCeiling
  /\ free' = free + n
  /\ UNCHANGED <<case, mark, booked, sweep, lock, failures>>

\* DeletePaymentTerminHandler: no money asked for yet; a ledger row stays.
DeleteStage(s) ==
  /\ s \in stages \ paid
  /\ stages' = stages \ {s}
  /\ mark' = mark \ {s}
  /\ UNCHANGED <<warranty, claim, filing, disputed, paid, booked, free, sweep, lock, failures>>

(***************************************************************************)
(* The system.                                                             *)
(***************************************************************************)
SweepStep(w) ==
  \/ Scan(w) \/ CheckClaims(w) \/ CheckDispute(w) \/ List(w) \/ Reread(w) \/ Release(w)
  \/ w \in Replicas /\ \E c \in Conns : Unlock(w, c)

Around ==
  \/ Handover \/ WarrantyEnds \/ Dispute
  \/ \E c \in Claims : BeginClaim(c) \/ FileClaim(c)
  \/ \E c \in Claims, status \in {"open", "resolved"} : UpdateClaim(c, status)
  \/ Reduce(1) \/ DepositMore(1)
  \/ \E s \in Stages : PayStage(s) \/ DeleteStage(s)

Init ==
  /\ warranty = "unset"
  /\ claim = [c \in Claims |-> "none"]
  /\ filing = {}
  /\ disputed = FALSE
  /\ mark = {}
  /\ booked \in SUBSET HalfWritten
  /\ stages = Stages
  /\ paid = {}
  /\ free = Opening
  /\ at = [w \in Workers |-> "idle"]
  /\ queue = [w \in Workers |-> {}]
  /\ holder = NoConn
  /\ depth = 0
  /\ failures = 0

Next ==
  \/ \E r \in Replicas, c \in Conns : TryLock(r, c) \/ Expire(r, c)
  \/ \E a \in Admins : AdminRelease(a)
  \/ \E w \in Workers : SweepStep(w) \/ Cancelled(w)
  \/ \E r \in Replicas : Crash(r)
  \/ Around

Spec == Init /\ [][Next]_vars

(***************************************************************************)
(* Fairness.  A sweep that runs goes on; the pool closes the connections   *)
(* it holds (five minutes at most); the loops tick every 24 hours, so long *)
(* after any lock is gone: if often some replica could take it, one does.  *)
(***************************************************************************)
FairSpec ==
  /\ Spec
  /\ \A r \in Replicas : WF_vars(SweepStep(r))
  /\ SF_vars(\E r \in Replicas, c \in Conns : TryLock(r, c))
  /\ WF_vars(\E r \in Replicas, c \in Conns : Expire(r, c))

(***************************************************************************)
(* Properties.                                                             *)
(***************************************************************************)
TypeOK ==
  /\ warranty \in {"unset", "running", "expired"}
  /\ claim \in [Claims -> ClaimStatus] /\ filing \subseteq Claims
  /\ disputed \in BOOLEAN
  /\ mark \subseteq Stages /\ booked \subseteq Stages
  /\ stages \subseteq Stages /\ paid \subseteq Stages
  /\ free \in Int
  /\ at \in [Workers -> Points] /\ queue \in [Workers -> SUBSET Stages]
  /\ holder \in {NoConn} \cup (Replicas \X Conns) /\ depth \in 0..MaxDepth
  /\ failures \in Nat

\* What was released, paid and reduced never exceeds what the project holds,
\* however sweeps, payments and reductions interleave: releaseOneRetention
\* compares under the project lock what it listed long before.
ReleaseIsCovered == free >= 0

\* A stage marked as released has its ledger row: the mark is what later
\* sweeps trust when they leave a stage out.
MarkIsBacked == mark \subseteq booked

\* A stage whose warranty has ended for good, uncontested and covered, is
\* released although replicas crash, sweeps are cancelled and the advisory
\* lock is given back on the wrong connection.
Releasable(s) ==
  /\ warranty = "expired" /\ ~Blocking /\ ~disputed
  /\ s \in stages /\ free >= Held[s]
RetentionReachesStage ==
  \A s \in Stages : <>[]Releasable(s) => <>(s \in mark)
=============================================================================
