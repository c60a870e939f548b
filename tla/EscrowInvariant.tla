---------------------------- MODULE EscrowInvariant ----------------------------
(***************************************************************************)
(* The inductive invariant behind NoOverspend and MoneyRespectsFreeze.     *)
(* Neither is inductive: a commit is safe because of what its transaction  *)
(* checked several steps earlier and of the lock it has held since.  Ready *)
(* says it for every point a session can be at.                            *)
(***************************************************************************)
EXTENDS EscrowProject

\* Points before the first write of a transaction.
Unwritten == {"idle", "verify.project", "verify.stage", "markPaid.project",
              "markPaid.settlement", "markPaid.stage", "upload.stage", "edit.stage",
              "delete.stage", "open.insert", "withdraw.dispute", "act.cancel",
              "act.refund", "act.release", "act.pay", "act.insert", "adjust.project",
              "terminate.project"}

\* Points only reached with the project row locked FOR UPDATE.
Locked == {"verify.stage", "record", "record.insert", "commit", "markPaid.settlement", "markPaid.stage"}

\* Points of a request about one stage.
AboutStage == {"verify.project", "verify.stage", "record", "record.insert", "markPaid.project",
               "markPaid.settlement", "markPaid.stage", "upload.stage", "edit.stage",
               "delete.stage", "act.refund", "act.reverse", "act.release", "act.pay",
               "act.insert", "act.slot"}

\* What the request carries by the time it gets to a point.
Fits(point, r) ==
  /\ point \in AboutStage => r.stage \in Stages
  /\ point \in {"act.refund", "act.reverse"} => r.dispute \in Disputes /\ r.amount \in Amounts
  /\ point \in {"act.release", "act.pay", "act.insert", "act.slot"} => r.choice = "release_payment"
  /\ point = "edit.stage" => r.choice \in Editable
  /\ point = "open.insert" => r.amount \in Amounts \cup {NoClaim}
  /\ point = "adjust.project" => r.amount \in Amounts

\* A payment in the buffer still fits the ceiling, under the lock that keeps
\* it so, and either no dispute is open or the payment resolves one.
PaymentReady(point, r, w, m) ==
  /\ r.stage \in Stages
  /\ w.rows = {Payment(r.stage)}
  /\ w.budget = Kept
  /\ m = "exclusive"
  /\ Net[r.stage] <= Available
  /\ \/ point = "commit" /\ ~Frozen
     \/ point \in {"act.slot", "act.close", "act.touch"} /\ r.choice = "release_payment"

RefundReady(point, w) ==
  /\ point \in {"act.close", "act.touch"}
  /\ w.budget = Kept
  /\ \E d \in Disputes, s \in Stages, n \in Amounts : w.rows = {Refund(d, s, n)}

\* A new ceiling in the buffer still covers what is paid.
BudgetReady(point, w, m) ==
  /\ point = "commit"
  /\ m = "exclusive"
  /\ w.rows = {}
  /\ PaidTotal <= w.budget
  /\ w.budget < budget => ~Frozen

Ready(point, r, w, m) ==
  /\ Fits(point, r)
  /\ point \in Unwritten => w = NoWrites
  /\ point \in Locked => m = "exclusive"
  /\ \/ w.rows = {}
     \/ PaymentReady(point, r, w, m)
     \/ RefundReady(point, w)
  /\ w.budget # Kept => BudgetReady(point, w, m)
  /\ w.dispute # "open"
  /\ point = "record.insert" => ~Frozen
  /\ point = "terminate.stages" => w.contract = "ended"

SessionsReady == \A p \in Sessions : Ready(at[p], req[p], writes[p], mode[p])

LocksCompatible == \A p, q \in Sessions : p # q => ~Conflict(mode[p], mode[q])

\* What every reachable state satisfies and every step preserves: the
\* transactions in flight are ready to commit, their locks agree, and the
\* ledger fits the ceiling.
IInv ==
  /\ TypeOK
  /\ IsFiniteSet(ledger)
  /\ LocksCompatible
  /\ SessionsReady
  /\ NoOverspend

=============================================================================
