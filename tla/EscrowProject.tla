---------------------------- MODULE EscrowProject ----------------------------
(***************************************************************************)
(* The escrow of one project: its payment stages, its ledger, its ceiling, *)
(* its disputes and the HTTP handlers that move money on it, interleaved   *)
(* as PostgreSQL READ COMMITTED transactions.                              *)
(*                                                                         *)
(* A session is one request being served.  A request is cut into the steps *)
(* at which the code waits for a row lock or trusts something it read      *)
(* earlier; what a transaction wrote and did not commit is in writes.      *)
(* Row locks are PostgreSQL's: FOR UPDATE is "exclusive", the lock of an   *)
(* UPDATE that touches no key is "update", the lock a foreign key check    *)
(* takes on the project row is "share".                                    *)
(***************************************************************************)
EXTENDS Integers, FiniteSets, LedgerSum

CONSTANTS
  Sessions,     \* concurrent requests on the project
  Stages,       \* ids of the project_payment_termins rows of one role
  Disputes,     \* ids the project_disputes rows may get
  Net,          \* Net[s]: what terminNetMinor prices stage s at
  Amounts,      \* amounts a request may carry (refund, deposit, reduction, claim)
  Opening,      \* the ceiling the project starts with
  MaxBudget,    \* bound: no deposit is asked for above this ceiling
  Requests,     \* which requests the clients of this instance make
  NoStage, NoDispute, NoSession

ASSUME StagesAssumption   == Stages \subseteq Nat /\ NoStage \notin Stages
ASSUME NetAssumption      == Net \in [Stages -> Nat \ {0}]
ASSUME AmountsAssumption  == Amounts \subseteq Nat \ {0}
ASSUME CeilingAssumption  == Opening \in Nat /\ MaxBudget \in Nat
ASSUME SentinelAssumption == NoDispute \notin Disputes /\ NoSession \notin Sessions

VARIABLES
  status,       \* project_payment_termins.status, "absent" once deleted
  mirror,       \* project_payment_termins.refunded_amount
  ledger,       \* the payment and refund rows of project_budget_transactions
  budget,       \* projects.budget, the ceiling
  dispute,      \* project_disputes: status, linked stage, disputed_amount
  project,      \* projects.status
  contract,     \* the live bid of the role and, with it, the project's slot
  at, req,      \* where each session is, and what it was asked or has read
  writes,       \* what its transaction wrote and has not committed
  mode,         \* its lock on the project row
  rowLock,      \* who holds each stage row
  disputeLock   \* who holds each dispute row

rows  == <<status, mirror, ledger, budget, dispute, project, contract>>
locks == <<mode, rowLock, disputeLock>>
vars  == <<rows, at, req, writes, locks>>

(***************************************************************************)
(* What the columns may hold.                                              *)
(***************************************************************************)
StageStatus   == {"locked", "pending", "invoice_sent", "verifying", "paid",
                  "refunded", "void", "absent"}
Editable      == {"locked", "pending", "invoice_sent"}
Settled       == {"paid", "refunded", "void"}
DisputeStatus == {"none", "open", "withdrawn", "dismissed", "resolved"}
ProjectStatus == {"open", "in_progress", "cancelled"}
Contract      == {"awaiting_payment", "accepted", "ended"}
Modes         == {"none", "share", "update", "exclusive"}

Payment(s)      == [type |-> "payment", ref |-> s, reverses |-> NoStage, amount |-> Net[s]]
Refund(d, s, n) == [type |-> "refund", ref |-> d, reverses |-> s, amount |-> -n]
Row == {Payment(s) : s \in Stages}
         \cup {Refund(d, s, n) : d \in Disputes, s \in Stages, n \in Amounts}

PaidTotal          == Total(ledger)
Available          == budget - PaidTotal
PaidAgainst(s)     == Total({r \in ledger : r.type = "payment" /\ r.ref = s})
RefundedAgainst(s) == -Total({r \in ledger : r.type = "refund" /\ r.reverses = s})
HasPayment(s)      == \E r \in ledger : r.type = "payment" /\ r.ref = s
HasRefund(d)       == \E r \in ledger : r.type = "refund" /\ r.ref = d

Frozen == \E d \in Disputes : dispute[d].status = "open"

(***************************************************************************)
(* Requests and transactions.                                              *)
(***************************************************************************)
Kept      == -1   \* a number column the transaction has not written ("" for a word)
NoClaim   == -1   \* disputed_amount is NULL
NoRequest == [stage |-> NoStage, dispute |-> NoDispute, choice |-> "", amount |-> 0]
NoWrites  == [rows |-> {}, status |-> "", mirror |-> Kept, budget |-> Kept,
              dispute |-> "", project |-> "", contract |-> ""]

Idle(p)      == at[p] = "idle"
Stage(p)     == req[p].stage
Asks(p, op)  == Idle(p) /\ op \in Requests

\* Mutant: the project is locked FOR NO KEY UPDATE, which the foreign key
\* check of a new dispute does not wait for.
ConflictNoKeyUpdate(a, b) == {a, b} \subseteq {"update", "exclusive"}

\* Two row locks that cannot be held together.
Conflict(a, b) == \/ "exclusive" \in {a, b} /\ "none" \notin {a, b}
                  \/ a = "update" /\ b = "update"

\* The lock the next statement of p takes on the project row.
ProjectNeed(p) ==
  CASE at[p] \in {"verify.project", "markPaid.project", "adjust.project"} -> "exclusive"
    [] at[p] \in {"record.insert", "act.insert"}                           -> "exclusive"
    [] at[p] = "act.slot" /\ writes[p].contract # ""                      -> "update"
    [] at[p] \in {"withdraw.project", "act.cancel", "act.touch",
                  "terminate.project"}                                    -> "update"
    [] at[p] \in {"open.insert", "act.reverse"}                           -> "share"
    [] OTHER                                                              -> "none"

\* Mutant: record_refund reads the stage without FOR UPDATE.
StageNeedUnlockedRefund(p) ==
  IF at[p] \in {"verify.stage", "markPaid.stage", "upload.stage", "edit.stage",
                "delete.stage", "act.release"} THEN {Stage(p)} ELSE {}

\* Mutant: release_payment reads the stage without FOR UPDATE.
StageNeedUnlockedRelease(p) ==
  CASE at[p] \in {"verify.stage", "markPaid.stage", "upload.stage", "edit.stage",
                  "delete.stage", "act.refund"} -> {Stage(p)}
    [] at[p] = "terminate.stages" -> {s \in Stages : status[s] \in Editable}
    [] OTHER -> {}

\* The stage rows the next statement of p locks.
StageNeed(p) ==
  CASE at[p] \in {"verify.stage", "markPaid.stage", "upload.stage", "edit.stage",
                  "delete.stage", "act.refund", "act.release"} -> {Stage(p)}
    [] at[p] = "terminate.stages" -> {s \in Stages : status[s] \in Editable}
    [] OTHER -> {}

DisputeNeed(p) ==
  IF at[p] \in {"withdraw.dispute", "act.close"} THEN {req[p].dispute} ELSE {}

\* The sessions p waits for before its next statement can run.
Blockers(p) ==
  {q \in Sessions \ {p} : \/ Conflict(ProjectNeed(p), mode[q])
                          \/ \E s \in StageNeed(p) : rowLock[s] = q
                          \/ \E d \in DisputeNeed(p) : disputeLock[d] = q}

Runs(p, point) == at[p] = point /\ Blockers(p) = {}

Goto(p, point) == at' = [at EXCEPT ![p] = point]

Strengthen(p, m) ==
  mode' = [mode EXCEPT ![p] = IF @ = "exclusive" THEN @ ELSE m]

\* The connection goes back to the pool: nothing of the request is left.
Done(p) ==
  /\ at' = [at EXCEPT ![p] = "idle"]
  /\ req' = [req EXCEPT ![p] = NoRequest]
  /\ writes' = [writes EXCEPT ![p] = NoWrites]
  /\ mode' = [mode EXCEPT ![p] = "none"]
  /\ rowLock' = [s \in Stages |-> IF rowLock[s] = p THEN NoSession ELSE rowLock[s]]
  /\ disputeLock' = [d \in Disputes |-> IF disputeLock[d] = p THEN NoSession ELSE disputeLock[d]]

Rollback(p) == Done(p) /\ UNCHANGED rows

\* A request whose answer needs no row lock yet: it remembers what it read.
Begin(p, point, r) ==
  /\ Goto(p, point)
  /\ req' = [req EXCEPT ![p] = r]
  /\ UNCHANGED <<rows, writes, locks>>

\* A statement of p got its project lock (m) and the transaction goes on.
Proceed(p, m, w, point) ==
  /\ Strengthen(p, m)
  /\ writes' = [writes EXCEPT ![p] = w]
  /\ Goto(p, point)
  /\ UNCHANGED <<rows, req, rowLock, disputeLock>>

\* The same after a SELECT ... FOR UPDATE of the stage row.
ProceedWithStage(p, w, point) ==
  /\ rowLock' = [rowLock EXCEPT ![Stage(p)] = p]
  /\ writes' = [writes EXCEPT ![p] = w]
  /\ Goto(p, point)
  /\ UNCHANGED <<rows, req, mode, disputeLock>>

\* COMMIT.  budget_tx_reference_unique keeps one row per (reference, type): an
\* INSERT fails when the row is there (ActReverse, InsertPayment), and waits
\* for the transaction that is writing the same one, to fail when it commits.
Commit(p) ==
  LET w == writes[p] IN
  IF \E r \in w.rows, l \in ledger : r.type = l.type /\ r.ref = l.ref
    THEN Rollback(p)
    ELSE /\ ledger' = ledger \cup w.rows
         /\ status' = IF w.status = "" THEN status ELSE [status EXCEPT ![Stage(p)] = w.status]
         /\ mirror' = IF w.mirror = Kept THEN mirror ELSE [mirror EXCEPT ![Stage(p)] = w.mirror]
         /\ budget' = IF w.budget = Kept THEN budget ELSE w.budget
         /\ dispute' = IF w.dispute = "" THEN dispute
                       ELSE [dispute EXCEPT ![req[p].dispute].status = w.dispute]
         /\ project' = IF w.project = "" THEN project ELSE w.project
         /\ contract' = IF w.contract = "" THEN contract ELSE w.contract
         /\ Done(p)

CommitStep(p) == at[p] = "commit" /\ Commit(p)

\* checkAndActivateBid: the first verified stage turns the awaiting bid into
\* the accepted one and gives it the project's slot.
Activated == IF contract = "awaiting_payment" THEN "accepted" ELSE ""

\* recordPaymentMinorInner up to its lock: freeze check and dedupe, by plain
\* reads.  A payment that is there already is reported as written...
Dedupe(p, checkFreeze, w, written, insert) ==
  IF checkFreeze /\ Frozen THEN Rollback(p)
  ELSE IF HasPayment(Stage(p)) THEN Proceed(p, mode[p], w, written)
  ELSE Proceed(p, mode[p], writes[p], insert)

\* Mutant: the ceiling is compared with the amount, not with what is left.
InsertPaymentOverspends(p, w, written) ==
  IF budget < Net[Stage(p)] \/ HasPayment(Stage(p)) THEN Rollback(p)
  ELSE Proceed(p, "exclusive", [w EXCEPT !.rows = {Payment(Stage(p))}], written)

\* ...and another one waits for the project FOR UPDATE: affordability, INSERT.
InsertPayment(p, w, written) ==
  IF Available < Net[Stage(p)] \/ HasPayment(Stage(p)) THEN Rollback(p)
  ELSE Proceed(p, "exclusive", [w EXCEPT !.rows = {Payment(Stage(p))}], written)

Record(p) ==
  \/ Runs(p, "record") /\ Dedupe(p, TRUE, writes[p], "commit", "record.insert")
  \/ Runs(p, "record.insert") /\ InsertPayment(p, writes[p], "commit")

(***************************************************************************)
(* VerifyProofHandler: the payee accepts or rejects an uploaded proof.     *)
(***************************************************************************)
BeginVerify(p, s, verdict) ==
  /\ Asks(p, "verify")
  /\ ~Frozen
  /\ Begin(p, "verify.project", [NoRequest EXCEPT !.stage = s, !.choice = verdict])

\* Mutant: the frozen answer returns without closing the transaction.
LockForVerifyLeaks(p) ==
  /\ Runs(p, "verify.project")
  /\ IF Frozen THEN Proceed(p, "exclusive", NoWrites, "idle")
     ELSE Proceed(p, "exclusive", NoWrites, "verify.stage")

LockForVerify(p) ==
  /\ Runs(p, "verify.project")
  /\ IF Frozen THEN Rollback(p) ELSE Proceed(p, "exclusive", NoWrites, "verify.stage")

\* Mutant: a rejected proof gets a status the schema does not know.
DecideVerifyRejected(p) ==
  /\ Runs(p, "verify.stage")
  /\ IF status[Stage(p)] # "verifying" THEN Rollback(p)
     ELSE IF req[p].choice = "reject"
       THEN ProceedWithStage(p, [NoWrites EXCEPT !.status = "rejected"], "commit")
       ELSE ProceedWithStage(p, [NoWrites EXCEPT !.status = "paid", !.contract = Activated], "record")

\* payment_proof_path is set by the statement that sets 'verifying' and
\* never cleared, so the status check stands for both.
DecideVerify(p) ==
  /\ Runs(p, "verify.stage")
  /\ IF status[Stage(p)] # "verifying" THEN Rollback(p)
     ELSE IF req[p].choice = "reject"
       THEN ProceedWithStage(p, [NoWrites EXCEPT !.status = "pending"], "commit")
       ELSE ProceedWithStage(p, [NoWrites EXCEPT !.status = "paid", !.contract = Activated], "record")

(***************************************************************************)
(* MarkPaidHandler: the owner declares a stage paid.                       *)
(***************************************************************************)
BeginMarkPaid(p, s) ==
  Asks(p, "markPaid") /\ Begin(p, "markPaid.project", [NoRequest EXCEPT !.stage = s])

LockForMarkPaid(p) ==
  /\ Runs(p, "markPaid.project")
  /\ IF Frozen THEN Rollback(p) ELSE Proceed(p, "exclusive", NoWrites, "markPaid.settlement")

\* Mutant: the settlement check forgets the refunded stages.
CheckSettlementForgets(p) ==
  Runs(p, "markPaid.settlement") /\ Proceed(p, "exclusive", NoWrites, "markPaid.stage")

\* markPaidSettlement reads the status without locking the stage row...
CheckSettlement(p) ==
  /\ Runs(p, "markPaid.settlement")
  /\ IF status[Stage(p)] = "refunded" THEN Rollback(p)
     ELSE Proceed(p, "exclusive", NoWrites, "markPaid.stage")

\* ...and markPaidTermin locks it and refuses only a paid one.
MarkPaidStage(p) ==
  /\ Runs(p, "markPaid.stage")
  /\ IF status[Stage(p)] \in {"paid", "absent"} THEN Rollback(p)
     ELSE ProceedWithStage(p, [NoWrites EXCEPT !.status = "paid"], "record")

(***************************************************************************)
(* UploadProofHandler: no lock on the project, no second freeze check.     *)
(***************************************************************************)
UnpaidPrevious(s) == \E t \in Stages : t < s /\ status[t] \notin {"paid", "verifying", "absent"}

BeginUpload(p, s) ==
  /\ Asks(p, "upload")
  /\ ~Frozen
  /\ Begin(p, "upload.stage", [NoRequest EXCEPT !.stage = s])

StoreProof(p) ==
  /\ Runs(p, "upload.stage")
  /\ IF UnpaidPrevious(Stage(p)) \/ status[Stage(p)] \in Settled \cup {"absent"}
       THEN Rollback(p)
       ELSE /\ status' = [status EXCEPT ![Stage(p)] = "verifying"]
            /\ Done(p)
            /\ UNCHANGED <<mirror, ledger, budget, dispute, project, contract>>

(***************************************************************************)
(* UpdatePaymentTerminHandler and DeletePaymentTerminHandler: one          *)
(* autocommitted statement after checks on a row read earlier.  A new      *)
(* amount is refused by ppt_retention_split_exact (the split stays), so    *)
(* only the status can move.                                               *)
(***************************************************************************)
BeginEdit(p, s, new) ==
  /\ Asks(p, "edit")
  /\ status[s] # "absent"
  /\ ~Frozen
  /\ Begin(p, "edit.stage", [NoRequest EXCEPT !.stage = s, !.choice = new])

EditStage(p) ==
  /\ Runs(p, "edit.stage")
  /\ IF status[Stage(p)] = "absent" THEN Rollback(p)
     ELSE /\ status' = [status EXCEPT ![Stage(p)] = req[p].choice]
          /\ Done(p)
          /\ UNCHANGED <<mirror, ledger, budget, dispute, project, contract>>

BeginDelete(p, s) ==
  /\ Asks(p, "delete")
  /\ status[s] \notin {"verifying", "paid", "absent"}
  /\ Begin(p, "delete.stage", [NoRequest EXCEPT !.stage = s])

DeleteStage(p) ==
  /\ Runs(p, "delete.stage")
  /\ status' = [status EXCEPT ![Stage(p)] = "absent"]
  /\ Done(p)
  /\ UNCHANGED <<mirror, ledger, budget, dispute, project, contract>>

(***************************************************************************)
(* ProjectDisputeStoreHandler (and escalateTerminationDispute, which opens *)
(* one without a payment): check, then INSERT in a transaction of its own. *)
(***************************************************************************)
\* Bound: Disputes has an id for every dispute being filed.
Filing == {q \in Sessions : at[q] = "open.insert"}
Unused == {d \in Disputes : dispute[d].status = "none"}

BeginOpen(p, s, claim) ==
  /\ Asks(p, "open")
  /\ Cardinality(Filing) < Cardinality(Unused)
  /\ ~Frozen
  /\ Begin(p, "open.insert", [NoRequest EXCEPT !.stage = s, !.amount = claim])

InsertDispute(p) ==
  /\ Runs(p, "open.insert")
  /\ \E d \in Unused :
       dispute' = [dispute EXCEPT ![d] =
         [status |-> "open", stage |-> Stage(p), claim |-> req[p].amount]]
  /\ Done(p)
  /\ UNCHANGED <<status, mirror, ledger, budget, project, contract>>

(***************************************************************************)
(* ProjectDisputeWithdrawHandler: the status it checked is not checked     *)
(* again under the row lock.                                               *)
(***************************************************************************)
BeginWithdraw(p, d) ==
  /\ Asks(p, "withdraw")
  /\ dispute[d].status = "open"
  /\ Begin(p, "withdraw.dispute", [NoRequest EXCEPT !.dispute = d])

CloseDispute(p, outcome, point) ==
  /\ disputeLock' = [disputeLock EXCEPT ![req[p].dispute] = p]
  /\ writes' = [writes EXCEPT ![p].dispute = outcome]
  /\ Goto(p, point)
  /\ UNCHANGED <<rows, req, mode, rowLock>>

WithdrawDispute(p) ==
  Runs(p, "withdraw.dispute") /\ CloseDispute(p, "withdrawn", "withdraw.project")

\* The activity log row and the touch of the project, then COMMIT.
TouchAndCommit(p) ==
  /\ \E point \in {"withdraw.project", "act.touch"} : Runs(p, point)
  /\ Commit(p)

(***************************************************************************)
(* AdminDisputeActHandler: five ways to close a dispute.                   *)
(***************************************************************************)
ActStart == [dismiss           |-> "act.close",   custom         |-> "act.close",
             terminate_project |-> "act.cancel",  record_refund  |-> "act.refund",
             release_payment   |-> "act.release"]

BeginAct(p, d, action, n) ==
  /\ Asks(p, "act")
  /\ dispute[d].status = "open"
  /\ action \in {"record_refund", "release_payment"} => dispute[d].stage # NoStage
  /\ (action = "record_refund") = (n > 0)   \* the only action that reads refund_amount
  /\ Begin(p, ActStart[action],
           [stage |-> dispute[d].stage, dispute |-> d, choice |-> action, amount |-> n])

ActCancel(p) ==
  /\ Runs(p, "act.cancel")
  /\ Proceed(p, "update", [NoWrites EXCEPT !.project = "cancelled"], "act.close")

\* Mutant: any refund flips the stage to refunded.
ActRefundFlips(p) ==
  LET s        == Stage(p)
      paid     == PaidAgainst(s)
      refunded == RefundedAgainst(s) + req[p].amount
      claim    == dispute[req[p].dispute].claim
  IN /\ Runs(p, "act.refund")
     /\ IF \/ status[s] = "absent"
           \/ paid <= 0
           \/ refunded > paid
           \/ claim # NoClaim /\ req[p].amount > claim
          THEN Rollback(p)
          ELSE ProceedWithStage(p,
                 [NoWrites EXCEPT !.mirror = refunded,
                    !.status = IF status[s] = "paid" THEN "refunded" ELSE ""],
                 "act.reverse")

\* Mutant: the disputed amount does not bound the refund.
ActRefundUncapped(p) ==
  LET s        == Stage(p)
      paid     == PaidAgainst(s)
      refunded == RefundedAgainst(s) + req[p].amount
  IN /\ Runs(p, "act.refund")
     /\ IF status[s] = "absent" \/ paid <= 0 \/ refunded > paid
          THEN Rollback(p)
          ELSE ProceedWithStage(p,
                 [NoWrites EXCEPT !.mirror = refunded,
                    !.status = IF refunded >= paid /\ status[s] = "paid" THEN "refunded" ELSE ""],
                 "act.reverse")

\* record_refund: the stage row is locked and the two ledger sums are read...
ActRefund(p) ==
  LET s        == Stage(p)
      paid     == PaidAgainst(s)
      refunded == RefundedAgainst(s) + req[p].amount
      claim    == dispute[req[p].dispute].claim
  IN /\ Runs(p, "act.refund")
     /\ IF \/ status[s] = "absent"
           \/ paid <= 0
           \/ refunded > paid
           \/ claim # NoClaim /\ req[p].amount > claim
          THEN Rollback(p)
          ELSE ProceedWithStage(p,
                 [NoWrites EXCEPT !.mirror = refunded,
                    !.status = IF refunded >= paid /\ status[s] = "paid" THEN "refunded" ELSE ""],
                 "act.reverse")

\* ...and the reversal is inserted, with no dedupe read: a second one for the
\* dispute is refused by the index and the request answers a server error.
\* The foreign key shares the project row.
ActReverse(p) ==
  /\ Runs(p, "act.reverse")
  /\ IF HasRefund(req[p].dispute) THEN Rollback(p)
     ELSE Proceed(p, "share",
            [writes[p] EXCEPT !.rows = {Refund(req[p].dispute, Stage(p), req[p].amount)}],
            "act.close")

\* release_payment: the payment is the resolution, so no freeze check.
ActRelease(p) ==
  /\ Runs(p, "act.release")
  /\ IF status[Stage(p)] \in Settled \cup {"absent"} THEN Rollback(p)
     ELSE ProceedWithStage(p, NoWrites, "act.pay")

ActPay(p) ==
  LET paid == [NoWrites EXCEPT !.status = "paid", !.contract = Activated] IN
  \/ Runs(p, "act.pay") /\ Dedupe(p, FALSE, paid, "act.slot", "act.insert")
  \/ Runs(p, "act.insert") /\ InsertPayment(p, paid, "act.slot")

\* The awaiting bid was read by the previous statement; it is updated by id.
ActTakeSlot(p) ==
  /\ Runs(p, "act.slot")
  /\ Proceed(p, IF ProjectNeed(p) = "none" THEN mode[p] ELSE "update", writes[p], "act.close")

ActClose(p) ==
  /\ Runs(p, "act.close")
  /\ CloseDispute(p, IF req[p].choice = "dismiss" THEN "dismissed" ELSE "resolved", "act.touch")

(***************************************************************************)
(* AddTransactionHandler: deposit or adjustment_down of the ceiling.       *)
(***************************************************************************)
BeginAdjust(p, kind, n) ==
  /\ Asks(p, kind)
  /\ kind = "deposit" => budget + n <= MaxBudget
  /\ Begin(p, "adjust.project", [NoRequest EXCEPT !.choice = kind, !.amount = n])

\* Mutant: the reduction is compared with the ceiling, not with what is left.
AdjustOverspends(p) ==
  LET n == req[p].amount IN
  /\ Runs(p, "adjust.project")
  /\ IF req[p].choice = "deposit"
       THEN Proceed(p, "exclusive", [NoWrites EXCEPT !.budget = budget + n], "commit")
       ELSE IF Frozen \/ budget < n
         THEN Rollback(p)
         ELSE Proceed(p, "exclusive", [NoWrites EXCEPT !.budget = budget - n], "commit")

Adjust(p) ==
  LET n == req[p].amount IN
  /\ Runs(p, "adjust.project")
  /\ IF req[p].choice = "deposit"
       THEN Proceed(p, "exclusive", [NoWrites EXCEPT !.budget = budget + n], "commit")
       ELSE IF Frozen \/ Available < n
         THEN Rollback(p)
         ELSE Proceed(p, "exclusive", [NoWrites EXCEPT !.budget = budget - n], "commit")

(***************************************************************************)
(* TerminateProfessionalHandler and ResignFromProjectHandler.  The project *)
(* status they act on is the one read before the transaction began.        *)
(***************************************************************************)
BeginTerminate(p) ==
  /\ Asks(p, "terminate")
  /\ project # "cancelled"
  /\ contract = "accepted"
  /\ Begin(p, "terminate.project", [NoRequest EXCEPT !.choice = project])

\* Log, terminationBid, clearTerminationRole.
EndContract(p) ==
  /\ Runs(p, "terminate.project")
  /\ Proceed(p, "update", [NoWrites EXCEPT !.contract = "ended"], "terminate.stages")

\* settleTerminationStages (one UPDATE), reopenIfInProgress, COMMIT.
SettleStages(p) ==
  /\ Runs(p, "terminate.stages")
  /\ status' = [s \in Stages |-> IF status[s] \in Editable THEN "void" ELSE status[s]]
  /\ project' = IF req[p].choice = "in_progress" THEN "open" ELSE project
  /\ contract' = writes[p].contract
  /\ Done(p)
  /\ UNCHANGED <<mirror, ledger, budget, dispute>>

(***************************************************************************)
(* A request can end early: its context is cancelled (client gone, server  *)
(* stopping) or PostgreSQL breaks a lock cycle by failing one of its       *)
(* members.  Either way the deferred Rollback runs.                        *)
(***************************************************************************)
Disconnect(p) == ~Idle(p) /\ Rollback(p)

Waiting(C) == C # {} /\ \A q \in C : Blockers(q) \cap C # {}
Cycle(C)   == Waiting(C) /\ \A D \in SUBSET C : Waiting(D) => D = C

DeadlockVictim(p) ==
  /\ \E C \in SUBSET Sessions : p \in C /\ Cycle(C)
  /\ Rollback(p)

(***************************************************************************)
(* The system.                                                             *)
(***************************************************************************)
Ask(p) ==
  \/ \E s \in Stages : \/ \E v \in {"accept", "reject"} : BeginVerify(p, s, v)
                       \/ BeginMarkPaid(p, s)
                       \/ BeginUpload(p, s)
                       \/ \E new \in Editable : BeginEdit(p, s, new)
                       \/ BeginDelete(p, s)
  \/ \E s \in Stages \cup {NoStage}, claim \in Amounts \cup {NoClaim} : BeginOpen(p, s, claim)
  \/ \E d \in Disputes : \/ BeginWithdraw(p, d)
                         \/ \E action \in DOMAIN ActStart, n \in Amounts \cup {0} : BeginAct(p, d, action, n)
  \/ \E kind \in {"deposit", "adjustment_down"}, n \in Amounts : BeginAdjust(p, kind, n)
  \/ BeginTerminate(p)

Serve(p) ==
  \/ LockForVerify(p) \/ DecideVerify(p)
  \/ LockForMarkPaid(p) \/ CheckSettlement(p) \/ MarkPaidStage(p)
  \/ Record(p) \/ CommitStep(p)
  \/ StoreProof(p) \/ EditStage(p) \/ DeleteStage(p)
  \/ InsertDispute(p) \/ WithdrawDispute(p) \/ TouchAndCommit(p)
  \/ ActCancel(p) \/ ActRefund(p) \/ ActReverse(p) \/ ActRelease(p) \/ ActPay(p)
  \/ ActTakeSlot(p) \/ ActClose(p)
  \/ Adjust(p)
  \/ EndContract(p) \/ SettleStages(p)

Init ==
  /\ status = [s \in Stages |-> "locked"]
  /\ mirror = [s \in Stages |-> 0]
  /\ ledger = {}
  /\ budget = Opening
  /\ dispute = [d \in Disputes |-> [status |-> "none", stage |-> NoStage, claim |-> NoClaim]]
  /\ project = "in_progress"
  /\ contract \in {"awaiting_payment", "accepted"}
  /\ at = [p \in Sessions |-> "idle"]
  /\ req = [p \in Sessions |-> NoRequest]
  /\ writes = [p \in Sessions |-> NoWrites]
  /\ mode = [p \in Sessions |-> "none"]
  /\ rowLock = [s \in Stages |-> NoSession]
  /\ disputeLock = [d \in Disputes |-> NoSession]

Next == \E p \in Sessions : Ask(p) \/ Serve(p) \/ Disconnect(p) \/ DeadlockVictim(p)

Spec == Init /\ [][Next]_vars

(***************************************************************************)
(* Properties.                                                             *)
(***************************************************************************)
Points == {"idle", "verify.project", "verify.stage", "record", "record.insert", "commit",
           "markPaid.project", "markPaid.settlement", "markPaid.stage",
           "upload.stage", "edit.stage", "delete.stage", "open.insert",
           "withdraw.dispute", "withdraw.project", "act.cancel", "act.refund",
           "act.reverse", "act.release", "act.pay", "act.insert", "act.slot", "act.close",
           "act.touch", "adjust.project", "terminate.project", "terminate.stages"}

Words == {"", "accept", "reject", "deposit", "adjustment_down"} \cup Editable
             \cup DOMAIN ActStart \cup ProjectStatus

Request == [stage : Stages \cup {NoStage}, dispute : Disputes \cup {NoDispute},
            choice : Words, amount : Int]
Buffer  == [rows : SUBSET Row, status : StageStatus \cup {""}, mirror : Int, budget : Int,
            dispute : DisputeStatus \cup {""}, project : ProjectStatus \cup {""},
            contract : Contract \cup {""}]

\* Every column and every session keeps to the values the schema and the
\* handlers know.
TypeOK ==
  /\ status \in [Stages -> StageStatus]
  /\ mirror \in [Stages -> Int]
  /\ ledger \subseteq Row
  /\ budget \in Int
  /\ dispute \in [Disputes -> [status : DisputeStatus, stage : Stages \cup {NoStage},
                               claim : Amounts \cup {NoClaim}]]
  /\ project \in ProjectStatus
  /\ contract \in Contract
  /\ at \in [Sessions -> Points]
  /\ req \in [Sessions -> Request]
  /\ writes \in [Sessions -> Buffer]
  /\ mode \in [Sessions -> Modes]
  /\ rowLock \in [Stages -> Sessions \cup {NoSession}]
  /\ disputeLock \in [Disputes -> Sessions \cup {NoSession}]

\* However payments, refunds, deposits and reductions interleave, what the
\* ledger says was paid never exceeds the ceiling of the project: the
\* affordability check of recordPaymentMinorInner and the reduction check of
\* AddTransactionHandler are made under the same lock.
NoOverspend == PaidTotal <= budget

\* A stage the payee sees as paid has its payment in the ledger, and a stage
\* the arbitration refunded has all of its payment reversed: the status and
\* the row are committed together on every path that writes either.
SettledIsBacked ==
  \A s \in Stages :
    /\ status[s] = "paid" => HasPayment(s)
    /\ status[s] = "refunded" => PaidAgainst(s) > 0 /\ RefundedAgainst(s) = PaidAgainst(s)

\* The refunded_amount mirror of a stage is the sum of the refunds booked
\* against it, and the refunds never exceed what the stage was paid, even
\* when several disputes on the same stage are decided at once.
MirrorMatchesLedger ==
  \A s \in Stages :
    /\ RefundedAgainst(s) <= PaidAgainst(s)
    /\ status[s] # "absent" => mirror[s] = RefundedAgainst(s)

\* The dedupe of recordPaymentMinorInner is a plain read, made before the
\* handler waits for the project row.  It is still true when the payment is
\* inserted and when it is committed, and nobody else is about to commit the
\* same payment: every payer of a stage holds the row of the stage since
\* before it looked, so no payment fails at budget_tx_reference_unique.
Charging(p) == at[p] \in {"record.insert", "act.insert"}
                 \/ \E r \in writes[p].rows : r.type = "payment"

DedupeIsCurrent ==
  \A p \in Sessions : Charging(p) =>
    /\ ~HasPayment(Stage(p))
    /\ \A q \in Sessions \ {p} : Charging(q) => Stage(q) # Stage(p)

\* No payment is booked and no ceiling lowered while a dispute is open,
\* whatever the order in which the dispute was filed and the money request
\* was checked; the one exception is the payment that resolves a dispute.
OpenDispute == {d \in Disputes : dispute[d].status = "open"}
ResolvesByPaying(p) == /\ at[p] = "act.touch" /\ at'[p] = "idle"
                       /\ req[p].choice = "release_payment"

MoneyRespectsFreeze ==
  [][ (\E r \in ledger' \ ledger : r.type = "payment") \/ budget' < budget
        => OpenDispute = {} \/ \E p \in Sessions : ResolvesByPaying(p) ]_vars

\* A stage the arbitration refunded is not paid, verified or voided over by a
\* request that read its status before the refund was committed.
RefundIsNotPaidOver ==
  [][ \A s \in Stages : status[s] = "refunded" => status'[s] \notin {"paid", "verifying", "void"} ]_vars

\* A request that found no open dispute, and the lost update it allows: two
\* disputes are open at once.  MONEY.md promises at most one.
OneOpenDispute == Cardinality(OpenDispute) <= 1

\* A decided or withdrawn dispute keeps its outcome.
DisputeOutcomeIsFinal ==
  [][ \A d \in Disputes :
        dispute[d].status \in {"withdrawn", "dismissed", "resolved"}
          => dispute'[d].status = dispute[d].status ]_vars

\* A cancelled project stays cancelled.
CancelledIsFinal == [][ project = "cancelled" => project' = "cancelled" ]_vars

\* The handlers implement the ledger of EscrowLedger: each commit is one of
\* its atomic bookings and every other step leaves money and disputes alone.
\* What a transaction holds in its writes is not in the ledger yet.
Ledger == INSTANCE EscrowLedger WITH budget <- budget, ledger <- ledger, dispute <- dispute
ImplementsLedger == Ledger!Spec

\* PostgreSQL grants row locks in turn and breaks lock cycles, and every
\* handler runs to its deferred Rollback.
FairSpec ==
  /\ Spec
  /\ \A p \in Sessions : SF_vars(Serve(p)) /\ WF_vars(DeadlockVictim(p))

\* Every request is answered, committed or rolled back: no order in which the
\* handlers take the project, stage and dispute rows blocks one for ever.
EveryRequestEnds == \A p \in Sessions : ~Idle(p) ~> Idle(p)

=============================================================================
