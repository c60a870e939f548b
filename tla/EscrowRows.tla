------------------------------ MODULE EscrowRows ------------------------------
(***************************************************************************)
(* The inductive invariant behind SettledIsBacked, MirrorMatchesLedger,    *)
(* DedupeIsCurrent and the refinement of EscrowLedger.  IInv is about the  *)
(* project row and the sum of the ledger; what a transaction writes about  *)
(* one stage or one dispute is right because of what it read there, and    *)
(* because it has held the row of that stage since.                        *)
(***************************************************************************)
EXTENDS EscrowInvariant

Deciding    == {"act.cancel", "act.refund", "act.reverse", "act.release", "act.pay",
                "act.insert", "act.slot", "act.close", "act.touch"}
Withdrawing == {"withdraw.dispute", "withdraw.project"}

\* On the way to commit a refund, or a stage as paid.
Refunding(point, r) == \/ point = "act.reverse"
                       \/ point \in {"act.close", "act.touch"} /\ r.choice = "record_refund"
Paying(point, w)    == \/ point \in {"record", "record.insert", "act.slot"}
                       \/ w.status = "paid"

\* A request about a dispute names one that was filed, its stage, and the
\* action that leads to this point.
KnowsDispute(point, r) ==
  /\ point \in Deciding \cup Withdrawing =>
       r.dispute \in Disputes /\ dispute[r.dispute].status # "none"
  /\ point \in Deciding => r.stage = dispute[r.dispute].stage
  /\ point = "act.cancel" => r.choice = "terminate_project"
  /\ point \in {"act.refund", "act.reverse"} => r.choice = "record_refund"

\* What was read under the row of the stage, or of the project, still is so.
StageChecked(point, r) ==
  /\ point = "markPaid.stage" => status[r.stage] # "refunded"
  /\ point \in {"act.pay", "act.insert"} => status[r.stage] \notin Settled \cup {"absent"}
  /\ point \in {"record.insert", "act.insert"} => ~HasPayment(r.stage)

WritesPayment(point, r, w) ==
  Paying(point, w) =>
    /\ w.status = "paid" /\ w.mirror = Kept
    /\ status[r.stage] \notin {"refunded", "absent"}
    /\ w.rows = IF point \in {"record", "record.insert"} \/ HasPayment(r.stage) THEN {} ELSE {Payment(r.stage)}

WritesRefund(point, r, w) ==
  Refunding(point, r) =>
    /\ r.amount \in Amounts
    /\ dispute[r.dispute].claim # NoClaim => r.amount <= dispute[r.dispute].claim
    /\ status[r.stage] # "absent"
    /\ w.mirror = RefundedAgainst(r.stage) + r.amount
    /\ w.mirror <= PaidAgainst(r.stage)
    /\ \/ w.status = ""
       \/ w.status = "refunded" /\ status[r.stage] = "paid" /\ w.mirror = PaidAgainst(r.stage)
    /\ IF point = "act.reverse"
         THEN w.rows = {}
         ELSE /\ w.rows = {Refund(r.dispute, r.stage, r.amount)}
              /\ ~HasRefund(r.dispute)

\* Any other transaction writes no ledger row, and of a stage only that its
\* proof was rejected.
WritesElse(point, r, w) ==
  ~Refunding(point, r) /\ ~Paying(point, w) =>
    /\ w.rows = {} /\ w.mirror = Kept
    /\ \/ w.status = ""
       \/ w.status = "pending" /\ status[r.stage] = "verifying"

Outcome(point, r) == CASE point = "withdraw.project" -> "withdrawn"
                       [] point = "act.touch" /\ r.choice = "dismiss" -> "dismissed"
                       [] point = "act.touch" /\ r.choice # "dismiss" -> "resolved"
                       [] OTHER -> ""

WritesBudget(w) ==
  w.budget # Kept => \E n \in Amounts : w.budget \in {budget + n, budget - n}

RowReady(point, r, w) ==
  /\ KnowsDispute(point, r) /\ StageChecked(point, r)
  /\ WritesPayment(point, r, w) /\ WritesRefund(point, r, w) /\ WritesElse(point, r, w)
  /\ w.dispute = Outcome(point, r) /\ WritesBudget(w)

\* Whoever is to write a stage or its ledger rows holds the row of the stage.
NeedsRow(point, w) ==
  \/ point \in {"record", "record.insert", "act.reverse", "act.pay", "act.insert", "act.slot"}
  \/ w.status # ""
  \/ w.rows # {}

HoldsRow(p) == NeedsRow(at[p], writes[p]) => Stage(p) \in Stages /\ rowLock[Stage(p)] = p

\* The stages agree with the ledger.
StagesBacked ==
  /\ SettledIsBacked
  /\ MirrorMatchesLedger
  /\ \A s \in Stages : RefundedAgainst(s) >= 0

\* What every reachable state satisfies and every step preserves: IInv, the
\* stages agree with the ledger, and every transaction in flight keeps it so.
RInv ==
  /\ IInv
  /\ StagesBacked
  /\ \A p \in Sessions : HoldsRow(p) /\ RowReady(at[p], req[p], writes[p])

=============================================================================
