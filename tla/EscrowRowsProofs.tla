--------------------------- MODULE EscrowRowsProofs ---------------------------
(***************************************************************************)
(* For every number of sessions, stages and disputes: the stages agree     *)
(* with the ledger, no booking is lost to a race, no refunded stage is     *)
(* paid over, and every step of the handlers is a booking of EscrowLedger  *)
(* or leaves its variables alone.                                          *)
(***************************************************************************)
EXTENDS EscrowRows, EscrowProofs

(***************************************************************************)
(* What was paid and refunded against one stage.                           *)
(***************************************************************************)
PaymentsOf(L, s) == {r \in L : r.type = "payment" /\ r.ref = s}
RefundsOf(L, s)  == {r \in L : r.type = "refund" /\ r.reverses = s}

LEMMA RowsOfStage ==
  /\ \A s : PaidAgainst(s) = Total(PaymentsOf(ledger, s))
  /\ \A s : RefundedAgainst(s) = -Total(RefundsOf(ledger, s))
BY DEF PaidAgainst, RefundedAgainst, PaymentsOf, RefundsOf

LEMMA RowsOfStageNext ==
  /\ \A s : PaidAgainst(s)' = Total(PaymentsOf(ledger', s))
  /\ \A s : RefundedAgainst(s)' = -Total(RefundsOf(ledger', s))
BY DEF PaidAgainst, RefundedAgainst, PaymentsOf, RefundsOf

LEMMA TotalOne == ASSUME NEW x \in Row PROVE Total({x}) = x.amount
<1>1. Total({} \cup {x}) = x.amount + Total({})
  BY SumWithRow, FS_EmptySet
<1>2. x.amount \in Int
  BY RowAmount
<1>3. {} \cup {x} = {x}
  OBVIOUS
<1>4. QED
  BY <1>1, <1>2, <1>3, TotalEmpty

\* The ledger has one payment row of a stage, or none.
LEMMA PaymentsOfStage ==
  ASSUME NEW L \in SUBSET Row, NEW s \in Stages
  PROVE  PaymentsOf(L, s) = IF \E r \in L : r.type = "payment" /\ r.ref = s
                              THEN {Payment(s)} ELSE {}
<1>1. \A r \in Row : r.type = "payment" /\ r.ref = s => r = Payment(s)
  BY DEF Row, Payment, Refund
<1>2. QED
  BY <1>1 DEF PaymentsOf

LEMMA PaidSum ==
  ASSUME NEW L \in SUBSET Row, NEW s \in Stages
  PROVE  Total(PaymentsOf(L, s)) = IF \E r \in L : r.type = "payment" /\ r.ref = s
                                     THEN Net[s] ELSE 0
<1>1. Total({Payment(s)}) = Net[s]
  BY PaymentRow, TotalOne
<1>2. QED
  BY <1>1, PaymentsOfStage, TotalEmpty

LEMMA PaidAgainstIs ==
  ASSUME TypeOK, NEW s \in Stages
  PROVE  PaidAgainst(s) = IF HasPayment(s) THEN Net[s] ELSE 0
<1>1. ledger \in SUBSET Row
  BY DEF TypeOK
<1>2. QED
  BY <1>1, PaidSum, RowsOfStage DEF HasPayment

LEMMA PaidAgainstIsNext ==
  ASSUME TypeOK', NEW s \in Stages
  PROVE  PaidAgainst(s)' = IF HasPayment(s)' THEN Net[s] ELSE 0
<1>1. ledger' \in SUBSET Row
  BY DEF TypeOK
<1>2. QED
  BY <1>1, PaidSum, RowsOfStageNext DEF HasPayment

LEMMA SumsAreInt ==
  ASSUME IInv, NEW s
  PROVE  RefundedAgainst(s) \in Int
<1>1. RefundsOf(ledger, s) \in SUBSET Row /\ IsFiniteSet(RefundsOf(ledger, s))
  BY FS_Subset DEF IInv, TypeOK, RefundsOf
<1>2. Total(RefundsOf(ledger, s)) \in Int
  BY <1>1, SumOfRows
<1>3. QED
  BY <1>2, RowsOfStage

\* A payment disturbs no refund, and a refund only the sum of its stage.
LEMMA AfterPayment ==
  ASSUME NEW s, ledger' = ledger \cup {Payment(s)}
  PROVE  /\ \A t : RefundedAgainst(t)' = RefundedAgainst(t)
         /\ \A t : HasPayment(t)' <=> HasPayment(t) \/ t = s
         /\ \A d : HasRefund(d)' <=> HasRefund(d)
<1>1. Payment(s).type = "payment" /\ Payment(s).ref = s
  BY DEF Payment
<1>2. \A t : RefundsOf(ledger', t) = RefundsOf(ledger, t)
  BY <1>1 DEF RefundsOf
<1>3. QED
  BY <1>1, <1>2, RowsOfStage, RowsOfStageNext DEF HasPayment, HasRefund

LEMMA AfterRefund ==
  ASSUME IInv, NEW d \in Disputes, NEW s \in Stages, NEW n \in Amounts,
         ~HasRefund(d), ledger' = ledger \cup {Refund(d, s, n)}
  PROVE  /\ RefundedAgainst(s)' = RefundedAgainst(s) + n
         /\ \A t : t # s => RefundedAgainst(t)' = RefundedAgainst(t)
         /\ \A t : HasPayment(t)' <=> HasPayment(t)
         /\ \A e : HasRefund(e)' <=> HasRefund(e) \/ e = d
<1> DEFINE x == Refund(d, s, n)
           R == RefundsOf(ledger, s)
<1>1. x.type = "refund" /\ x.ref = d /\ x.reverses = s /\ x.amount = -n
  BY DEF Refund
<1>2. x \in Row /\ n \in Nat
  BY RefundRow
<1>3. x \notin R
  BY <1>1 DEF HasRefund, RefundsOf
<1> HIDE DEF x
<1>4. R \in SUBSET Row /\ IsFiniteSet(R)
  BY FS_Subset DEF IInv, TypeOK, RefundsOf
<1>5. ledger' = ledger \cup {x}
  BY DEF x
<1>6. RefundsOf(ledger', s) = R \cup {x}
  BY <1>1, <1>5 DEF RefundsOf
<1>7. \A t : t # s => RefundsOf(ledger', t) = RefundsOf(ledger, t)
  BY <1>1, <1>5 DEF RefundsOf
<1>8. Total(R \cup {x}) = -n + Total(R) /\ Total(R) \in Int
  BY <1>1, <1>2, <1>3, <1>4, SumWithRow, SumOfRows
<1>9. RefundedAgainst(s)' = RefundedAgainst(s) + n
  <2>1. RefundedAgainst(s) = -Total(R) /\ RefundedAgainst(s)' = -Total(R \cup {x})
    BY <1>6, RowsOfStage, RowsOfStageNext
  <2>2. QED
    BY <2>1, <1>2, <1>8
<1>10. \A t : t # s => RefundedAgainst(t)' = RefundedAgainst(t)
  BY <1>7, RowsOfStage, RowsOfStageNext
<1>11. QED
  BY <1>1, <1>5, <1>9, <1>10 DEF HasPayment, HasRefund

LEMMA SameLedger ==
  ASSUME ledger' = ledger
  PROVE  /\ \A t : RefundedAgainst(t)' = RefundedAgainst(t) /\ PaidAgainst(t)' = PaidAgainst(t)
         /\ \A t : HasPayment(t)' <=> HasPayment(t)
         /\ \A d : HasRefund(d)' <=> HasRefund(d)
BY DEF RefundedAgainst, PaidAgainst, HasPayment, HasRefund

\* A request that is ready stays so in a step that writes no row.
LEMMA ReadyStill ==
  ASSUME NEW point, NEW r, NEW w, RowReady(point, r, w),
         UNCHANGED <<status, ledger, budget, dispute>>
  PROVE  RowReady(point, r, w)'
<1>1. KnowsDispute(point, r)' /\ StageChecked(point, r)'
  BY SameLedger DEF RowReady, KnowsDispute, StageChecked
<1>2. WritesPayment(point, r, w)'
  <2>1. WritesPayment(point, r, w)
    BY DEF RowReady
  <2>2. QED
    BY <2>1, SameLedger DEF WritesPayment
<1>3. WritesRefund(point, r, w)'
  <2>1. WritesRefund(point, r, w)
    BY DEF RowReady
  <2>2. QED
    BY <2>1, SameLedger DEF WritesRefund
<1>4. WritesElse(point, r, w)' /\ WritesBudget(w)'
  BY DEF RowReady, WritesElse, WritesBudget
<1>5. w.dispute = Outcome(point, r)
  BY DEF RowReady
<1>6. QED
  BY <1>1, <1>2, <1>3, <1>4, <1>5 DEF RowReady

\* What a session is about to do, named by values that do not change.
LEMMA ReadyAt ==
  ASSUME NEW p \in Sessions, NEW point, NEW r, NEW w, RowReady(point, r, w)',
         at'[p] = point, req'[p] = r, writes'[p] = w
  PROVE  RowReady(at[p], req[p], writes[p])'
<1>1. (KnowsDispute(at[p], req[p]) /\ StageChecked(at[p], req[p]))'
  BY DEF RowReady, KnowsDispute, StageChecked, HasPayment
<1>2. WritesPayment(at[p], req[p], writes[p])'
  <2>1. WritesPayment(point, r, w)'
    BY DEF RowReady
  <2>2. QED
    BY <2>1 DEF WritesPayment, Paying, HasPayment
<1>3. WritesRefund(at[p], req[p], writes[p])'
  <2>1. WritesRefund(point, r, w)'
    BY DEF RowReady
  <2>2. QED
    BY <2>1 DEF WritesRefund, Refunding, HasRefund, RefundedAgainst, PaidAgainst
<1>4. (WritesElse(at[p], req[p], writes[p]) /\ WritesBudget(writes[p]))'
  BY DEF RowReady, WritesElse, WritesBudget, Refunding, Paying
<1>5. (writes[p].dispute = Outcome(at[p], req[p]))'
  BY DEF RowReady, Outcome
<1>6. QED
  BY <1>1, <1>2, <1>3, <1>4, <1>5 DEF RowReady

(***************************************************************************)
(* What a step of p leaves to the other sessions: a ceiling and the        *)
(* refunded stages for whoever holds the project, the rows they hold, the  *)
(* disputes, and the refunds of the disputes whose stage p does not hold.  *)
(***************************************************************************)
Frame(p) ==
  /\ \A q \in Sessions \ {p} :
       /\ at'[q] = at[q] /\ req'[q] = req[q] /\ writes'[q] = writes[q]
       /\ mode[q] = "exclusive" =>
            /\ budget' = budget
            /\ \A s \in Stages : status'[s] = "refunded" => status[s] = "refunded"
       /\ \A s \in Stages : rowLock[s] = q =>
            /\ rowLock'[s] = q /\ status'[s] = status[s]
            /\ RefundedAgainst(s)' = RefundedAgainst(s)
            /\ HasPayment(s)' <=> HasPayment(s)
  /\ \A d \in Disputes : dispute[d].status # "none" =>
       /\ dispute'[d].status # "none"
       /\ dispute'[d].stage = dispute[d].stage /\ dispute'[d].claim = dispute[d].claim
       /\ HasRefund(d)' => HasRefund(d) \/ rowLock[dispute[d].stage] = p

Prepared(p) == HoldsRow(p) /\ RowReady(at[p], req[p], writes[p])

\* What the other sessions have prepared, they still have.
LEMMA OthersPrepared ==
  ASSUME RInv, TypeOK', NEW p \in Sessions, Frame(p), NEW q \in Sessions \ {p}
  PROVE  Prepared(q)'
<1>1. PICK a, r, w : a = at[q] /\ r = req[q] /\ w = writes[q]
  OBVIOUS
<1>2. RowReady(a, r, w) /\ (NeedsRow(a, w) => r.stage \in Stages /\ rowLock[r.stage] = q)
  BY <1>1 DEF RInv, HoldsRow, Stage
<1>3. Ready(a, r, w, mode[q])
  BY <1>1 DEF RInv, IInv, SessionsReady
<1>4. NeedsRow(a, w) => /\ rowLock'[r.stage] = q
                        /\ status'[r.stage] = status[r.stage]
                        /\ RefundedAgainst(r.stage)' = RefundedAgainst(r.stage)
                        /\ HasPayment(r.stage)' <=> HasPayment(r.stage)
                        /\ PaidAgainst(r.stage)' = PaidAgainst(r.stage)
  <2>1. SUFFICES ASSUME NeedsRow(a, w), NEW s \in Stages, s = r.stage, rowLock[s] = q
                 PROVE  /\ rowLock'[s] = q /\ status'[s] = status[s]
                        /\ RefundedAgainst(s)' = RefundedAgainst(s)
                        /\ HasPayment(s)' <=> HasPayment(s)
                        /\ PaidAgainst(s)' = PaidAgainst(s)
    BY <1>2
  <2>2. /\ rowLock'[s] = q /\ status'[s] = status[s]
        /\ RefundedAgainst(s)' = RefundedAgainst(s)
        /\ HasPayment(s)' <=> HasPayment(s)
    BY <2>1 DEF Frame
  <2>3. PaidAgainst(s)' = PaidAgainst(s)
    BY <2>2, PaidAgainstIs, PaidAgainstIsNext DEF RInv, IInv
  <2>4. QED
    BY <2>2, <2>3
<1>5. KnowsDispute(a, r)'
  BY <1>2 DEF RowReady, KnowsDispute, Frame
<1>6. StageChecked(a, r)'
  <2>1. StageChecked(a, r)
    BY <1>2 DEF RowReady
  <2>2. CASE a = "markPaid.stage"
    <3>1. mode[q] = "exclusive" /\ r.stage \in Stages
      BY <2>2, <1>3 DEF Ready, Locked, Fits, AboutStage
    <3>2. status'[r.stage] # "refunded"
      BY <3>1, <2>1, <2>2 DEF StageChecked, Frame
    <3>3. QED
      BY <2>2, <3>2 DEF StageChecked
  <2>3. CASE a \in {"record.insert", "act.pay", "act.insert"}
    BY <2>1, <2>3, <1>4 DEF StageChecked, NeedsRow
  <2>4. CASE a \notin {"markPaid.stage", "record.insert", "act.pay", "act.insert"}
    BY <2>4 DEF StageChecked
  <2>5. QED
    BY <2>2, <2>3, <2>4
<1>7. WritesPayment(a, r, w)'
  <2>1. WritesPayment(a, r, w)
    BY <1>2 DEF RowReady
  <2>2. Paying(a, w) => NeedsRow(a, w)
    BY DEF Paying, NeedsRow
  <2>3. QED
    BY <2>1, <2>2, <1>4 DEF WritesPayment
<1>8. WritesRefund(a, r, w)'
  <2>1. WritesRefund(a, r, w)
    BY <1>2 DEF RowReady
  <2>2. SUFFICES ASSUME Refunding(a, r) PROVE WritesRefund(a, r, w)'
    BY DEF WritesRefund
  <2>3. NeedsRow(a, w)
    BY <2>1, <2>2 DEF WritesRefund, Refunding, NeedsRow
  <2>4. /\ r.dispute \in Disputes /\ dispute[r.dispute].status # "none"
        /\ r.stage = dispute[r.dispute].stage
    BY <1>2, <2>2 DEF RowReady, KnowsDispute, Refunding, Deciding
  <2>5. dispute'[r.dispute].claim = dispute[r.dispute].claim
    BY <2>4 DEF Frame
  <2>6. ~HasRefund(r.dispute) => ~HasRefund(r.dispute)'
    BY <1>2, <2>3, <2>4 DEF Frame
  <2>7. QED
    BY <2>1, <2>2, <2>3, <2>5, <2>6, <1>4 DEF WritesRefund
<1>9. WritesElse(a, r, w)'
  BY <1>2, <1>4 DEF RowReady, WritesElse, NeedsRow
<1>10. WritesBudget(w)'
  BY <1>2, <1>3 DEF RowReady, WritesBudget, Ready, BudgetReady, Frame
<1>11. at'[q] = a /\ req'[q] = r /\ writes'[q] = w
  BY <1>1 DEF Frame
<1>12. HoldsRow(q)'
  BY <1>2, <1>4, <1>11 DEF HoldsRow, Stage, NeedsRow
<1>13. RowReady(a, r, w)'
  BY <1>2, <1>5, <1>6, <1>7, <1>8, <1>9, <1>10 DEF RowReady
<1>14. RowReady(at[q], req[q], writes[q])'
  BY <1>11, <1>13, ReadyAt
<1>15. QED
  BY <1>12, <1>14 DEF Prepared

(***************************************************************************)
(* The shapes of a step.                                                   *)
(***************************************************************************)
LEMMA AllPrepared ==
  ASSUME RInv, IInv', StagesBacked', NEW p \in Sessions, Frame(p), Prepared(p)'
  PROVE  RInv'
<1>1. \A q \in Sessions : Prepared(q)'
  BY OthersPrepared DEF IInv
<1>2. QED
  BY <1>1 DEF RInv, Prepared

\* A step that writes no row.
LEMMA QuietRows ==
  ASSUME RInv, IInv', NEW p \in Sessions, NEW point, NEW r, NEW w,
         at' = [at EXCEPT ![p] = point],
         req' = [req EXCEPT ![p] = r],
         writes' = [writes EXCEPT ![p] = w],
         \A s \in Stages : rowLock[s] \in Sessions \ {p} => rowLock'[s] = rowLock[s],
         UNCHANGED rows,
         RowReady(point, r, w),
         NeedsRow(point, w) => r.stage \in Stages /\ rowLock'[r.stage] = p
  PROVE  RInv'
<1>1. UNCHANGED <<status, mirror, ledger, budget, dispute>>
  BY DEF rows
<1>2. StagesBacked'
  BY <1>1, SameLedger DEF RInv, StagesBacked, SettledIsBacked, MirrorMatchesLedger
<1>3. Frame(p)
  <2>1. \A q \in Sessions \ {p} : at'[q] = at[q] /\ req'[q] = req[q] /\ writes'[q] = writes[q]
    BY DEF RInv, IInv, TypeOK
  <2>2. QED
    BY <1>1, <2>1, SameLedger DEF Frame
<1>4. at'[p] = point /\ req'[p] = r /\ writes'[p] = w
  BY DEF RInv, IInv, TypeOK
<1>5. HoldsRow(p)'
  BY <1>4 DEF HoldsRow, Stage, NeedsRow
<1>6. RowReady(at[p], req[p], writes[p])'
  BY <1>1, <1>4, ReadyStill, ReadyAt
<1>7. QED
  BY <1>2, <1>3, <1>5, <1>6, AllPrepared DEF Prepared

LEMMA NothingWritten ==
  /\ NoWrites.rows = {} /\ NoWrites.status = "" /\ NoWrites.mirror = Kept
  /\ NoWrites.budget = Kept /\ NoWrites.dispute = ""
BY DEF NoWrites

LEMMA IdlePrepared ==
  ASSUME NEW p \in Sessions, at'[p] = "idle", req'[p] = NoRequest, writes'[p] = NoWrites
  PROVE  Prepared(p)'
<1>1. PICK w : w = writes'[p] /\ w = NoWrites
  OBVIOUS
<1>2. w.rows = {} /\ w.status = "" /\ w.mirror = Kept /\ w.budget = Kept /\ w.dispute = ""
  BY <1>1, NothingWritten
<1>3. HoldsRow(p)'
  BY <1>1, <1>2 DEF HoldsRow, NeedsRow, Stage
<1>4. RowReady(at[p], req[p], writes[p])'
  BY <1>1, <1>2 DEF RowReady, KnowsDispute, StageChecked, WritesPayment, WritesRefund, WritesElse,
       WritesBudget, Outcome, Paying, Refunding, Deciding, Withdrawing
<1>5. QED
  BY <1>3, <1>4 DEF Prepared

LEMMA DoneMoves ==
  ASSUME TypeOK, NEW p \in Sessions, Done(p)
  PROVE  /\ at'[p] = "idle" /\ req'[p] = NoRequest /\ writes'[p] = NoWrites
         /\ \A q \in Sessions \ {p} :
              /\ at'[q] = at[q] /\ req'[q] = req[q] /\ writes'[q] = writes[q]
              /\ \A s \in Stages : rowLock[s] = q => rowLock'[s] = q
BY DEF TypeOK, Done

\* A request that ends and wrote, at most, stages nobody else holds, none as
\* paid or refunded, or a dispute that is new.
LEMMA StagesWritten ==
  ASSUME RInv, IInv', NEW p \in Sessions, Done(p),
         UNCHANGED <<mirror, ledger, budget>>,
         \A s \in Stages : status'[s] # status[s] =>
           /\ rowLock[s] \notin Sessions \ {p}
           /\ status'[s] \notin {"paid", "refunded"}
           /\ status[s] # "absent",
         \A d \in Disputes : dispute[d].status # "none" => dispute'[d] = dispute[d]
  PROVE  RInv'
<1>1. StagesBacked'
  BY SameLedger DEF RInv, StagesBacked, SettledIsBacked, MirrorMatchesLedger
<1>2. Frame(p)
  BY SameLedger, DoneMoves DEF Frame, RInv, IInv
<1>3. Prepared(p)'
  BY DoneMoves, IdlePrepared DEF RInv, IInv
<1>4. QED
  BY <1>1, <1>2, <1>3, AllPrepared

LEMMA RollbackRows == ASSUME RInv, IInv', NEW p \in Sessions, Rollback(p) PROVE RInv'
BY StagesWritten DEF Rollback, rows

\* A session that has written nothing is prepared where its request fits.
Plain(point, r) ==
  /\ KnowsDispute(point, r) /\ StageChecked(point, r)
  /\ point \notin {"act.pay", "act.insert", "act.reverse", "record", "record.insert", "act.slot",
                  "act.touch", "withdraw.project"}
  /\ point = "act.close" => r.choice # "record_refund"

LEMMA PlainRows ==
  ASSUME NEW point, NEW r, Plain(point, r)
  PROVE  RowReady(point, r, NoWrites) /\ ~NeedsRow(point, NoWrites)
<1>1. ~Paying(point, NoWrites) /\ ~Refunding(point, r) /\ Outcome(point, r) = ""
  BY DEF Plain, Paying, Refunding, Outcome, NoWrites
<1>2. QED
  BY <1>1 DEF Plain, RowReady, WritesPayment, WritesRefund, WritesElse, WritesBudget, NeedsRow, NoWrites

LEMMA BeginRows ==
  ASSUME RInv, IInv', NEW p \in Sessions, Idle(p), NEW point, NEW r,
         Begin(p, point, r), Plain(point, r)
  PROVE  RInv'
<1>1. writes[p] = NoWrites
  BY DEF RInv, IInv, SessionsReady, Ready, Idle, Unwritten
<1>2. writes' = [writes EXCEPT ![p] = writes[p]]
  BY DEF Begin, RInv, IInv, TypeOK
<1>3. RowReady(point, r, writes[p]) /\ ~NeedsRow(point, writes[p])
  BY <1>1, PlainRows
<1>4. QED
  BY <1>2, <1>3, QuietRows DEF Begin, Goto, locks

LEMMA ProceedRows ==
  ASSUME RInv, IInv', NEW p \in Sessions, NEW m, NEW w, NEW point,
         Proceed(p, m, w, point), RowReady(point, req[p], w),
         NeedsRow(point, w) => Stage(p) \in Stages /\ rowLock[Stage(p)] = p
  PROVE  RInv'
<1>1. req' = [req EXCEPT ![p] = req[p]]
  BY DEF Proceed, RInv, IInv, TypeOK
<1>2. QED
  BY <1>1, QuietRows DEF Proceed, Goto, Stage

\* A statement that took the row of its stage found it free.
LEMMA StageRows ==
  ASSUME RInv, IInv', NEW p \in Sessions, NEW w, NEW point,
         Blockers(p) = {}, StageNeed(p) = {Stage(p)}, Stage(p) \in Stages,
         ProceedWithStage(p, w, point), RowReady(point, req[p], w)
  PROVE  RInv'
<1>1. req' = [req EXCEPT ![p] = req[p]]
  BY DEF ProceedWithStage, RInv, IInv, TypeOK
<1>2. rowLock[Stage(p)] \notin Sessions \ {p}
  BY DEF Blockers
<1>3. rowLock' = [rowLock EXCEPT ![Stage(p)] = p] /\ rowLock \in [Stages -> Sessions \cup {NoSession}]
  BY DEF ProceedWithStage, RInv, IInv, TypeOK
<1>4. \A s \in Stages : rowLock[s] \in Sessions \ {p} => rowLock'[s] = rowLock[s]
  BY <1>2, <1>3
<1>5. rowLock'[Stage(p)] = p
  BY <1>3
<1>6. QED
  BY <1>1, <1>4, <1>5, QuietRows DEF ProceedWithStage, Goto, Stage

(***************************************************************************)
(* Each action preserves the invariant.                                    *)
(***************************************************************************)
LEMMA AskRows == ASSUME RInv, IInv', NEW p \in Sessions, Ask(p) PROVE RInv'
<1>1. ASSUME NEW point \in {"verify.project", "markPaid.project", "upload.stage", "edit.stage",
                            "delete.stage", "open.insert", "adjust.project", "terminate.project"},
             NEW r, Idle(p), Begin(p, point, r)
      PROVE  RInv'
  <2>1. Plain(point, r)
    BY DEF Plain, KnowsDispute, StageChecked, Deciding, Withdrawing
  <2>2. QED
    BY <1>1, <2>1, BeginRows
<1>2. ASSUME NEW d \in Disputes, BeginWithdraw(p, d) PROVE RInv'
  <2> DEFINE r == [NoRequest EXCEPT !.dispute = d]
  <2>1. Idle(p) /\ dispute[d].status = "open" /\ Begin(p, "withdraw.dispute", r)
    BY <1>2 DEF BeginWithdraw, Asks
  <2>2. r.dispute = d
    BY DEF NoRequest
  <2> HIDE DEF r
  <2>3. Plain("withdraw.dispute", r)
    BY <2>1, <2>2 DEF Plain, KnowsDispute, StageChecked, Deciding, Withdrawing
  <2>4. QED
    BY <2>1, <2>3, BeginRows
<1>3. ASSUME NEW d \in Disputes, NEW action \in DOMAIN ActStart, NEW n, BeginAct(p, d, action, n)
      PROVE  RInv'
  <2> DEFINE r == [stage |-> dispute[d].stage, dispute |-> d, choice |-> action, amount |-> n]
  <2>1. Idle(p) /\ dispute[d].status = "open" /\ Begin(p, ActStart[action], r)
    BY <1>3 DEF BeginAct, Asks
  <2>2. r.dispute = d /\ r.stage = dispute[d].stage /\ r.choice = action
    OBVIOUS
  <2> HIDE DEF r
  <2>3. PICK point : point = ActStart[action]
    OBVIOUS
  <2>4. \/ point = "act.close" /\ action \in {"dismiss", "custom"}
        \/ point = "act.cancel" /\ action = "terminate_project"
        \/ point = "act.refund" /\ action = "record_refund"
        \/ point = "act.release" /\ action = "release_payment"
    BY <2>3 DEF ActStart
  <2>5. Plain(point, r)
    BY <2>1, <2>2, <2>4 DEF Plain, KnowsDispute, StageChecked
  <2>6. QED
    BY <2>1, <2>3, <2>5, BeginRows
<1>4. QED
  BY <1>1, <1>2, <1>3 DEF Ask, Asks, BeginVerify, BeginMarkPaid, BeginUpload, BeginEdit,
     BeginDelete, BeginOpen, BeginAdjust, BeginTerminate

\* What a session may rely on when its next statement runs.
LEMMA Mine2 ==
  ASSUME RInv, NEW p \in Sessions, NEW point, Runs(p, point)
  PROVE  /\ at[p] = point /\ Blockers(p) = {}
         /\ RowReady(point, req[p], writes[p])
         /\ NeedsRow(point, writes[p]) => Stage(p) \in Stages /\ rowLock[Stage(p)] = p
         /\ Ready(point, req[p], writes[p], mode[p]) /\ Fits(point, req[p])
<1>1. at[p] = point /\ Blockers(p) = {}
  BY DEF Runs
<1>2. QED
  BY <1>1, Mine DEF RInv, HoldsRow

\* The row of the stage is nobody else's when the statement runs.
LEMMA StageFree ==
  ASSUME RInv, NEW p \in Sessions,
         NEW point \in {"verify.stage", "markPaid.stage", "upload.stage", "edit.stage",
                        "delete.stage", "act.refund", "act.release"},
         Runs(p, point)
  PROVE  /\ StageNeed(p) = {Stage(p)} /\ Blockers(p) = {}
         /\ rowLock[Stage(p)] \notin Sessions \ {p}
<1>1. at[p] = point /\ Blockers(p) = {}
  BY DEF Runs
<1>2. StageNeed(p) = {Stage(p)}
  BY <1>1 DEF StageNeed
<1>3. QED
  BY <1>1, <1>2 DEF Blockers

LEMMA StageKnown ==
  ASSUME RInv, NEW p \in Sessions, NEW point \in AboutStage, Runs(p, point)
  PROVE  Stage(p) \in Stages
BY Mine2 DEF Fits, Stage

\* Steps that have written nothing yet and go on to a point where that is fine.
LEMMA PlainSteps ==
  ASSUME RInv, IInv', NEW p \in Sessions, LockForVerify(p) \/ LockForMarkPaid(p) \/ CheckSettlement(p)
  PROVE  RInv'
<1>1. ASSUME NEW point, Proceed(p, "exclusive", NoWrites, point), Plain(point, req[p]) PROVE RInv'
  BY <1>1, ProceedRows, PlainRows
<1>2. CASE Rollback(p)
  BY <1>2, RollbackRows
<1>3. Plain("verify.stage", req[p]) /\ Plain("markPaid.settlement", req[p])
  BY DEF Plain, KnowsDispute, StageChecked, Deciding, Withdrawing
<1>4. status[Stage(p)] # "refunded" => Plain("markPaid.stage", req[p])
  BY DEF Plain, KnowsDispute, StageChecked, Deciding, Withdrawing, Stage
<1>5. QED
  BY <1>1, <1>2, <1>3, <1>4 DEF LockForVerify, LockForMarkPaid, CheckSettlement

\* A stage about to be paid; what is not written of it yet is its ledger row.
LEMMA PaidReady ==
  ASSUME NEW point, NEW r, NEW w, w.status = "paid", w.mirror = Kept, w.budget = Kept, w.dispute = "",
         status[r.stage] \notin {"refunded", "absent"},
         w.rows = IF point \in {"record", "record.insert"} \/ HasPayment(r.stage) THEN {}
                  ELSE {Payment(r.stage)},
         point = "record.insert" => ~HasPayment(r.stage),
         KnowsDispute(point, r), ~Refunding(point, r),
         point \notin {"markPaid.stage", "act.pay", "act.insert", "act.touch", "withdraw.project"}
  PROVE  RowReady(point, r, w)
BY DEF RowReady, StageChecked, WritesPayment, WritesRefund, WritesElse, WritesBudget, Outcome, Paying

LEMMA DecideVerifyRows == ASSUME RInv, IInv', NEW p \in Sessions, DecideVerify(p) PROVE RInv'
<1>1. Runs(p, "verify.stage")
  BY DEF DecideVerify
<1>2. Stage(p) \in Stages /\ StageNeed(p) = {Stage(p)} /\ Blockers(p) = {}
  BY <1>1, StageFree, StageKnown DEF AboutStage
<1>3. CASE Rollback(p)
  BY <1>3, RollbackRows
<1>4. ASSUME status[Stage(p)] = "verifying",
             ProceedWithStage(p, [NoWrites EXCEPT !.status = "pending"], "commit")
      PROVE  RInv'
  <2> DEFINE w == [NoWrites EXCEPT !.status = "pending"]
  <2>1. w.rows = {} /\ w.status = "pending" /\ w.mirror = Kept /\ w.budget = Kept /\ w.dispute = ""
    BY DEF NoWrites
  <2> HIDE DEF w
  <2>2. RowReady("commit", req[p], w)
    BY <1>4, <2>1 DEF RowReady, KnowsDispute, StageChecked, WritesPayment, WritesRefund, WritesElse,
       WritesBudget, Outcome, Paying, Refunding, Deciding, Withdrawing, Stage
  <2>3. ProceedWithStage(p, w, "commit")
    BY <1>4 DEF w
  <2>4. QED
    BY <1>2, <2>2, <2>3, StageRows
<1>5. ASSUME status[Stage(p)] = "verifying",
             ProceedWithStage(p, [NoWrites EXCEPT !.status = "paid", !.contract = Activated], "record")
      PROVE  RInv'
  <2> DEFINE w == [NoWrites EXCEPT !.status = "paid", !.contract = Activated]
  <2>1. w.rows = {} /\ w.status = "paid" /\ w.mirror = Kept /\ w.budget = Kept /\ w.dispute = ""
    BY DEF NoWrites
  <2>2. ProceedWithStage(p, w, "record")
    BY <1>5
  <2> HIDE DEF w
  <2>3. RowReady("record", req[p], w)
    BY <1>5, <2>1, PaidReady DEF KnowsDispute, Refunding, Deciding, Withdrawing, Stage
  <2>4. QED
    BY <1>2, <2>2, <2>3, StageRows
<1>6. QED
  BY <1>3, <1>4, <1>5 DEF DecideVerify

LEMMA MarkPaidStageRows == ASSUME RInv, IInv', NEW p \in Sessions, MarkPaidStage(p) PROVE RInv'
<1> DEFINE w == [NoWrites EXCEPT !.status = "paid"]
<1>1. /\ Runs(p, "markPaid.stage")
      /\ \/ Rollback(p)
         \/ status[Stage(p)] # "absent" /\ ProceedWithStage(p, w, "record")
  BY DEF MarkPaidStage
<1>2. Stage(p) \in Stages /\ StageNeed(p) = {Stage(p)} /\ Blockers(p) = {}
  BY <1>1, StageFree, StageKnown DEF AboutStage
<1>3. status[Stage(p)] # "refunded"
  BY <1>1, Mine2 DEF RowReady, StageChecked, Stage
<1>4. w.rows = {} /\ w.status = "paid" /\ w.mirror = Kept /\ w.budget = Kept /\ w.dispute = ""
  BY DEF NoWrites
<1> HIDE DEF w
<1>5. CASE Rollback(p)
  BY <1>5, RollbackRows
<1>6. CASE status[Stage(p)] # "absent" /\ ProceedWithStage(p, w, "record")
  <2>1. RowReady("record", req[p], w)
    BY <1>3, <1>4, <1>6, PaidReady DEF KnowsDispute, Refunding, Deciding, Withdrawing, Stage
  <2>2. QED
    BY <1>2, <1>6, <2>1, StageRows
<1>7. QED
  BY <1>1, <1>5, <1>6

\* recordPaymentMinorInner, from a point that holds the row of the stage.
LEMMA DedupeRows ==
  ASSUME RInv, IInv', NEW p \in Sessions, NEW checkFreeze, NEW w,
         NEW written \in {"commit", "act.slot"}, NEW insert,
         Dedupe(p, checkFreeze, w, written, insert),
         w.rows = {}, w.status = "paid", w.mirror = Kept, w.budget = Kept, w.dispute = "",
         Stage(p) \in Stages, rowLock[Stage(p)] = p,
         status[Stage(p)] \notin {"refunded", "absent"},
         KnowsDispute(written, req[p]),
         ~HasPayment(Stage(p)) => RowReady(insert, req[p], writes[p])
  PROVE  RInv'
<1>1. CASE Rollback(p)
  BY <1>1, RollbackRows
<1>2. ASSUME HasPayment(Stage(p)), Proceed(p, mode[p], w, written) PROVE RInv'
  <2>1. RowReady(written, req[p], w)
    BY <1>2, PaidReady DEF Stage, Refunding
  <2>2. QED
    BY <1>2, <2>1, ProceedRows
<1>3. ASSUME ~HasPayment(Stage(p)), Proceed(p, mode[p], writes[p], insert) PROVE RInv'
  BY <1>3, ProceedRows
<1>4. QED
  BY <1>1, <1>2, <1>3 DEF Dedupe

LEMMA InsertPaymentRows ==
  ASSUME RInv, IInv', NEW p \in Sessions, NEW w \in Buffer,
         NEW written \in {"commit", "act.slot"},
         InsertPayment(p, w, written),
         w.rows = {}, w.status = "paid", w.mirror = Kept, w.budget = Kept, w.dispute = "",
         Stage(p) \in Stages, rowLock[Stage(p)] = p,
         status[Stage(p)] \notin {"refunded", "absent"},
         KnowsDispute(written, req[p])
  PROVE  RInv'
<1> DEFINE v == [w EXCEPT !.rows = {Payment(Stage(p))}]
<1>1. CASE Rollback(p)
  BY <1>1, RollbackRows
<1>2. ASSUME ~HasPayment(Stage(p)), Proceed(p, "exclusive", v, written) PROVE RInv'
  <2>1. /\ v.rows = {Payment(Stage(p))} /\ v.status = "paid" /\ v.mirror = Kept
        /\ v.budget = Kept /\ v.dispute = ""
    BY DEF Buffer
  <2> HIDE DEF v
  <2>2. RowReady(written, req[p], v)
    BY <1>2, <2>1, PaidReady DEF Stage, Refunding
  <2>3. QED
    BY <1>2, <2>2, ProceedRows
<1>3. QED
  BY <1>1, <1>2 DEF InsertPayment

LEMMA RecordRows == ASSUME RInv, IInv', NEW p \in Sessions, Record(p) PROVE RInv'
<1>1. ASSUME NEW point \in {"record", "record.insert"}, Runs(p, point)
      PROVE  /\ RowReady(point, req[p], writes[p])
             /\ Stage(p) \in Stages /\ rowLock[Stage(p)] = p
             /\ writes[p].rows = {} /\ writes[p].status = "paid" /\ writes[p].mirror = Kept
             /\ writes[p].budget = Kept /\ writes[p].dispute = ""
             /\ status[Stage(p)] \notin {"refunded", "absent"}
  <2>1. /\ RowReady(point, req[p], writes[p])
        /\ Stage(p) \in Stages /\ rowLock[Stage(p)] = p
    BY <1>1, Mine2 DEF NeedsRow
  <2>2. /\ writes[p].rows = {} /\ writes[p].status = "paid" /\ writes[p].mirror = Kept
        /\ writes[p].dispute = "" /\ status[Stage(p)] \notin {"refunded", "absent"}
    BY <2>1 DEF RowReady, WritesPayment, Paying, Outcome, Stage
  <2>3. writes[p].budget = Kept
    BY <1>1, Mine2 DEF Ready, BudgetReady
  <2>4. QED
    BY <2>1, <2>2, <2>3
<1>2. KnowsDispute("commit", req[p]) /\ writes[p] \in Buffer
  BY Typed DEF KnowsDispute, Deciding, Withdrawing, RInv, IInv
<1>3. CASE Runs(p, "record") /\ Dedupe(p, TRUE, writes[p], "commit", "record.insert")
  <2>1. ~HasPayment(Stage(p)) => RowReady("record.insert", req[p], writes[p])
    BY <1>1, <1>3, PaidReady DEF KnowsDispute, Refunding, Deciding, Withdrawing, Stage
  <2>2. QED
    BY <1>1, <1>2, <1>3, <2>1, DedupeRows
<1>4. CASE Runs(p, "record.insert") /\ InsertPayment(p, writes[p], "commit")
  BY <1>1, <1>2, <1>4, InsertPaymentRows
<1>5. QED
  BY <1>3, <1>4 DEF Record

LEMMA ActPayRows == ASSUME RInv, IInv', NEW p \in Sessions, ActPay(p) PROVE RInv'
<1> DEFINE w == [NoWrites EXCEPT !.status = "paid", !.contract = Activated]
<1>1. \/ Runs(p, "act.pay") /\ Dedupe(p, FALSE, w, "act.slot", "act.insert")
      \/ Runs(p, "act.insert") /\ InsertPayment(p, w, "act.slot")
  BY DEF ActPay
<1>2. PICK point \in {"act.pay", "act.insert"} : Runs(p, point)
  BY <1>1
<1>3. /\ RowReady(point, req[p], writes[p])
      /\ Stage(p) \in Stages /\ rowLock[Stage(p)] = p
  BY <1>2, Mine2 DEF NeedsRow
<1>4. status[Stage(p)] \notin Settled \cup {"absent"}
  BY <1>2, <1>3 DEF RowReady, StageChecked, Stage
<1>5. /\ w.rows = {} /\ w.status = "paid" /\ w.mirror = Kept /\ w.budget = Kept /\ w.dispute = ""
      /\ w \in Buffer
  BY Blank, NothingWritten DEF Buffer, StageStatus, Activated, Contract
<1>6. KnowsDispute("act.slot", req[p]) /\ KnowsDispute("act.insert", req[p])
  BY <1>2, <1>3 DEF RowReady, KnowsDispute, Deciding, Withdrawing
<1> HIDE DEF w
<1>7. CASE Runs(p, "act.pay") /\ Dedupe(p, FALSE, w, "act.slot", "act.insert")
  <2>1. writes[p] = NoWrites
    BY <1>7, Mine2 DEF Ready, Unwritten
  <2>2. ASSUME ~HasPayment(Stage(p)) PROVE RowReady("act.insert", req[p], NoWrites)
    <3>1. StageChecked("act.insert", req[p])
      BY <1>4, <2>2 DEF StageChecked, Stage
    <3>2. /\ ~Paying("act.insert", NoWrites) /\ ~Refunding("act.insert", req[p])
          /\ Outcome("act.insert", req[p]) = ""
      BY NothingWritten DEF Paying, Refunding, Outcome
    <3>3. QED
      BY <1>6, <3>1, <3>2, NothingWritten
         DEF RowReady, WritesPayment, WritesRefund, WritesElse, WritesBudget
  <2>3. QED
    BY <1>3, <1>4, <1>5, <1>6, <1>7, <2>1, <2>2, DedupeRows DEF Settled
<1>8. CASE Runs(p, "act.insert") /\ InsertPayment(p, w, "act.slot")
  BY <1>3, <1>4, <1>5, <1>6, <1>8, InsertPaymentRows DEF Settled
<1>9. QED
  BY <1>1, <1>7, <1>8

LEMMA ActTakeSlotRows == ASSUME RInv, IInv', NEW p \in Sessions, ActTakeSlot(p) PROVE RInv'
<1> DEFINE w == writes[p]
<1>1. Runs(p, "act.slot") /\ \E m : Proceed(p, m, w, "act.close")
  BY DEF ActTakeSlot
<1>2. /\ RowReady("act.slot", req[p], w) /\ Fits("act.slot", req[p])
      /\ Stage(p) \in Stages /\ rowLock[Stage(p)] = p
  BY <1>1, Mine2 DEF NeedsRow
<1>3. ~Refunding("act.close", req[p]) /\ KnowsDispute("act.close", req[p])
  BY <1>2 DEF Fits, Refunding, RowReady, KnowsDispute, Deciding, Withdrawing
<1> HIDE DEF w
<1>4. /\ w.status = "paid" /\ w.mirror = Kept /\ w.dispute = ""
      /\ status[req[p].stage] \notin {"refunded", "absent"}
      /\ w.rows = IF HasPayment(req[p].stage) THEN {} ELSE {Payment(req[p].stage)}
      /\ WritesBudget(w)
  BY <1>2 DEF RowReady, WritesPayment, Paying, Outcome
<1>5. RowReady("act.close", req[p], w)
  BY <1>3, <1>4 DEF RowReady, StageChecked, WritesPayment, WritesRefund, WritesElse, Paying, Outcome
<1>6. QED
  BY <1>1, <1>2, <1>5, ProceedRows DEF w

LEMMA ActReleaseRows == ASSUME RInv, IInv', NEW p \in Sessions, ActRelease(p) PROVE RInv'
<1>1. /\ Runs(p, "act.release")
      /\ \/ Rollback(p)
         \/ /\ status[Stage(p)] \notin Settled \cup {"absent"}
            /\ ProceedWithStage(p, NoWrites, "act.pay")
  BY DEF ActRelease
<1>2. /\ Stage(p) \in Stages /\ StageNeed(p) = {Stage(p)} /\ Blockers(p) = {}
      /\ RowReady("act.release", req[p], writes[p])
  BY <1>1, Mine2, StageFree, StageKnown DEF AboutStage
<1>3. KnowsDispute("act.pay", req[p])
  BY <1>2 DEF RowReady, KnowsDispute, Deciding, Withdrawing
<1>4. CASE Rollback(p)
  BY <1>4, RollbackRows
<1>5. CASE /\ status[Stage(p)] \notin Settled \cup {"absent"}
           /\ ProceedWithStage(p, NoWrites, "act.pay")
  <2>1. StageChecked("act.pay", req[p])
    BY <1>5 DEF StageChecked, Stage
  <2>2. ~Paying("act.pay", NoWrites) /\ ~Refunding("act.pay", req[p]) /\ Outcome("act.pay", req[p]) = ""
    BY NothingWritten DEF Paying, Refunding, Outcome
  <2>3. RowReady("act.pay", req[p], NoWrites)
    BY <1>3, <2>1, <2>2, NothingWritten
       DEF RowReady, WritesPayment, WritesRefund, WritesElse, WritesBudget
  <2>4. QED
    BY <1>2, <1>5, <2>3, StageRows
<1>6. QED
  BY <1>1, <1>4, <1>5

LEMMA ActRefundRows == ASSUME RInv, IInv', NEW p \in Sessions, ActRefund(p) PROVE RInv'
<1> DEFINE s == Stage(p)
           n == RefundedAgainst(s) + req[p].amount
           w == [NoWrites EXCEPT !.mirror = n,
                   !.status = IF n >= PaidAgainst(s) /\ status[s] = "paid" THEN "refunded" ELSE ""]
<1>1. /\ Runs(p, "act.refund")
      /\ \/ Rollback(p)
         \/ /\ status[s] # "absent" /\ ~(n > PaidAgainst(s))
            /\ ~(dispute[req[p].dispute].claim # NoClaim /\ req[p].amount > dispute[req[p].dispute].claim)
            /\ ProceedWithStage(p, w, "act.reverse")
  BY DEF ActRefund
<1>2. /\ s \in Stages /\ StageNeed(p) = {s} /\ Blockers(p) = {}
      /\ RowReady("act.refund", req[p], writes[p]) /\ Fits("act.refund", req[p])
  BY <1>1, Mine2, StageFree, StageKnown DEF AboutStage
<1>3. KnowsDispute("act.reverse", req[p]) /\ req[p].amount \in Amounts /\ req[p].dispute \in Disputes
  BY <1>2 DEF RowReady, Fits, KnowsDispute, Deciding, Withdrawing
<1>4. /\ RefundedAgainst(s) \in Int /\ PaidAgainst(s) \in Int /\ req[p].amount \in Int
      /\ dispute[req[p].dispute].claim \in Int
  <2>1. PaidAgainst(s) \in Int
    BY <1>2, PaidAgainstIs, NetAssumption DEF RInv, IInv
  <2>2. dispute[req[p].dispute].claim \in Amounts \cup {NoClaim}
    BY <1>3 DEF RInv, IInv, TypeOK
  <2>3. QED
    BY <1>3, <2>1, <2>2, SumsAreInt, AmountsInt DEF RInv
<1>5. CASE Rollback(p)
  BY <1>5, RollbackRows
<1>6. CASE /\ status[s] # "absent" /\ ~(n > PaidAgainst(s))
           /\ ~(dispute[req[p].dispute].claim # NoClaim /\ req[p].amount > dispute[req[p].dispute].claim)
           /\ ProceedWithStage(p, w, "act.reverse")
  <2>1. /\ w.rows = {} /\ w.mirror = n /\ w.budget = Kept /\ w.dispute = ""
        /\ w.status = IF n >= PaidAgainst(s) /\ status[s] = "paid" THEN "refunded" ELSE ""
    BY DEF NoWrites
  <2>2. ProceedWithStage(p, w, "act.reverse")
    BY <1>6
  <2> HIDE DEF w
  <2>3. n <= PaidAgainst(s) /\ (n >= PaidAgainst(s) => n = PaidAgainst(s))
    <3>1. n \in Int /\ PaidAgainst(s) \in Int /\ ~(n > PaidAgainst(s))
      BY <1>4, <1>6
    <3> HIDE DEF n, s
    <3>2. QED
      BY <3>1
  <2>4. dispute[req[p].dispute].claim # NoClaim => req[p].amount <= dispute[req[p].dispute].claim
    BY <1>4, <1>6
  <2>5. WritesRefund("act.reverse", req[p], w)
    BY <1>3, <1>6, <2>1, <2>3, <2>4 DEF WritesRefund, Stage
  <2>6. Refunding("act.reverse", req[p]) /\ ~Paying("act.reverse", w)
    BY <2>1 DEF Refunding, Paying
  <2>7. RowReady("act.reverse", req[p], w)
    BY <1>3, <2>1, <2>5, <2>6
       DEF RowReady, StageChecked, WritesPayment, WritesElse, WritesBudget, Outcome
  <2>8. QED
    BY <1>2, <2>2, <2>7, StageRows
<1>7. QED
  BY <1>1, <1>5, <1>6

LEMMA ActReverseRows == ASSUME RInv, IInv', NEW p \in Sessions, ActReverse(p) PROVE RInv'
<1> DEFINE x == Refund(req[p].dispute, Stage(p), req[p].amount)
           w == [writes[p] EXCEPT !.rows = {x}]
<1>1. /\ Runs(p, "act.reverse")
      /\ \/ Rollback(p)
         \/ ~HasRefund(req[p].dispute) /\ Proceed(p, "share", w, "act.close")
  BY DEF ActReverse
<1>2. /\ RowReady("act.reverse", req[p], writes[p])
      /\ Stage(p) \in Stages /\ rowLock[Stage(p)] = p
  BY <1>1, Mine2 DEF NeedsRow
<1>3. writes[p] \in Buffer
  BY Typed DEF RInv, IInv
<1>4. /\ w.rows = {x} /\ w.status = writes[p].status /\ w.mirror = writes[p].mirror
      /\ w.budget = writes[p].budget /\ w.dispute = writes[p].dispute
  <2> HIDE DEF x
  <2>1. QED
    BY <1>3 DEF Buffer
<1>5. CASE Rollback(p)
  BY <1>5, RollbackRows
<1>6. CASE ~HasRefund(req[p].dispute) /\ Proceed(p, "share", w, "act.close")
  <2>1. Proceed(p, "share", w, "act.close")
    BY <1>6
  <2> HIDE DEF w
  <2>2. req[p].choice = "record_refund" /\ KnowsDispute("act.close", req[p])
    BY <1>2 DEF RowReady, KnowsDispute, Deciding, Withdrawing
  <2>3. WritesRefund("act.close", req[p], w)
    BY <1>2, <1>4, <1>6 DEF RowReady, WritesRefund, Refunding, Stage
  <2>4. Refunding("act.close", req[p]) /\ ~Paying("act.close", w)
    BY <1>2, <1>4, <2>2 DEF Refunding, Paying, RowReady, WritesRefund
  <2>5. RowReady("act.close", req[p], w)
    BY <1>2, <1>4, <2>2, <2>3, <2>4
       DEF RowReady, StageChecked, WritesPayment, WritesElse, WritesBudget, Outcome
  <2>6. QED
    BY <1>2, <2>1, <2>5, ProceedRows
<1>7. QED
  BY <1>1, <1>5, <1>6

LEMMA ActCancelRows == ASSUME RInv, IInv', NEW p \in Sessions, ActCancel(p) PROVE RInv'
<1> DEFINE w == [NoWrites EXCEPT !.project = "cancelled"]
<1>1. Runs(p, "act.cancel") /\ Proceed(p, "update", w, "act.close")
  BY DEF ActCancel
<1>2. RowReady("act.cancel", req[p], writes[p])
  BY <1>1, Mine2
<1>3. KnowsDispute("act.close", req[p]) /\ req[p].choice = "terminate_project"
  BY <1>2 DEF RowReady, KnowsDispute, Deciding, Withdrawing
<1>4. w.rows = {} /\ w.status = "" /\ w.mirror = Kept /\ w.budget = Kept /\ w.dispute = ""
  BY DEF NoWrites
<1> HIDE DEF w
<1>5. RowReady("act.close", req[p], w) /\ ~NeedsRow("act.close", w)
  BY <1>3, <1>4 DEF RowReady, StageChecked, WritesPayment, WritesRefund, WritesElse, WritesBudget,
     Paying, Refunding, Outcome, NeedsRow
<1>6. QED
  BY <1>1, <1>5, ProceedRows

\* A dispute is closed in the buffer; what else is in it stays as it was.
LEMMA CloseRows ==
  ASSUME RInv, IInv', NEW p \in Sessions, NEW outcome, NEW point, NEW w,
         w = [writes[p] EXCEPT !.dispute = outcome],
         CloseDispute(p, outcome, point), RowReady(point, req[p], w),
         NeedsRow(point, w) => Stage(p) \in Stages /\ rowLock[Stage(p)] = p
  PROVE  RInv'
<1>1. /\ req' = [req EXCEPT ![p] = req[p]]
      /\ writes' = [writes EXCEPT ![p] = w]
  BY DEF CloseDispute, RInv, IInv, TypeOK
<1>2. QED
  BY <1>1, QuietRows DEF CloseDispute, Goto, Stage

LEMMA WithdrawDisputeRows == ASSUME RInv, IInv', NEW p \in Sessions, WithdrawDispute(p) PROVE RInv'
<1>1. Runs(p, "withdraw.dispute") /\ CloseDispute(p, "withdrawn", "withdraw.project")
  BY DEF WithdrawDispute
<1>2. /\ RowReady("withdraw.dispute", req[p], writes[p])
      /\ writes[p] = NoWrites /\ writes[p] \in Buffer
  BY <1>1, Mine2, Typed DEF Ready, Unwritten, RInv, IInv
<1>3. KnowsDispute("withdraw.project", req[p])
  BY <1>2 DEF RowReady, KnowsDispute, Deciding, Withdrawing
<1>4. PICK w : w = [writes[p] EXCEPT !.dispute = "withdrawn"]
  OBVIOUS
<1>5. w.rows = {} /\ w.status = "" /\ w.mirror = Kept /\ w.budget = Kept /\ w.dispute = "withdrawn"
  BY <1>2, <1>4, NothingWritten DEF Buffer
<1>6. RowReady("withdraw.project", req[p], w) /\ ~NeedsRow("withdraw.project", w)
  BY <1>3, <1>5 DEF RowReady, StageChecked, WritesPayment, WritesRefund, WritesElse, WritesBudget,
     Paying, Refunding, Outcome, NeedsRow
<1>7. QED
  BY <1>1, <1>4, <1>6, CloseRows

LEMMA ActCloseRows == ASSUME RInv, IInv', NEW p \in Sessions, ActClose(p) PROVE RInv'
<1>1. PICK outcome : /\ outcome = IF req[p].choice = "dismiss" THEN "dismissed" ELSE "resolved"
                     /\ CloseDispute(p, outcome, "act.touch")
  BY DEF ActClose
<1>2. Runs(p, "act.close")
  BY DEF ActClose
<1>3. /\ RowReady("act.close", req[p], writes[p]) /\ writes[p] \in Buffer
      /\ NeedsRow("act.close", writes[p]) => Stage(p) \in Stages /\ rowLock[Stage(p)] = p
  BY <1>2, Mine2, Typed DEF RInv, IInv
<1>4. PICK w : w = [writes[p] EXCEPT !.dispute = outcome]
  OBVIOUS
<1>5. /\ w.rows = writes[p].rows /\ w.status = writes[p].status /\ w.mirror = writes[p].mirror
      /\ w.budget = writes[p].budget /\ w.dispute = outcome
  BY <1>3, <1>4 DEF Buffer
<1>6. Refunding("act.touch", req[p]) <=> Refunding("act.close", req[p])
  BY DEF Refunding
<1>7. Paying("act.touch", w) <=> Paying("act.close", writes[p])
  BY <1>5 DEF Paying
<1>8. KnowsDispute("act.touch", req[p]) /\ StageChecked("act.touch", req[p])
  BY <1>3 DEF RowReady, KnowsDispute, StageChecked, Deciding, Withdrawing
<1>9. WritesPayment("act.touch", req[p], w)
  BY <1>3, <1>5, <1>7 DEF RowReady, WritesPayment
<1>10. WritesRefund("act.touch", req[p], w)
  BY <1>3, <1>5, <1>6 DEF RowReady, WritesRefund
<1>11. WritesElse("act.touch", req[p], w) /\ WritesBudget(w)
  BY <1>3, <1>5, <1>6, <1>7 DEF RowReady, WritesElse, WritesBudget
<1>12. w.dispute = Outcome("act.touch", req[p])
  BY <1>1, <1>5 DEF Outcome
<1>13. RowReady("act.touch", req[p], w)
  BY <1>8, <1>9, <1>10, <1>11, <1>12 DEF RowReady
<1>14. NeedsRow("act.touch", w) => Stage(p) \in Stages /\ rowLock[Stage(p)] = p
  BY <1>3, <1>5 DEF NeedsRow
<1>15. QED
  BY <1>1, <1>4, <1>13, <1>14, CloseRows

LEMMA AdjustRows == ASSUME RInv, IInv', NEW p \in Sessions, Adjust(p) PROVE RInv'
<1>1. Runs(p, "adjust.project")
  BY DEF Adjust
<1>2. req[p].amount \in Amounts
  BY <1>1, Mine2 DEF Fits
<1>3. ASSUME NEW b \in {budget + req[p].amount, budget - req[p].amount},
             Proceed(p, "exclusive", [NoWrites EXCEPT !.budget = b], "commit")
      PROVE  RInv'
  <2> DEFINE w == [NoWrites EXCEPT !.budget = b]
  <2>1. w.rows = {} /\ w.status = "" /\ w.mirror = Kept /\ w.budget = b /\ w.dispute = ""
    BY DEF NoWrites
  <2>2. Proceed(p, "exclusive", w, "commit")
    BY <1>3
  <2> HIDE DEF w
  <2>3. WritesBudget(w)
    BY <1>2, <1>3, <2>1 DEF WritesBudget
  <2>4. RowReady("commit", req[p], w) /\ ~NeedsRow("commit", w)
    BY <2>1, <2>3 DEF RowReady, KnowsDispute, StageChecked, WritesPayment, WritesRefund, WritesElse,
       Paying, Refunding, Outcome, NeedsRow, Deciding, Withdrawing
  <2>5. QED
    BY <2>2, <2>4, ProceedRows
<1>4. QED
  BY <1>3, RollbackRows DEF Adjust

LEMMA EndContractRows == ASSUME RInv, IInv', NEW p \in Sessions, EndContract(p) PROVE RInv'
<1> DEFINE w == [NoWrites EXCEPT !.contract = "ended"]
<1>1. Proceed(p, "update", w, "terminate.stages")
  BY DEF EndContract
<1>2. w.rows = {} /\ w.status = "" /\ w.mirror = Kept /\ w.budget = Kept /\ w.dispute = ""
  BY DEF NoWrites
<1> HIDE DEF w
<1>3. RowReady("terminate.stages", req[p], w) /\ ~NeedsRow("terminate.stages", w)
  BY <1>2 DEF RowReady, KnowsDispute, StageChecked, WritesPayment, WritesRefund, WritesElse,
     WritesBudget, Paying, Refunding, Outcome, NeedsRow, Deciding, Withdrawing
<1>4. QED
  BY <1>1, <1>3, ProceedRows

(***************************************************************************)
(* The requests that write rows and end.                                   *)
(***************************************************************************)
LEMMA StageWriteRows ==
  ASSUME RInv, IInv', NEW p \in Sessions,
         StoreProof(p) \/ EditStage(p) \/ DeleteStage(p) \/ SettleStages(p)
  PROVE  RInv'
<1>1. CASE Rollback(p)
  BY <1>1, RollbackRows
<1>2. ASSUME NEW new, new \notin {"paid", "refunded"}, Done(p), status' = [status EXCEPT ![Stage(p)] = new],
             UNCHANGED <<mirror, ledger, budget, dispute>>,
             rowLock[Stage(p)] \notin Sessions \ {p}, status[Stage(p)] # "absent" \/ new = "absent"
      PROVE  RInv'
  <2>1. \A s \in Stages : status'[s] # status[s] => s = Stage(p) /\ status'[s] = new
    BY <1>2 DEF RInv, IInv, TypeOK
  <2>2. QED
    BY <1>2, <2>1, StagesWritten
<1>3. CASE StoreProof(p)
  <2>1. Runs(p, "upload.stage")
    BY <1>3 DEF StoreProof
  <2>2. QED
    BY <1>1, <1>2, <1>3, <2>1, StageFree DEF StoreProof
<1>4. CASE EditStage(p)
  <2>1. Runs(p, "edit.stage")
    BY <1>4 DEF EditStage
  <2>2. req[p].choice \in Editable
    BY <2>1, Mine2 DEF Fits
  <2>3. req[p].choice \notin {"paid", "refunded"}
    BY <2>2 DEF Editable
  <2>4. QED
    BY <1>1, <1>2, <1>4, <2>1, <2>3, StageFree DEF EditStage
<1>5. CASE DeleteStage(p)
  <2>1. Runs(p, "delete.stage")
    BY <1>5 DEF DeleteStage
  <2>2. rowLock[Stage(p)] \notin Sessions \ {p}
    BY <2>1, StageFree
  <2>3. status' = [status EXCEPT ![Stage(p)] = "absent"]
    BY <1>5 DEF DeleteStage
  <2>4. \A s \in Stages : status'[s] # status[s] =>
          s = Stage(p) /\ status'[s] = "absent" /\ status[s] # "absent"
    BY <2>3 DEF RInv, IInv, TypeOK
  <2>5. QED
    BY <1>5, <2>2, <2>4, StagesWritten DEF DeleteStage
<1>6. CASE SettleStages(p)
  <2>1. Runs(p, "terminate.stages")
    BY <1>6 DEF SettleStages
  <2>2. at[p] = "terminate.stages" /\ Blockers(p) = {}
    BY <2>1 DEF Runs
  <2>3. StageNeed(p) = {s \in Stages : status[s] \in Editable}
    BY <2>2 DEF StageNeed
  <2>4. \A s \in Stages : status[s] \in Editable => rowLock[s] \notin Sessions \ {p}
    BY <2>2, <2>3 DEF Blockers
  <2>5. \A s \in Stages : status'[s] # status[s] => status[s] \in Editable /\ status'[s] = "void"
    BY <1>6 DEF SettleStages
  <2>6. QED
    BY <1>6, <2>4, <2>5, StagesWritten DEF SettleStages, Editable
<1>7. QED
  BY <1>3, <1>4, <1>5, <1>6

LEMMA InsertDisputeRows == ASSUME RInv, IInv', NEW p \in Sessions, InsertDispute(p) PROVE RInv'
<1>1. PICK d \in Unused : dispute' = [dispute EXCEPT ![d] =
             [status |-> "open", stage |-> Stage(p), claim |-> req[p].amount]]
  BY DEF InsertDispute
<1>2. \A e \in Disputes : dispute[e].status # "none" => dispute'[e] = dispute[e]
  BY <1>1 DEF Unused, RInv, IInv, TypeOK
<1>3. QED
  BY <1>2, StagesWritten DEF InsertDispute

\* Who is about to commit, and what of its buffer it is sure of.
Commits(p) == /\ at[p] \in {"commit", "withdraw.project", "act.touch"}
              /\ \A q \in Sessions \ {p} : mode[q] # "exclusive"
              /\ Done(p)
              /\ ledger' = ledger \cup writes[p].rows
              /\ status' = IF writes[p].status = "" THEN status
                           ELSE [status EXCEPT ![Stage(p)] = writes[p].status]
              /\ mirror' = IF writes[p].mirror = Kept THEN mirror
                           ELSE [mirror EXCEPT ![Stage(p)] = writes[p].mirror]
              /\ dispute' = IF writes[p].dispute = "" THEN dispute
                            ELSE [dispute EXCEPT ![req[p].dispute].status = writes[p].dispute]

\* The stage the transaction is about is p's; nothing else has changed.
LEMMA CommitFrame ==
  ASSUME RInv, NEW p \in Sessions, Commits(p),
         \A t \in Stages : rowLock[t] # p =>
           /\ RefundedAgainst(t)' = RefundedAgainst(t)
           /\ HasPayment(t)' <=> HasPayment(t),
         \A e \in Disputes : dispute[e].status # "none" /\ HasRefund(e)' =>
           HasRefund(e) \/ rowLock[dispute[e].stage] = p
  PROVE  Frame(p)
<1>1. RowReady(at[p], req[p], writes[p]) /\ HoldsRow(p)
  BY DEF RInv
<1>2. \A t \in Stages : rowLock[t] # p => status'[t] = status[t]
  BY <1>1 DEF Commits, HoldsRow, NeedsRow, Stage, RInv, IInv, TypeOK
<1>3. \A e \in Disputes : dispute[e].status # "none" =>
        /\ dispute'[e].status # "none"
        /\ dispute'[e].stage = dispute[e].stage /\ dispute'[e].claim = dispute[e].claim
  <2>1. writes[p].dispute # "none"
    BY <1>1 DEF RowReady, Outcome, Commits
  <2>2. QED
    BY <2>1 DEF Commits, RInv, IInv, TypeOK
<1>4. \A q \in Sessions \ {p} :
        /\ at'[q] = at[q] /\ req'[q] = req[q] /\ writes'[q] = writes[q] /\ mode[q] # "exclusive"
        /\ \A t \in Stages : rowLock[t] = q => rowLock'[t] = q
  BY DoneMoves DEF Commits, RInv, IInv
<1>5. QED
  BY <1>2, <1>3, <1>4 DEF Frame

\* A stage is committed as paid, with its payment in the ledger.
LEMMA CommitPaid ==
  ASSUME RInv, TypeOK', NEW p \in Sessions, Commits(p), writes[p].status = "paid"
  PROVE  StagesBacked' /\ Frame(p)
<1> DEFINE s == Stage(p)
<1>1. RowReady(at[p], req[p], writes[p]) /\ HoldsRow(p)
  BY DEF RInv
<1>2. s \in Stages /\ rowLock[s] = p
  BY <1>1 DEF HoldsRow, NeedsRow
<1>3. /\ writes[p].mirror = Kept /\ status[s] \notin {"refunded", "absent"}
      /\ writes[p].rows = IF HasPayment(s) THEN {} ELSE {Payment(s)}
  BY <1>1 DEF RowReady, WritesPayment, Paying, Commits, Stage
<1> HIDE DEF s
<1>4. /\ \A t : RefundedAgainst(t)' = RefundedAgainst(t)
      /\ \A t : HasPayment(t)' <=> HasPayment(t) \/ t = s
      /\ \A d : HasRefund(d)' <=> HasRefund(d)
  <2>1. CASE HasPayment(s)
    <3>1. ledger' = ledger
      BY <1>3, <2>1 DEF Commits
    <3>2. QED
      BY <2>1, <3>1, SameLedger
  <2>2. CASE ~HasPayment(s)
    <3>1. ledger' = ledger \cup {Payment(s)}
      BY <1>3, <2>2 DEF Commits
    <3>2. QED
      BY <3>1, AfterPayment
  <2>3. QED
    BY <2>1, <2>2
<1>5. \A t \in Stages : /\ PaidAgainst(t) = IF HasPayment(t) THEN Net[t] ELSE 0
                        /\ PaidAgainst(t)' = IF HasPayment(t)' THEN Net[t] ELSE 0
                        /\ Net[t] \in Nat /\ RefundedAgainst(t) \in Int
  BY PaidAgainstIs, PaidAgainstIsNext, SumsAreInt, NetAssumption DEF RInv, IInv
<1>6. mirror' = mirror /\ \A t \in Stages : status'[t] = IF t = s THEN "paid" ELSE status[t]
  BY <1>3 DEF Commits, RInv, IInv, TypeOK, s
<1>7. SettledIsBacked'
  BY <1>2, <1>4, <1>5, <1>6 DEF SettledIsBacked, RInv, StagesBacked
<1>8. MirrorMatchesLedger' /\ \A t \in Stages : RefundedAgainst(t)' >= 0
  BY <1>3, <1>4, <1>5, <1>6 DEF MirrorMatchesLedger, RInv, StagesBacked
<1>9. Frame(p)
  BY <1>2, <1>4, CommitFrame
<1>10. QED
  BY <1>7, <1>8, <1>9 DEF StagesBacked

\* A refund is committed: the reversal, the mirror and, when nothing is left
\* of the payment, the status.
LEMMA CommitRefund ==
  ASSUME RInv, TypeOK', NEW p \in Sessions, Commits(p), Refunding(at[p], req[p])
  PROVE  StagesBacked' /\ Frame(p)
<1>0. PICK s, d, n, w : s = Stage(p) /\ d = req[p].dispute /\ n = req[p].amount /\ w = writes[p]
  OBVIOUS
<1>1. RowReady(at[p], req[p], w) /\ HoldsRow(p)
  BY <1>0 DEF RInv
<1>2. /\ n \in Amounts /\ status[s] # "absent"
      /\ w.mirror = RefundedAgainst(s) + n /\ w.mirror <= PaidAgainst(s)
      /\ \/ w.status = ""
         \/ w.status = "refunded" /\ status[s] = "paid" /\ w.mirror = PaidAgainst(s)
      /\ w.rows = {Refund(d, s, n)} /\ ~HasRefund(d)
  BY <1>0, <1>1 DEF RowReady, WritesRefund, Refunding, Commits, Stage
<1>3. d \in Disputes /\ s = dispute[d].stage
  BY <1>0, <1>1 DEF RowReady, KnowsDispute, Refunding, Deciding, Commits, Stage
<1>4. s \in Stages /\ rowLock[s] = p
  BY <1>0, <1>1, <1>2 DEF HoldsRow, NeedsRow
<1>5. ledger' = ledger \cup {Refund(d, s, n)}
  BY <1>0, <1>2 DEF Commits
<1>6. /\ status' = IF w.status = "" THEN status ELSE [status EXCEPT ![s] = w.status]
      /\ mirror' = IF w.mirror = Kept THEN mirror ELSE [mirror EXCEPT ![s] = w.mirror]
  BY <1>0 DEF Commits
<1>7. /\ RefundedAgainst(s)' = RefundedAgainst(s) + n
      /\ \A t : t # s => RefundedAgainst(t)' = RefundedAgainst(t)
      /\ \A t : HasPayment(t)' <=> HasPayment(t)
      /\ \A e : HasRefund(e)' <=> HasRefund(e) \/ e = d
  BY <1>2, <1>3, <1>4, <1>5, AfterRefund DEF RInv
<1>8. \A t \in Stages : /\ PaidAgainst(t)' = PaidAgainst(t) /\ PaidAgainst(t) \in Nat
                        /\ PaidAgainst(t) > 0 => HasPayment(t)
                        /\ RefundedAgainst(t) \in Int /\ RefundedAgainst(t) >= 0
  BY <1>7, PaidAgainstIs, PaidAgainstIsNext, SumsAreInt, NetAssumption DEF RInv, IInv, StagesBacked
<1>9. n \in Nat /\ n > 0
  <2>1. n \in Amounts
    BY <1>2
  <2>2. QED
    BY <2>1, AmountsAssumption
<1>10. PICK R \in Int, P \in Nat :
         R = RefundedAgainst(s) /\ R >= 0 /\ P = PaidAgainst(s) /\ w.mirror = R + n /\ R + n <= P
  BY <1>2, <1>4, <1>8
<1>11. R + n # Kept /\ P > 0 /\ R # P /\ R + n >= 0
  <2>1. R >= 0 /\ R + n <= P
    BY <1>10
  <2>2. QED
    BY <2>1, <1>9 DEF Kept
<1>12. \A t \in Stages : /\ mirror'[t] = IF t = s THEN w.mirror ELSE mirror[t]
                         /\ status'[t] = IF t = s /\ w.status # "" THEN w.status ELSE status[t]
  BY <1>6, <1>10, <1>11 DEF RInv, IInv, TypeOK
<1>13. SettledIsBacked'
  <2>1. SUFFICES ASSUME NEW t \in Stages
                 PROVE  /\ status'[t] = "paid" => HasPayment(t)'
                        /\ status'[t] = "refunded" => PaidAgainst(t)' > 0 /\ RefundedAgainst(t)' = PaidAgainst(t)'
    BY DEF SettledIsBacked
  <2>2. /\ status[t] = "paid" => HasPayment(t)
        /\ status[t] = "refunded" => PaidAgainst(t) > 0 /\ RefundedAgainst(t) = PaidAgainst(t)
    BY DEF RInv, StagesBacked, SettledIsBacked
  <2>3. CASE t # s
    BY <2>2, <2>3, <1>7, <1>8, <1>12
  <2>4. CASE t = s
    <3>1. status[s] # "refunded"
      BY <2>2, <2>4, <1>10, <1>11
    <3>2. QED
      BY <2>2, <2>4, <3>1, <1>2, <1>7, <1>8, <1>10, <1>11, <1>12
  <2>5. QED
    BY <2>3, <2>4
<1>14. MirrorMatchesLedger' /\ \A t \in Stages : RefundedAgainst(t)' >= 0
  <2>1. SUFFICES ASSUME NEW t \in Stages
                 PROVE  /\ RefundedAgainst(t)' <= PaidAgainst(t)' /\ RefundedAgainst(t)' >= 0
                        /\ status'[t] # "absent" => mirror'[t] = RefundedAgainst(t)'
    BY DEF MirrorMatchesLedger
  <2>2. /\ RefundedAgainst(t) <= PaidAgainst(t)
        /\ status[t] # "absent" => mirror[t] = RefundedAgainst(t)
    BY DEF RInv, StagesBacked, MirrorMatchesLedger
  <2>3. CASE t # s
    BY <2>2, <2>3, <1>7, <1>8, <1>12
  <2>4. CASE t = s
    BY <2>4, <1>7, <1>8, <1>10, <1>11, <1>12
  <2>5. QED
    BY <2>3, <2>4
<1>15. Frame(p)
  BY <1>3, <1>4, <1>7, CommitFrame
<1>16. QED
  BY <1>13, <1>14, <1>15 DEF StagesBacked

\* Any other commit leaves the ledger alone.
LEMMA CommitElse ==
  ASSUME RInv, TypeOK', NEW p \in Sessions, Commits(p),
         writes[p].status # "paid", ~Refunding(at[p], req[p])
  PROVE  StagesBacked' /\ Frame(p) /\ ledger' = ledger
<1> DEFINE s == Stage(p)
           w == writes[p]
<1>1. RowReady(at[p], req[p], w) /\ HoldsRow(p)
  BY DEF RInv
<1>2. /\ w.rows = {} /\ w.mirror = Kept
      /\ w.status = "" \/ (w.status = "pending" /\ status[s] = "verifying")
  BY <1>1 DEF RowReady, WritesElse, Paying, Commits, Stage
<1>3. ledger' = ledger /\ mirror' = mirror
  BY <1>2 DEF Commits
<1>4. \A t \in Stages : \/ status'[t] = status[t]
                        \/ status'[t] = "pending" /\ status[t] = "verifying"
  BY <1>2 DEF Commits, RInv, IInv, TypeOK
<1>5. StagesBacked'
  BY <1>3, <1>4, SameLedger DEF RInv, StagesBacked, SettledIsBacked, MirrorMatchesLedger
<1>6. Frame(p)
  BY <1>3, SameLedger, CommitFrame
<1>7. QED
  BY <1>3, <1>5, <1>6

\* A commit step either does that or is refused and rolled back.
LEMMA CommitOrRollback ==
  ASSUME RInv, NEW p \in Sessions, CommitStep(p) \/ TouchAndCommit(p)
  PROVE  Rollback(p) \/ Commits(p)
<1>1. CASE CommitStep(p)
  <2>1. at[p] = "commit" /\ Commit(p)
    BY <1>1 DEF CommitStep
  <2>2. mode[p] = "exclusive"
    BY <2>1 DEF RInv, IInv, SessionsReady, Ready, Locked
  <2>3. \A q \in Sessions \ {p} : mode[q] # "exclusive"
    BY <2>2, NobodyExclusive DEF RInv, IInv, LocksCompatible
  <2>4. QED
    BY <2>1, <2>3 DEF Commit, Commits
<1>2. CASE TouchAndCommit(p)
  <2>1. PICK point \in {"withdraw.project", "act.touch"} : Runs(p, point)
    BY <1>2 DEF TouchAndCommit
  <2>2. at[p] = point /\ Commit(p)
    BY <1>2, <2>1 DEF TouchAndCommit, Runs
  <2>3. ProjectNeed(p) = "update"
    BY <2>2 DEF ProjectNeed
  <2>4. \A q \in Sessions \ {p} : mode[q] # "exclusive"
    BY <2>1, <2>3, Granted, NobodyExclusive
  <2>5. QED
    BY <2>2, <2>4 DEF Commit, Commits
<1>3. QED
  BY <1>1, <1>2

LEMMA CommitRows ==
  ASSUME RInv, IInv', NEW p \in Sessions, CommitStep(p) \/ TouchAndCommit(p)
  PROVE  RInv'
<1>1. CASE Rollback(p)
  BY <1>1, RollbackRows
<1>2. CASE Commits(p)
  <2>1. StagesBacked' /\ Frame(p)
    BY <1>2, CommitPaid, CommitRefund, CommitElse DEF IInv
  <2>2. Prepared(p)'
    BY <1>2, DoneMoves, IdlePrepared DEF Commits, RInv, IInv
  <2>3. QED
    BY <2>1, <2>2, AllPrepared
<1>3. QED
  BY <1>1, <1>2, CommitOrRollback

LEMMA ServeRows == ASSUME RInv, IInv', NEW p \in Sessions, Serve(p) PROVE RInv'
<1>1. CASE LockForVerify(p) \/ LockForMarkPaid(p) \/ CheckSettlement(p)
  BY <1>1, PlainSteps
<1>2. CASE DecideVerify(p) \/ MarkPaidStage(p) \/ Record(p)
  BY <1>2, DecideVerifyRows, MarkPaidStageRows, RecordRows
<1>3. CASE CommitStep(p) \/ TouchAndCommit(p)
  BY <1>3, CommitRows
<1>4. CASE StoreProof(p) \/ EditStage(p) \/ DeleteStage(p) \/ SettleStages(p)
  BY <1>4, StageWriteRows
<1>5. CASE InsertDispute(p) \/ WithdrawDispute(p)
  BY <1>5, InsertDisputeRows, WithdrawDisputeRows
<1>6. CASE ActCancel(p) \/ ActRefund(p) \/ ActReverse(p) \/ ActRelease(p)
  BY <1>6, ActCancelRows, ActRefundRows, ActReverseRows, ActReleaseRows
<1>7. CASE ActPay(p) \/ ActTakeSlot(p) \/ ActClose(p)
  BY <1>7, ActPayRows, ActTakeSlotRows, ActCloseRows
<1>8. CASE Adjust(p) \/ EndContract(p)
  BY <1>8, AdjustRows, EndContractRows
<1>9. QED
  BY <1>1, <1>2, <1>3, <1>4, <1>5, <1>6, <1>7, <1>8 DEF Serve

LEMMA RowsNext == RInv /\ [Next]_vars => RInv'
<1>1. SUFFICES ASSUME RInv, [Next]_vars PROVE RInv'
  OBVIOUS
<1>2. IInv'
  BY <1>1, NextStep DEF RInv
<1>3. CASE UNCHANGED vars
  <2>1. UNCHANGED <<status, mirror, ledger, budget, dispute, at, req, writes, rowLock>>
    BY <1>3 DEF vars, rows, locks
  <2>2. StagesBacked'
    BY <1>1, <2>1, SameLedger DEF RInv, StagesBacked, SettledIsBacked, MirrorMatchesLedger
  <2>3. ASSUME NEW p \in Sessions PROVE (HoldsRow(p) /\ RowReady(at[p], req[p], writes[p]))'
    <3>1. PICK a, r, w : a = at[p] /\ r = req[p] /\ w = writes[p]
      OBVIOUS
    <3>2. RowReady(a, r, w) /\ (NeedsRow(a, w) => r.stage \in Stages /\ rowLock[r.stage] = p)
      BY <1>1, <3>1 DEF RInv, HoldsRow, Stage
    <3>3. at'[p] = a /\ req'[p] = r /\ writes'[p] = w
      BY <2>1, <3>1
    <3>4. HoldsRow(p)'
      BY <2>1, <3>2, <3>3 DEF HoldsRow, Stage, NeedsRow
    <3>5. RowReady(at[p], req[p], writes[p])'
      BY <2>1, <3>2, <3>3, ReadyStill, ReadyAt
    <3>6. QED
      BY <3>4, <3>5
  <2>4. QED
    BY <1>2, <2>2, <2>3 DEF RInv
<1>4. ASSUME NEW p \in Sessions, Ask(p) \/ Serve(p) \/ Disconnect(p) \/ DeadlockVictim(p)
      PROVE  RInv'
  BY <1>1, <1>2, <1>4, AskRows, ServeRows, RollbackRows DEF Disconnect, DeadlockVictim
<1>5. QED
  BY <1>1, <1>3, <1>4 DEF Next

LEMMA RowsInit == Init => RInv
<1>1. SUFFICES ASSUME Init PROVE RInv
  OBVIOUS
<1>2. IInv
  BY <1>1, InitReady
<1>3. \A s \in Stages : PaidAgainst(s) = 0 /\ RefundedAgainst(s) = 0
  <2>1. \A s : PaymentsOf(ledger, s) = {} /\ RefundsOf(ledger, s) = {}
    BY <1>1 DEF Init, PaymentsOf, RefundsOf
  <2>2. QED
    BY <2>1, RowsOfStage, TotalEmpty
<1>4. StagesBacked
  BY <1>1, <1>3 DEF Init, StagesBacked, SettledIsBacked, MirrorMatchesLedger
<1>5. ASSUME NEW p \in Sessions PROVE HoldsRow(p) /\ RowReady(at[p], req[p], writes[p])
  <2>1. at[p] = "idle" /\ req[p] = NoRequest /\ writes[p] = NoWrites
    BY <1>1 DEF Init
  <2>2. Plain("idle", NoRequest)
    BY DEF Plain, KnowsDispute, StageChecked, Deciding, Withdrawing
  <2>3. QED
    BY <2>1, <2>2, PlainRows DEF HoldsRow
<1>6. QED
  BY <1>2, <1>4, <1>5 DEF RInv

(***************************************************************************)
(* The results.                                                            *)
(***************************************************************************)

\* Every reachable state satisfies the invariant: whatever a request is about
\* to write of a stage still follows from what the ledger says of it.
THEOREM RowInvariance == Spec => []RInv
BY RowsInit, RowsNext, PTL DEF Spec

\* A paid stage has its payment, a refunded one has all of it reversed, on
\* every path that writes a status (verification, mark-paid, arbitration).
THEOREM SettledBacked == Spec => []SettledIsBacked
<1>1. RInv => SettledIsBacked
  BY DEF RInv, StagesBacked
<1>2. QED
  BY <1>1, RowInvariance, PTL

\* The refunded_amount mirror that record_refund writes is the sum of the
\* refunds of the stage, which never exceed its payment, however many
\* disputes about it are decided at once.
THEOREM MirrorCorrect == Spec => []MirrorMatchesLedger
<1>1. RInv => MirrorMatchesLedger
  BY DEF RInv, StagesBacked
<1>2. QED
  BY <1>1, RowInvariance, PTL

\* A ledger row in a buffer is about a stage whose row the session holds, and
\* the ledger has none like it.
LEMMA WrittenRow ==
  ASSUME RInv, NEW p \in Sessions, NEW x \in writes[p].rows
  PROVE  /\ Stage(p) \in Stages /\ rowLock[Stage(p)] = p
         /\ \/ x = Payment(Stage(p)) /\ ~HasPayment(Stage(p))
            \/ /\ x = Refund(req[p].dispute, Stage(p), req[p].amount)
               /\ ~HasRefund(req[p].dispute)
               /\ req[p].dispute \in Disputes /\ Stage(p) = dispute[req[p].dispute].stage
<1>1. RowReady(at[p], req[p], writes[p]) /\ HoldsRow(p)
  BY DEF RInv
<1>2. Stage(p) \in Stages /\ rowLock[Stage(p)] = p
  BY <1>1 DEF HoldsRow, NeedsRow
<1>3. CASE Paying(at[p], writes[p])
  BY <1>1, <1>2, <1>3 DEF RowReady, WritesPayment, Stage
<1>4. CASE ~Paying(at[p], writes[p]) /\ Refunding(at[p], req[p])
  BY <1>1, <1>2, <1>4 DEF RowReady, WritesRefund, KnowsDispute, Refunding, Deciding, Stage
<1>5. CASE ~Paying(at[p], writes[p]) /\ ~Refunding(at[p], req[p])
  BY <1>1, <1>5 DEF RowReady, WritesElse
<1>6. QED
  BY <1>3, <1>4, <1>5

\* No payment is refused by budget_tx_reference_unique: the dedupe of
\* recordPaymentMinorInner is still true when its payment is inserted and when
\* it is committed.
THEOREM DedupeHolds == Spec => []DedupeIsCurrent
<1>1. ASSUME RInv, NEW p \in Sessions, Charging(p)
      PROVE  /\ ~HasPayment(Stage(p))
             /\ Stage(p) \in Stages /\ rowLock[Stage(p)] = p
  <2>1. CASE at[p] \in {"record.insert", "act.insert"}
    <3>1. RowReady(at[p], req[p], writes[p]) /\ HoldsRow(p)
      BY <1>1 DEF RInv
    <3>2. QED
      BY <2>1, <3>1 DEF HoldsRow, NeedsRow, RowReady, StageChecked, Stage
  <2>2. CASE \E r \in writes[p].rows : r.type = "payment"
    BY <1>1, <2>2, WrittenRow DEF Refund
  <2>3. QED
    BY <1>1, <2>1, <2>2 DEF Charging
<1>2. RInv => DedupeIsCurrent
  BY <1>1 DEF DedupeIsCurrent
<1>3. QED
  BY <1>2, RowInvariance, PTL

(***************************************************************************)
(* Only a commit and the requests that write rows themselves write any.    *)
(***************************************************************************)
WritesStages(p) == StoreProof(p) \/ EditStage(p) \/ DeleteStage(p) \/ SettleStages(p)

LEMMA RowsStill ==
  ASSUME NEW p \in Sessions,
         Ask(p) \/ Serve(p) \/ Disconnect(p) \/ DeadlockVictim(p),
         ~CommitStep(p), ~TouchAndCommit(p)
  PROVE  /\ WritesStages(p) \/ UNCHANGED status
         /\ InsertDispute(p) \/ UNCHANGED dispute
<1>1. Rollback(p) => UNCHANGED <<status, dispute>>
  BY DEF Rollback, rows
<1>2. ASSUME NEW m, NEW w, NEW point, Proceed(p, m, w, point) PROVE UNCHANGED <<status, dispute>>
  BY <1>2 DEF Proceed, rows
<1>3. ASSUME NEW w, NEW point, ProceedWithStage(p, w, point) PROVE UNCHANGED <<status, dispute>>
  BY <1>3 DEF ProceedWithStage, rows
<1>4. ASSUME NEW outcome, NEW point, CloseDispute(p, outcome, point)
      PROVE  UNCHANGED <<status, dispute>>
  BY <1>4 DEF CloseDispute, rows
<1>5. ASSUME NEW point, NEW r, Begin(p, point, r) PROVE UNCHANGED <<status, dispute>>
  BY <1>5 DEF Begin, rows
<1>6. CASE Ask(p)
  BY <1>5, <1>6 DEF Ask, BeginVerify, BeginMarkPaid, BeginUpload, BeginEdit, BeginDelete,
       BeginOpen, BeginWithdraw, BeginAct, BeginAdjust, BeginTerminate
<1>7. ASSUME NEW w, NEW written,
             \/ \E checkFreeze, insert : Dedupe(p, checkFreeze, w, written, insert)
             \/ InsertPayment(p, w, written)
      PROVE  UNCHANGED <<status, dispute>>
  BY <1>1, <1>2, <1>7 DEF Dedupe, InsertPayment
<1>8. CASE \/ LockForVerify(p) \/ DecideVerify(p)
           \/ LockForMarkPaid(p) \/ CheckSettlement(p) \/ MarkPaidStage(p) \/ Record(p)
  BY <1>1, <1>2, <1>3, <1>7, <1>8
     DEF LockForVerify, DecideVerify, LockForMarkPaid, CheckSettlement, MarkPaidStage, Record
<1>9. CASE StoreProof(p) \/ EditStage(p) \/ DeleteStage(p) \/ SettleStages(p)
  BY <1>1, <1>9 DEF WritesStages, StoreProof, EditStage, DeleteStage, SettleStages
<1>10. CASE InsertDispute(p)
  BY <1>10 DEF InsertDispute
<1>11. CASE ActCancel(p) \/ ActClose(p) \/ WithdrawDispute(p) \/ EndContract(p)
  BY <1>2, <1>4, <1>11 DEF ActCancel, ActClose, WithdrawDispute, EndContract
<1>12. CASE ActRefund(p) \/ ActReverse(p)
  BY <1>1, <1>2, <1>3, <1>12 DEF ActRefund, ActReverse
<1>13. CASE ActRelease(p) \/ ActPay(p) \/ ActTakeSlot(p) \/ Adjust(p)
  BY <1>1, <1>2, <1>3, <1>7, <1>13 DEF ActRelease, ActPay, ActTakeSlot, Adjust
<1>14. CASE Disconnect(p) \/ DeadlockVictim(p)
  BY <1>1, <1>14 DEF Disconnect, DeadlockVictim
<1>15. QED
  BY <1>6, <1>8, <1>9, <1>10, <1>11, <1>12, <1>13, <1>14 DEF Serve

(***************************************************************************)
(* A refund is not paid over.                                              *)
(***************************************************************************)
RefundStays == \A s \in Stages : status[s] = "refunded" => status'[s] \notin {"paid", "verifying", "void"}

LEMMA KeptByStatus ==
  ASSUME UNCHANGED status
  PROVE  RefundStays
BY DEF RefundStays

LEMMA KeptByStageWrites ==
  ASSUME RInv, NEW p \in Sessions, WritesStages(p)
  PROVE  RefundStays
<1>1. ASSUME NEW new, status' = [status EXCEPT ![Stage(p)] = new],
             new \in {"void", "paid", "verifying"} => status[Stage(p)] # "refunded"
      PROVE  RefundStays
  BY <1>1 DEF RefundStays, RInv, IInv, TypeOK
<1>2. CASE Rollback(p)
  BY <1>2 DEF RefundStays, Rollback, rows
<1>3. CASE StoreProof(p)
  BY <1>1, <1>2, <1>3 DEF StoreProof, Settled
<1>4. CASE EditStage(p)
  <2>1. Runs(p, "edit.stage")
    BY <1>4 DEF EditStage
  <2>2. req[p].choice \in Editable
    BY <2>1, Mine2 DEF Fits
  <2>3. req[p].choice \notin {"void", "paid", "verifying"}
    BY <2>2 DEF Editable
  <2>4. QED
    BY <1>1, <1>2, <1>4, <2>3 DEF EditStage
<1>5. CASE DeleteStage(p)
  BY <1>1, <1>5 DEF DeleteStage
<1>6. CASE SettleStages(p)
  <2>1. \A s \in Stages : status'[s] = IF status[s] \in Editable THEN "void" ELSE status[s]
    BY <1>6 DEF SettleStages
  <2>2. QED
    BY <2>1 DEF RefundStays, Editable
<1>7. QED
  BY <1>3, <1>4, <1>5, <1>6 DEF WritesStages

LEMMA KeptByCommit ==
  ASSUME RInv, NEW p \in Sessions, Commits(p)
  PROVE  RefundStays
<1> DEFINE w == writes[p]
           s == Stage(p)
<1>1. RowReady(at[p], req[p], w)
  BY DEF RInv
<1>2. CASE w.status = "paid"
  <2>1. status[s] # "refunded"
    BY <1>1, <1>2 DEF RowReady, WritesPayment, Paying, Stage
  <2>2. QED
    BY <1>2, <2>1 DEF RefundStays, Commits, RInv, IInv, TypeOK
<1>3. CASE w.status # "paid" /\ Refunding(at[p], req[p])
  <2>1. w.status \in {"", "refunded"}
    BY <1>1, <1>3 DEF RowReady, WritesRefund
  <2>2. QED
    BY <2>1 DEF RefundStays, Commits, RInv, IInv, TypeOK
<1>4. CASE w.status # "paid" /\ ~Refunding(at[p], req[p])
  <2>1. w.status \in {"", "pending"}
    BY <1>1, <1>4 DEF RowReady, WritesElse, Paying, Commits
  <2>2. QED
    BY <2>1 DEF RefundStays, Commits, RInv, IInv, TypeOK
<1>5. QED
  BY <1>2, <1>3, <1>4

LEMMA RefundStep == RInv /\ [Next]_vars => [RefundStays]_vars
<1>1. SUFFICES ASSUME RInv, NEW p \in Sessions,
                      Ask(p) \/ Serve(p) \/ Disconnect(p) \/ DeadlockVictim(p)
               PROVE  RefundStays
  BY DEF Next
<1>2. CASE CommitStep(p) \/ TouchAndCommit(p)
  <2>1. CASE Rollback(p)
    BY <2>1, KeptByStatus DEF Rollback, rows
  <2>2. QED
    BY <1>1, <1>2, <2>1, CommitOrRollback, KeptByCommit
<1>3. CASE ~CommitStep(p) /\ ~TouchAndCommit(p)
  BY <1>1, <1>3, RowsStill, KeptByStatus, KeptByStageWrites
<1>4. QED
  BY <1>2, <1>3

\* However stale the status a request decided on, a stage the arbitration
\* refunded is not turned into a paid, verifying or void one.
THEOREM RefundKept == Spec => RefundIsNotPaidOver
<1>1. Spec => [][RefundStays]_vars
  BY RowInvariance, RefundStep, PTL DEF Spec
<1>2. QED
  BY <1>1 DEF RefundIsNotPaidOver, RefundStays

(***************************************************************************)
(* The handlers implement EscrowLedger.                                    *)
(***************************************************************************)
LEMMA LedgerTotal == ASSUME NEW L PROVE Ledger!Total(L) = Total(L)
BY DEF Ledger!Total, Total, Ledger!MapThenSumSet, MapThenSumSet, Ledger!MapThenFoldSet, MapThenFoldSet

LEMMA LedgerReads ==
  /\ Ledger!Available = Available
  /\ \A s : Ledger!Refundable(s) = PaidAgainst(s) + Total(RefundsOf(ledger, s))
  /\ \A s : Ledger!Booked("payment", s) <=> HasPayment(s)
  /\ \A d : Ledger!Booked("refund", d) <=> HasRefund(d)
  /\ Ledger!Frozen <=> Frozen
<1>1. Ledger!Available = Available
  BY LedgerTotal DEF Ledger!Available, Available, PaidTotal
<1>2. ASSUME NEW s PROVE Ledger!Refundable(s) = PaidAgainst(s) + Total(RefundsOf(ledger, s))
  <2>1. Ledger!Refundable(s) = Ledger!Total(PaymentsOf(ledger, s)) + Ledger!Total(RefundsOf(ledger, s))
    BY DEF Ledger!Refundable, PaymentsOf, RefundsOf
  <2>2. QED
    BY <2>1, LedgerTotal, RowsOfStage
<1>3. QED
  BY <1>1, <1>2 DEF Ledger!Booked, Ledger!Frozen, HasPayment, HasRefund, Frozen

\* What is left of the payment of a stage is what EscrowLedger lets go back.
LEMMA LedgerRefundable ==
  ASSUME IInv, NEW s \in Stages
  PROVE  Ledger!Refundable(s) = PaidAgainst(s) - RefundedAgainst(s)
<1>1. PICK P, T, R : P = PaidAgainst(s) /\ T = Total(RefundsOf(ledger, s)) /\ R = RefundedAgainst(s)
  OBVIOUS
<1>2. R = -T /\ Ledger!Refundable(s) = P + T
  BY <1>1, RowsOfStage, LedgerReads
<1>3. P \in Int
  BY <1>1, PaidAgainstIs, NetAssumption DEF IInv
<1>4. T \in Int
  <2>1. RefundsOf(ledger, s) \in SUBSET Row /\ IsFiniteSet(RefundsOf(ledger, s))
    BY FS_Subset DEF IInv, TypeOK, RefundsOf
  <2>2. QED
    BY <1>1, <2>1, SumOfRows
<1>5. P + T = P - (-T)
  BY <1>3, <1>4
<1>6. QED
  BY <1>1, <1>2, <1>5

LEMMA CommitMoves ==
  ASSUME RInv, NEW p \in Sessions, CommitStep(p) \/ TouchAndCommit(p)
  PROVE  \/ Rollback(p)
         \/ /\ Commits(p)
            /\ budget' = IF writes[p].budget = Kept THEN budget ELSE writes[p].budget
<1>1. Commit(p)
  BY DEF CommitStep, TouchAndCommit
<1>2. Rollback(p) \/ budget' = IF writes[p].budget = Kept THEN budget ELSE writes[p].budget
  BY <1>1 DEF Commit
<1>3. QED
  BY <1>2, CommitOrRollback

\* A commit that books a payment: Pay, or Release when it resolves a dispute.
LEMMA PaymentImplements ==
  ASSUME RInv, NEW p \in Sessions, Commits(p), budget' = budget,
         PaymentReady(at[p], req[p], writes[p], mode[p])
  PROVE  Ledger!Pay \/ Ledger!Release
<1>1. PICK s, d : s = Stage(p) /\ d = req[p].dispute
  OBVIOUS
<1>2. s \in Stages /\ writes[p].rows = {Payment(s)} /\ Net[s] <= Available
  BY <1>1 DEF PaymentReady, Stage
<1>3. ~HasPayment(s)
  <2>1. Payment(s) \in writes[p].rows
    BY <1>2
  <2>2. \A d1, t, n : Payment(s) # Refund(d1, t, n)
    BY DEF Payment, Refund
  <2>3. Payment(Stage(p)) = Payment(s)
    BY <1>1
  <2>4. QED
    BY <1>1, <2>1, <2>2, WrittenRow
<1>4. ledger' = ledger \cup {Payment(s)}
  BY <1>2 DEF Commits
<1>5. Ledger!Charge(s)
  BY <1>2, <1>3, <1>4, LedgerReads DEF Ledger!Charge, Ledger!Payment, Payment
<1>6. RowReady(at[p], req[p], writes[p])
  BY DEF RInv
<1>7. CASE at[p] = "commit" /\ ~Frozen
  <2>1. dispute' = dispute
    BY <1>6, <1>7 DEF Commits, RowReady, Outcome
  <2>2. QED
    BY <1>2, <1>5, <1>7, <2>1, LedgerReads DEF Ledger!Pay
<1>8. CASE at[p] = "act.touch" /\ req[p].choice = "release_payment"
  <2>1. writes[p].dispute = "resolved"
    BY <1>6, <1>8 DEF RowReady, Outcome
  <2>2. d \in Disputes /\ s = dispute[d].stage
    BY <1>1, <1>6, <1>8 DEF RowReady, KnowsDispute, Deciding, Stage
  <2>3. dispute' = [dispute EXCEPT ![d].status = "resolved"]
    BY <1>1, <2>1 DEF Commits
  <2>4. s # NoStage
    BY <1>2, StagesAssumption
  <2>5. QED
    BY <1>5, <2>2, <2>3, <2>4 DEF Ledger!Release, Ledger!Close
<1>9. QED
  BY <1>7, <1>8 DEF PaymentReady, Commits

\* A commit that books a reversal: Reverse.
LEMMA RefundImplements ==
  ASSUME RInv, NEW p \in Sessions, Commits(p), budget' = budget,
         RefundReady(at[p], writes[p])
  PROVE  Ledger!Reverse
<1>1. PICK s, d, n, w : s = Stage(p) /\ d = req[p].dispute /\ n = req[p].amount /\ w = writes[p]
  OBVIOUS
<1>2. RowReady(at[p], req[p], w)
  BY <1>1 DEF RInv
<1>3. w.rows # {} /\ \A x \in w.rows : x.type = "refund"
  <2>1. PICK e, t, m : w.rows = {Refund(e, t, m)}
    BY <1>1 DEF RefundReady
  <2>2. Refund(e, t, m).type = "refund"
    BY DEF Refund
  <2>3. QED
    BY <2>1, <2>2
<1>4. ~Paying(at[p], w)
  <2>1. Payment(s).type = "payment" /\ s = req[p].stage
    BY <1>1 DEF Payment, Stage
  <2>2. Paying(at[p], w) => w.rows \subseteq {Payment(s)}
    BY <1>2, <2>1 DEF RowReady, WritesPayment
  <2>3. QED
    BY <1>3, <2>1, <2>2
<1>5. Refunding(at[p], req[p]) /\ at[p] = "act.touch" /\ req[p].choice = "record_refund"
  BY <1>2, <1>3, <1>4 DEF RowReady, WritesElse, RefundReady, Refunding, Commits
<1>6. /\ n \in Amounts
      /\ dispute[d].claim # NoClaim => n <= dispute[d].claim
      /\ w.mirror = RefundedAgainst(s) + n /\ w.mirror <= PaidAgainst(s)
      /\ w.rows = {Refund(d, s, n)} /\ ~HasRefund(d)
  BY <1>1, <1>2, <1>5 DEF RowReady, WritesRefund, Stage
<1>7. d \in Disputes /\ s = dispute[d].stage /\ w.dispute = "resolved"
  BY <1>1, <1>2, <1>5 DEF RowReady, KnowsDispute, Deciding, Outcome, Stage
<1>8. s \in Stages
  BY <1>1, <1>3, WrittenRow
<1>9. s # NoStage
  BY <1>8, StagesAssumption
<1>10. n <= Ledger!Refundable(s)
  <2>1. PICK P \in Int, R \in Int : P = PaidAgainst(s) /\ R = RefundedAgainst(s)
    BY <1>8, PaidAgainstIs, SumsAreInt, NetAssumption DEF RInv, IInv
  <2>2. R + n <= P /\ n \in Int
    BY <1>6, <2>1, AmountsAssumption
  <2>3. n <= P - R
    BY <2>1, <2>2
  <2>4. QED
    BY <1>8, <2>1, <2>3, LedgerRefundable DEF RInv
<1>11. ledger' = ledger \cup {Refund(d, s, n)} /\ dispute' = [dispute EXCEPT ![d].status = "resolved"]
  BY <1>1, <1>6, <1>7 DEF Commits
<1>12. QED
  BY <1>6, <1>7, <1>9, <1>10, <1>11, LedgerReads
     DEF Ledger!Reverse, Ledger!Close, Ledger!Refund, Refund, NoClaim

\* A commit that books nothing: it moves the ceiling, settles a dispute, or
\* writes no variable of EscrowLedger.
LEMMA PlainImplements ==
  ASSUME RInv, NEW p \in Sessions, Commits(p), writes[p].rows = {},
         budget' = IF writes[p].budget = Kept THEN budget ELSE writes[p].budget
  PROVE  [Ledger!Next]_Ledger!vars
<1>1. PICK w, d : w = writes[p] /\ d = req[p].dispute
  OBVIOUS
<1>2. RowReady(at[p], req[p], w) /\ Ready(at[p], req[p], w, mode[p])
  BY <1>1 DEF RInv, IInv, SessionsReady
<1>3. ledger' = ledger
  BY DEF Commits
<1>4. CASE w.budget # Kept
  <2>1. at[p] = "commit" /\ PaidTotal <= w.budget /\ (w.budget < budget => ~Frozen)
    BY <1>2, <1>4 DEF Ready, BudgetReady
  <2>2. dispute' = dispute /\ budget' = w.budget
    BY <1>1, <1>2, <1>4, <2>1 DEF Commits, RowReady, Outcome
  <2>3. PICK n \in Amounts : w.budget \in {budget + n, budget - n}
    BY <1>2, <1>4 DEF RowReady, WritesBudget
  <2>4. CASE w.budget = budget + n
    <3>1. Ledger!Deposit
      BY <1>3, <2>2, <2>4 DEF Ledger!Deposit
    <3>2. QED
      BY <3>1 DEF Ledger!Next
  <2>5. CASE w.budget = budget - n
    <3>1. n \in Nat /\ n > 0
      BY AmountsAssumption
    <3>2. budget \in Int /\ PaidTotal \in Int
      <4>1. ledger \in SUBSET Row /\ IsFiniteSet(ledger) /\ budget \in Int
        BY DEF RInv, IInv, TypeOK
      <4>2. QED
        BY <4>1, SumOfRows DEF PaidTotal
    <3>3. PaidTotal <= budget - n /\ ~Frozen
      BY <2>1, <2>5, <3>1, <3>2
    <3>4. n <= Available
      BY <3>1, <3>2, <3>3 DEF Available
    <3>5. Ledger!Reduce
      BY <1>3, <2>2, <2>5, <3>3, <3>4, LedgerReads DEF Ledger!Reduce
    <3>6. QED
      BY <3>5 DEF Ledger!Next
  <2>6. QED
    BY <2>3, <2>4, <2>5
<1>5. CASE w.budget = Kept /\ w.dispute = ""
  BY <1>1, <1>3, <1>5 DEF Commits, Ledger!vars
<1>6. CASE w.budget = Kept /\ w.dispute # ""
  <2>1. /\ at[p] \in {"withdraw.project", "act.touch"}
        /\ w.dispute \in {"withdrawn", "dismissed", "resolved"}
    BY <1>2, <1>6 DEF RowReady, Outcome
  <2>2. d \in Disputes /\ dispute[d].status # "none"
    BY <1>1, <1>2, <2>1 DEF RowReady, KnowsDispute, Deciding, Withdrawing
  <2>3. dispute' = [dispute EXCEPT ![d].status = w.dispute] /\ budget' = budget
    BY <1>1, <1>6 DEF Commits
  <2>4. Ledger!Settle
    BY <1>3, <2>1, <2>2, <2>3 DEF Ledger!Settle, Ledger!Close
  <2>5. QED
    BY <2>4 DEF Ledger!Next
<1>7. QED
  BY <1>4, <1>5, <1>6

LEMMA InsertImplements ==
  ASSUME RInv, NEW p \in Sessions, InsertDispute(p)
  PROVE  Ledger!Open
<1>1. Runs(p, "open.insert") /\ UNCHANGED <<budget, ledger>>
  BY DEF InsertDispute
<1>2. req[p].amount \in Amounts \cup {NoClaim}
  BY <1>1, Mine2 DEF Fits
<1>3. Stage(p) \in Stages \cup {NoStage}
  BY DEF Stage, RInv, IInv, TypeOK, Request
<1>4. PICK d \in Disputes :
        /\ dispute[d].status = "none"
        /\ dispute' = [dispute EXCEPT ![d] =
             [status |-> "open", stage |-> Stage(p), claim |-> req[p].amount]]
  BY DEF InsertDispute, Unused
<1>5. QED
  BY <1>1, <1>2, <1>3, <1>4 DEF Ledger!Open, NoClaim

LEMMA StepImplements == RInv /\ [Next]_vars => [Ledger!Next]_Ledger!vars
<1>1. SUFFICES ASSUME RInv, [Next]_vars PROVE [Ledger!Next]_Ledger!vars
  OBVIOUS
<1>2. CASE UNCHANGED <<budget, ledger, dispute>>
  BY <1>2 DEF Ledger!vars
<1>3. CASE UNCHANGED vars
  BY <1>2, <1>3 DEF vars, rows
<1>4. ASSUME NEW p \in Sessions, Ask(p) \/ Serve(p) \/ Disconnect(p) \/ DeadlockVictim(p)
      PROVE  [Ledger!Next]_Ledger!vars
  <2>1. CASE CommitStep(p) \/ TouchAndCommit(p)
    <3>1. CASE Rollback(p)
      BY <1>2, <3>1 DEF Rollback, rows
    <3>2. CASE /\ Commits(p)
               /\ budget' = IF writes[p].budget = Kept THEN budget ELSE writes[p].budget
      <4>1. Ready(at[p], req[p], writes[p], mode[p])
        BY <1>1 DEF RInv, IInv, SessionsReady
      <4>2. CASE writes[p].rows = {}
        BY <1>1, <3>2, <4>2, PlainImplements
      <4>3. CASE PaymentReady(at[p], req[p], writes[p], mode[p])
        BY <1>1, <3>2, <4>3, PaymentImplements DEF PaymentReady, Ledger!Next
      <4>4. CASE RefundReady(at[p], writes[p])
        BY <1>1, <3>2, <4>4, RefundImplements DEF RefundReady, Ledger!Next
      <4>5. QED
        BY <4>1, <4>2, <4>3, <4>4 DEF Ready
    <3>3. QED
      BY <1>1, <2>1, <3>1, <3>2, CommitMoves
  <2>2. CASE ~CommitStep(p) /\ ~TouchAndCommit(p)
    <3>1. CASE InsertDispute(p)
      BY <1>1, <3>1, InsertImplements DEF Ledger!Next
    <3>2. CASE ~InsertDispute(p)
      BY <1>2, <1>4, <2>2, <3>2, RowsStill, MoneyStill
    <3>3. QED
      BY <3>1, <3>2
  <2>3. QED
    BY <2>1, <2>2
<1>5. QED
  BY <1>1, <1>3, <1>4 DEF Next

\* Whatever the interleaving of the handlers and of their row locks, what
\* they commit is a sequence of the atomic bookings of EscrowLedger.
THEOREM Refines == Spec => ImplementsLedger
<1>1. Init => Ledger!Init
  BY DEF Init, Ledger!Init, NoClaim
<1>2. QED
  BY <1>1, RowInvariance, StepImplements, PTL DEF Spec, ImplementsLedger, Ledger!Spec

=============================================================================
