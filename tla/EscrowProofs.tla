------------------------------ MODULE EscrowProofs ------------------------------
(***************************************************************************)
(* For every number of sessions, stages and disputes, every price and      *)
(* every opening ceiling: the ceiling covers what was paid, and no money   *)
(* moves while a dispute is open.                                          *)
(***************************************************************************)
EXTENDS EscrowInvariant, LedgerSumProofs

(***************************************************************************)
(* The sums of the ledger.                                                 *)
(***************************************************************************)
LEMMA RowAmount == \A r \in Row : r.amount \in Int
BY NetAssumption, AmountsAssumption DEF Row, Payment, Refund

LEMMA PaymentRow == ASSUME NEW s \in Stages
                    PROVE  Payment(s) \in Row /\ Payment(s).amount = Net[s] /\ Net[s] \in Nat
BY NetAssumption DEF Row, Payment

LEMMA RefundRow == ASSUME NEW d \in Disputes, NEW s \in Stages, NEW n \in Amounts
                   PROVE  Refund(d, s, n) \in Row /\ Refund(d, s, n).amount = -n /\ n \in Nat
BY AmountsAssumption DEF Row, Refund

LEMMA SumOfRows == ASSUME NEW L \in SUBSET Row, IsFiniteSet(L)
                   PROVE  Total(L) \in Int
BY RowAmount, TotalInt DEF LedgerRows

\* Booking a row the ledger does not have adds its amount.
LEMMA SumWithRow == ASSUME NEW L \in SUBSET Row, IsFiniteSet(L), NEW x \in Row, x \notin L
                    PROVE  /\ IsFiniteSet(L \cup {x})
                           /\ Total(L \cup {x}) = x.amount + Total(L)
<1>1. IsFiniteSet(L \cup {x})
  BY FS_AddElement
<1>2. LedgerRows(L \cup {x})
  BY <1>1, RowAmount DEF LedgerRows
<1>3. (L \cup {x}) \ {x} = L
  OBVIOUS
<1>4. Total(L \cup {x}) = x.amount + Total((L \cup {x}) \ {x})
  BY <1>2, TotalSplit
<1>5. QED
  BY <1>1, <1>3, <1>4

(***************************************************************************)
(* Sessions and locks.                                                     *)
(***************************************************************************)
LEMMA Blank == NoRequest \in Request /\ NoWrites \in Buffer
BY DEF NoRequest, NoWrites, Request, Buffer, Words, Kept

LEMMA BlankWrites == NoWrites.rows = {} /\ NoWrites.budget = Kept /\ NoWrites.dispute = ""
BY DEF NoWrites

\* A session that has written nothing is ready wherever its request fits.
LEMMA BlankReady == ASSUME NEW point, NEW r, NEW m, Fits(point, r),
                           point \in Locked => m = "exclusive",
                           point \notin {"record.insert", "terminate.stages"}
                    PROVE  Ready(point, r, NoWrites, m)
BY BlankWrites DEF Ready

LEMMA Typed == ASSUME TypeOK, NEW p \in Sessions
               PROVE  /\ at[p] \in Points /\ req[p] \in Request
                      /\ writes[p] \in Buffer /\ mode[p] \in Modes
                      /\ ledger \in SUBSET Row /\ budget \in Int
BY DEF TypeOK

\* What a session has ready depends on the rows only if it holds the project
\* row exclusively.
LEMMA ReadyKept == ASSUME NEW point, NEW r, NEW w, NEW m, Ready(point, r, w, m),
                          \/ m # "exclusive"
                          \/ UNCHANGED <<ledger, budget, dispute>>
                   PROVE  Ready(point, r, w, m)'
<1>1. CASE m # "exclusive"
  BY <1>1 DEF Ready, PaymentReady, BudgetReady, RefundReady, Locked
<1>2. CASE UNCHANGED <<ledger, budget, dispute>>
  BY <1>2 DEF Ready, PaymentReady, BudgetReady, RefundReady, Available, PaidTotal, Frozen
<1>3. QED
  BY <1>1, <1>2

LEMMA ReadyCarries ==
  ASSUME NEW q, Ready(at[q], req[q], writes[q], mode[q]),
         at'[q] = at[q], req'[q] = req[q], writes'[q] = writes[q], mode'[q] = mode[q],
         \/ mode[q] # "exclusive"
         \/ UNCHANGED <<ledger, budget, dispute>>
  PROVE  Ready(at[q], req[q], writes[q], mode[q])'
BY DEF Ready, PaymentReady, RefundReady, BudgetReady, Fits, Locked, Available, PaidTotal, Frozen

LEMMA ConflictSymmetric == \A a, b : Conflict(a, b) <=> Conflict(b, a)
BY DEF Conflict

LEMMA NoneNeverConflicts == \A b : ~Conflict("none", b)
BY DEF Conflict

\* A statement runs when no other session holds a conflicting project lock.
LEMMA Granted == ASSUME NEW p \in Sessions, NEW point, Runs(p, point)
                 PROVE  \A q \in Sessions \ {p} : ~Conflict(ProjectNeed(p), mode[q])
BY DEF Runs, Blockers

(***************************************************************************)
(* The shapes of a step.  A step that writes no row moves one session; a   *)
(* step that writes rows ends its request.                                 *)
(***************************************************************************)
LEMMA QuietStep ==
  ASSUME IInv, NEW p \in Sessions,
         NEW point \in Points, NEW r \in Request, NEW w \in Buffer, NEW m \in Modes,
         Ready(point, r, w, m),
         \A q \in Sessions \ {p} : ~Conflict(m, mode[q]),
         at' = [at EXCEPT ![p] = point],
         req' = [req EXCEPT ![p] = r],
         writes' = [writes EXCEPT ![p] = w],
         mode' = [mode EXCEPT ![p] = m],
         rowLock' \in [Stages -> Sessions \cup {NoSession}],
         disputeLock' \in [Disputes -> Sessions \cup {NoSession}],
         UNCHANGED rows
  PROVE  IInv'
<1>1. TypeOK'
  BY DEF IInv, TypeOK, rows
<1>2. IsFiniteSet(ledger)' /\ NoOverspend'
  BY DEF IInv, NoOverspend, PaidTotal, rows
<1>3. LocksCompatible'
  <2>1. SUFFICES ASSUME NEW x \in Sessions, NEW y \in Sessions, x # y
                 PROVE  ~Conflict(mode'[x], mode'[y])
    BY DEF LocksCompatible, Conflict
  <2>2. \A q \in Sessions : mode'[q] = IF q = p THEN m ELSE mode[q]
    BY DEF IInv, TypeOK
  <2>3. CASE x = p
    BY <2>1, <2>2, <2>3
  <2>4. CASE y = p
    BY <2>1, <2>2, <2>4, ConflictSymmetric
  <2>5. CASE x # p /\ y # p
    BY <2>1, <2>2, <2>5 DEF IInv, LocksCompatible
  <2>6. QED
    BY <2>3, <2>4, <2>5
<1>4. SessionsReady'
  <2>1. SUFFICES ASSUME NEW q \in Sessions
                 PROVE  Ready(at[q], req[q], writes[q], mode[q])'
    BY DEF SessionsReady
  <2>2. UNCHANGED <<ledger, budget, dispute>>
    BY DEF rows
  <2>3. CASE q = p
    <3>1. at'[q] = point /\ req'[q] = r /\ writes'[q] = w /\ mode'[q] = m
      BY <2>3 DEF IInv, TypeOK
    <3>2. Ready(point, r, w, m)'
      BY <2>2, ReadyKept
    <3>3. QED
      BY <3>1, <3>2 DEF Ready, PaymentReady, RefundReady, BudgetReady, Fits
  <2>4. CASE q # p
    <3>1. at'[q] = at[q] /\ req'[q] = req[q] /\ writes'[q] = writes[q] /\ mode'[q] = mode[q]
      BY <2>4 DEF IInv, TypeOK
    <3>2. Ready(at[q], req[q], writes[q], mode[q])
      BY DEF IInv, SessionsReady
    <3>3. QED
      BY <2>2, <3>1, <3>2, ReadyCarries
  <2>5. QED
    BY <2>3, <2>4
<1>5. QED
  BY <1>1, <1>2, <1>3, <1>4 DEF IInv


LEMMA WritingStep ==
  ASSUME IInv, NEW p \in Sessions, Done(p),
         \/ \A q \in Sessions \ {p} : mode[q] # "exclusive"
         \/ UNCHANGED <<ledger, budget, dispute>>,
         status' \in [Stages -> StageStatus],
         mirror' \in [Stages -> Int],
         ledger' \in SUBSET Row, IsFiniteSet(ledger'),
         budget' \in Int,
         dispute' \in [Disputes -> [status : DisputeStatus, stage : Stages \cup {NoStage},
                                   claim : Amounts \cup {NoClaim}]],
         project' \in ProjectStatus, contract' \in Contract,
         NoOverspend'
  PROVE  IInv'
<1>1. TypeOK'
  BY Blank DEF IInv, TypeOK, Done, Points, Modes
<1>2. \A q \in Sessions : mode'[q] = IF q = p THEN "none" ELSE mode[q]
  BY DEF Done, IInv, TypeOK
<1>3. LocksCompatible'
  BY <1>2, NoneNeverConflicts, ConflictSymmetric DEF IInv, LocksCompatible
<1>4. SessionsReady'
  <2>1. SUFFICES ASSUME NEW q \in Sessions
                 PROVE  Ready(at[q], req[q], writes[q], mode[q])'
    BY DEF SessionsReady
  <2>2. CASE q = p
    <3>1. at'[q] = "idle" /\ req'[q] = NoRequest /\ writes'[q] = NoWrites /\ mode'[q] = "none"
      BY <2>2 DEF Done, IInv, TypeOK
    <3>2. QED
      BY <3>1, BlankWrites DEF Ready, Fits, Locked, AboutStage
  <2>3. CASE q # p
    <3>1. at'[q] = at[q] /\ req'[q] = req[q] /\ writes'[q] = writes[q] /\ mode'[q] = mode[q]
      BY <2>3 DEF Done, IInv, TypeOK
    <3>2. Ready(at[q], req[q], writes[q], mode[q])
      BY DEF IInv, SessionsReady
    <3>3. QED
      BY <2>3, <3>1, <3>2, ReadyCarries
  <2>4. QED
    BY <2>2, <2>3
<1>5. QED
  BY <1>1, <1>3, <1>4 DEF IInv

LEMMA RollbackStep == ASSUME IInv, NEW p \in Sessions, Rollback(p) PROVE IInv'
<1>1. UNCHANGED <<status, mirror, ledger, budget, dispute, project, contract>> /\ Done(p)
  BY DEF Rollback, rows
<1>2. NoOverspend'
  BY <1>1 DEF IInv, NoOverspend, PaidTotal
<1>3. QED
  BY <1>1, <1>2, WritingStep DEF IInv, TypeOK

LEMMA BeginStep ==
  ASSUME IInv, NEW p \in Sessions, Idle(p), NEW point \in Points, NEW r \in Request,
         point \notin Locked, point # "terminate.stages", Fits(point, r), Begin(p, point, r)
  PROVE  IInv'
<1>1. Ready(at[p], req[p], writes[p], mode[p])
  BY DEF IInv, SessionsReady
<1>2. writes[p] = NoWrites
  BY <1>1 DEF Ready, Idle, Unwritten
<1>3. Ready(point, r, writes[p], mode[p])
  BY <1>2, BlankReady DEF Locked
<1>4. \A q \in Sessions \ {p} : ~Conflict(mode[p], mode[q])
  BY DEF IInv, LocksCompatible
<1>5. /\ at' = [at EXCEPT ![p] = point]
      /\ req' = [req EXCEPT ![p] = r]
      /\ writes' = [writes EXCEPT ![p] = writes[p]]
      /\ mode' = [mode EXCEPT ![p] = mode[p]]
      /\ rowLock' \in [Stages -> Sessions \cup {NoSession}]
      /\ disputeLock' \in [Disputes -> Sessions \cup {NoSession}]
      /\ UNCHANGED rows
  BY DEF Begin, Goto, locks, IInv, TypeOK
<1>6. writes[p] \in Buffer /\ mode[p] \in Modes
  BY Typed DEF IInv
<1>7. QED
  BY <1>3, <1>4, <1>5, <1>6, QuietStep

\* The lock a session has after a statement that asked for m.
Held(p, m) == IF mode[p] = "exclusive" THEN mode[p] ELSE m

LEMMA ProceedStep ==
  ASSUME IInv, NEW p \in Sessions, NEW m \in Modes, NEW w \in Buffer, NEW point \in Points,
         Proceed(p, m, w, point),
         Ready(point, req[p], w, Held(p, m)),
         \/ mode[p] = "exclusive"
         \/ \A q \in Sessions \ {p} : ~Conflict(m, mode[q])
  PROVE  IInv'
<1>1. \A q \in Sessions \ {p} : ~Conflict(Held(p, m), mode[q])
  BY DEF IInv, LocksCompatible, Held
<1>2. /\ at' = [at EXCEPT ![p] = point]
      /\ req' = [req EXCEPT ![p] = req[p]]
      /\ writes' = [writes EXCEPT ![p] = w]
      /\ mode' = [mode EXCEPT ![p] = Held(p, m)]
      /\ rowLock' \in [Stages -> Sessions \cup {NoSession}]
      /\ disputeLock' \in [Disputes -> Sessions \cup {NoSession}]
      /\ UNCHANGED rows
  BY DEF Proceed, Strengthen, Goto, Held, IInv, TypeOK
<1>3. req[p] \in Request /\ Held(p, m) \in Modes
  BY Typed DEF IInv, Held
<1>4. QED
  BY <1>1, <1>2, <1>3, QuietStep

LEMMA StageStep ==
  ASSUME IInv, NEW p \in Sessions, NEW w \in Buffer, NEW point \in Points,
         ProceedWithStage(p, w, point), Ready(point, req[p], w, mode[p])
  PROVE  IInv'
<1>1. \A q \in Sessions \ {p} : ~Conflict(mode[p], mode[q])
  BY DEF IInv, LocksCompatible
<1>2. /\ at' = [at EXCEPT ![p] = point]
      /\ req' = [req EXCEPT ![p] = req[p]]
      /\ writes' = [writes EXCEPT ![p] = w]
      /\ mode' = [mode EXCEPT ![p] = mode[p]]
      /\ rowLock' \in [Stages -> Sessions \cup {NoSession}]
      /\ disputeLock' \in [Disputes -> Sessions \cup {NoSession}]
      /\ UNCHANGED rows
  BY DEF ProceedWithStage, Goto, IInv, TypeOK
<1>3. req[p] \in Request /\ mode[p] \in Modes
  BY Typed DEF IInv
<1>4. QED
  BY <1>1, <1>2, <1>3, QuietStep

LEMMA DisputeStep ==
  ASSUME IInv, NEW p \in Sessions, NEW outcome \in DisputeStatus, NEW point \in Points,
         CloseDispute(p, outcome, point),
         Ready(point, req[p], [writes[p] EXCEPT !.dispute = outcome], mode[p])
  PROVE  IInv'
<1> DEFINE w == [writes[p] EXCEPT !.dispute = outcome]
<1>1. \A q \in Sessions \ {p} : ~Conflict(mode[p], mode[q])
  BY DEF IInv, LocksCompatible
<1>2. /\ at' = [at EXCEPT ![p] = point]
      /\ req' = [req EXCEPT ![p] = req[p]]
      /\ writes' = [writes EXCEPT ![p] = w]
      /\ mode' = [mode EXCEPT ![p] = mode[p]]
      /\ rowLock' \in [Stages -> Sessions \cup {NoSession}]
      /\ disputeLock' \in [Disputes -> Sessions \cup {NoSession}]
      /\ UNCHANGED rows
  BY DEF CloseDispute, Goto, IInv, TypeOK
<1>3. req[p] \in Request /\ mode[p] \in Modes /\ w \in Buffer
  BY Typed DEF IInv, Buffer
<1> HIDE DEF w
<1>4. Ready(point, req[p], w, mode[p])
  BY DEF w
<1>5. QED
  BY <1>1, <1>2, <1>3, <1>4, QuietStep


(***************************************************************************)
(* Each action preserves the invariant.                                    *)
(***************************************************************************)
LEMMA WordsKnown ==
  /\ {"accept", "reject", "deposit", "adjustment_down"} \subseteq Words
  /\ Editable \subseteq Words
  /\ DOMAIN ActStart \subseteq Words
  /\ ProjectStatus \subseteq Words
  /\ "" \in Words
BY DEF Words

LEMMA AmountsInt == Amounts \cup {0, NoClaim} \subseteq Int
BY AmountsAssumption DEF NoClaim

LEMMA AskStep == ASSUME IInv, NEW p \in Sessions, Ask(p) PROVE IInv'
<1>1. ASSUME NEW s \in Stages, NEW v \in {"accept", "reject"}, BeginVerify(p, s, v) PROVE IInv'
  <2> DEFINE r == [NoRequest EXCEPT !.stage = s, !.choice = v]
  <2>1. Idle(p) /\ Begin(p, "verify.project", r)
    BY <1>1 DEF BeginVerify, Asks
  <2>2. r \in Request
    BY Blank, WordsKnown DEF Request
  <2>3. r.stage = s /\ r.choice = v
    BY Blank DEF Request
  <2>4. Fits("verify.project", r)
    BY <2>3 DEF Fits, AboutStage
  <2> HIDE DEF r
  <2>5. QED
    BY <2>1, <2>2, <2>4, BeginStep DEF Points, Locked
<1>2. ASSUME NEW s \in Stages, BeginMarkPaid(p, s) PROVE IInv'
  <2> DEFINE r == [NoRequest EXCEPT !.stage = s]
  <2>1. Idle(p) /\ Begin(p, "markPaid.project", r)
    BY <1>2 DEF BeginMarkPaid, Asks
  <2>2. r \in Request
    BY Blank, WordsKnown DEF Request
  <2>3. r.stage = s
    BY Blank DEF Request
  <2>4. Fits("markPaid.project", r)
    BY <2>3 DEF Fits, AboutStage
  <2> HIDE DEF r
  <2>5. QED
    BY <2>1, <2>2, <2>4, BeginStep DEF Points, Locked
<1>3. ASSUME NEW s \in Stages, BeginUpload(p, s) PROVE IInv'
  <2> DEFINE r == [NoRequest EXCEPT !.stage = s]
  <2>1. Idle(p) /\ Begin(p, "upload.stage", r)
    BY <1>3 DEF BeginUpload, Asks
  <2>2. r \in Request
    BY Blank, WordsKnown DEF Request
  <2>3. r.stage = s
    BY Blank DEF Request
  <2>4. Fits("upload.stage", r)
    BY <2>3 DEF Fits, AboutStage
  <2> HIDE DEF r
  <2>5. QED
    BY <2>1, <2>2, <2>4, BeginStep DEF Points, Locked
<1>4. ASSUME NEW s \in Stages, NEW new \in Editable, BeginEdit(p, s, new) PROVE IInv'
  <2> DEFINE r == [NoRequest EXCEPT !.stage = s, !.choice = new]
  <2>1. Idle(p) /\ Begin(p, "edit.stage", r)
    BY <1>4 DEF BeginEdit, Asks
  <2>2. r \in Request
    BY Blank, WordsKnown DEF Request
  <2>3. r.stage = s /\ r.choice = new
    BY Blank DEF Request
  <2>4. Fits("edit.stage", r)
    BY <2>3 DEF Fits, AboutStage
  <2> HIDE DEF r
  <2>5. QED
    BY <2>1, <2>2, <2>4, BeginStep DEF Points, Locked
<1>5. ASSUME NEW s \in Stages, BeginDelete(p, s) PROVE IInv'
  <2> DEFINE r == [NoRequest EXCEPT !.stage = s]
  <2>1. Idle(p) /\ Begin(p, "delete.stage", r)
    BY <1>5 DEF BeginDelete, Asks
  <2>2. r \in Request
    BY Blank, WordsKnown DEF Request
  <2>3. r.stage = s
    BY Blank DEF Request
  <2>4. Fits("delete.stage", r)
    BY <2>3 DEF Fits, AboutStage
  <2> HIDE DEF r
  <2>5. QED
    BY <2>1, <2>2, <2>4, BeginStep DEF Points, Locked
<1>6. ASSUME NEW s \in Stages \cup {NoStage}, NEW claim \in Amounts \cup {NoClaim},
             BeginOpen(p, s, claim)
      PROVE  IInv'
  <2> DEFINE r == [NoRequest EXCEPT !.stage = s, !.amount = claim]
  <2>1. Idle(p) /\ Begin(p, "open.insert", r)
    BY <1>6 DEF BeginOpen, Asks
  <2>2. r \in Request
    BY Blank, WordsKnown, AmountsInt DEF Request
  <2>3. r.stage = s /\ r.amount = claim
    BY Blank DEF Request
  <2>4. Fits("open.insert", r)
    BY <2>3 DEF Fits, AboutStage, NoClaim
  <2> HIDE DEF r
  <2>5. QED
    BY <2>1, <2>2, <2>4, BeginStep DEF Points, Locked
<1>7. ASSUME NEW d \in Disputes, BeginWithdraw(p, d) PROVE IInv'
  <2> DEFINE r == [NoRequest EXCEPT !.dispute = d]
  <2>1. Idle(p) /\ Begin(p, "withdraw.dispute", r)
    BY <1>7 DEF BeginWithdraw, Asks
  <2>2. r \in Request
    BY Blank, WordsKnown DEF Request
  <2>3. r.dispute = d
    BY Blank DEF Request
  <2>4. Fits("withdraw.dispute", r)
    BY <2>3 DEF Fits, AboutStage
  <2> HIDE DEF r
  <2>5. QED
    BY <2>1, <2>2, <2>4, BeginStep DEF Points, Locked
<1>8. ASSUME NEW d \in Disputes, NEW action \in DOMAIN ActStart, NEW n \in Amounts \cup {0},
             BeginAct(p, d, action, n)
      PROVE  IInv'
  <2> DEFINE r     == [stage |-> dispute[d].stage, dispute |-> d, choice |-> action, amount |-> n]
             point == ActStart[action]
  <2>1. /\ Idle(p) /\ Begin(p, point, r)
        /\ action \in {"record_refund", "release_payment"} => dispute[d].stage # NoStage
        /\ (action = "record_refund") = (n > 0)
    BY <1>8 DEF BeginAct, Asks
  <2>2. dispute[d].stage \in Stages \cup {NoStage}
    BY DEF IInv, TypeOK
  <2>3. r \in Request
    <3>1. n \in Int /\ action \in Words /\ d \in Disputes \cup {NoDispute}
      BY WordsKnown, AmountsInt
    <3>2. QED
      BY <2>2, <3>1 DEF Request
  <2>4. /\ point \in {"act.close", "act.cancel", "act.refund", "act.release"}
        /\ point = "act.refund" => action = "record_refund"
        /\ point = "act.release" => action = "release_payment"
    BY DEF ActStart
  <2>5. /\ r.stage = dispute[d].stage /\ r.dispute = d /\ r.choice = action /\ r.amount = n
        /\ n > 0 => n \in Amounts
    OBVIOUS
  <2> HIDE DEF r, point
  <2>6. Fits(point, r)
    BY <2>1, <2>2, <2>4, <2>5 DEF Fits, AboutStage
  <2>7. QED
    BY <2>1, <2>3, <2>4, <2>6, BeginStep DEF Points, Locked
<1>9. ASSUME NEW kind \in {"deposit", "adjustment_down"}, NEW n \in Amounts, BeginAdjust(p, kind, n)
      PROVE  IInv'
  <2> DEFINE r == [NoRequest EXCEPT !.choice = kind, !.amount = n]
  <2>1. Idle(p) /\ Begin(p, "adjust.project", r)
    BY <1>9 DEF BeginAdjust, Asks
  <2>2. r \in Request
    BY Blank, WordsKnown, AmountsInt DEF Request
  <2>3. r.choice = kind /\ r.amount = n
    BY Blank DEF Request
  <2>4. Fits("adjust.project", r)
    BY <2>3 DEF Fits, AboutStage
  <2> HIDE DEF r
  <2>5. QED
    BY <2>1, <2>2, <2>4, BeginStep DEF Points, Locked
<1>10. ASSUME BeginTerminate(p) PROVE IInv'
  <2> DEFINE r == [NoRequest EXCEPT !.choice = project]
  <2>1. Idle(p) /\ Begin(p, "terminate.project", r)
    BY <1>10 DEF BeginTerminate, Asks
  <2>2. r \in Request
    BY Blank, WordsKnown DEF Request, IInv, TypeOK
  <2>3. r.choice = project
    BY Blank DEF Request
  <2>4. Fits("terminate.project", r)
    BY <2>3 DEF Fits, AboutStage, IInv, TypeOK
  <2> HIDE DEF r
  <2>5. QED
    BY <2>1, <2>2, <2>4, BeginStep DEF Points, Locked
<1>11. QED
  BY <1>1, <1>2, <1>3, <1>4, <1>5, <1>6, <1>7, <1>8, <1>9, <1>10 DEF Ask


\* What a session may rely on when its next statement runs.
LEMMA Mine == ASSUME IInv, NEW p \in Sessions, NEW point, Runs(p, point)
              PROVE  /\ Ready(point, req[p], writes[p], mode[p])
                     /\ Fits(point, req[p])
                     /\ point \in Locked => mode[p] = "exclusive"
                     /\ \A q \in Sessions \ {p} : ~Conflict(ProjectNeed(p), mode[q])
                     /\ at[p] = point
<1>1. at[p] = point
  BY DEF Runs
<1>2. Ready(at[p], req[p], writes[p], mode[p])
  BY DEF IInv, SessionsReady
<1>3. QED
  BY <1>1, <1>2, Granted DEF Ready

\* A statement that got its lock on the project row.
LEMMA LockedStep ==
  ASSUME IInv, NEW p \in Sessions, NEW point, Runs(p, point),
         NEW m \in Modes, NEW w \in Buffer, NEW next \in Points,
         ProjectNeed(p) = m, Proceed(p, m, w, next), Ready(next, req[p], w, Held(p, m))
  PROVE  IInv'
<1>1. \A q \in Sessions \ {p} : ~Conflict(m, mode[q])
  BY Granted
<1>2. QED
  BY <1>1, ProceedStep

LEMMA PlainReady ==
  ASSUME NEW point, NEW r, NEW w, NEW m, Fits(point, r), point \notin Unwritten,
         point \in Locked => m = "exclusive",
         w.rows = {}, w.budget = Kept, w.dispute # "open",
         point \notin {"record.insert", "terminate.stages"}
  PROVE  Ready(point, r, w, m)
BY DEF Ready

LEMMA VerifySteps ==
  ASSUME IInv, NEW p \in Sessions, LockForVerify(p) \/ DecideVerify(p) PROVE IInv'
<1>1. CASE LockForVerify(p)
  <2>1. Runs(p, "verify.project")
    BY <1>1 DEF LockForVerify
  <2>2. CASE Frozen
    BY <1>1, <2>2, RollbackStep DEF LockForVerify
  <2>3. CASE ~Frozen
    <3>1. Proceed(p, "exclusive", NoWrites, "verify.stage")
      BY <1>1, <2>3 DEF LockForVerify
    <3>2. Fits("verify.stage", req[p])
      BY <2>1, Mine DEF Fits, AboutStage
    <3>3. Held(p, "exclusive") = "exclusive"
      BY DEF Held
    <3>4. Ready("verify.stage", req[p], NoWrites, Held(p, "exclusive"))
      BY <3>2, <3>3, BlankReady
    <3>5. ProjectNeed(p) = "exclusive"
      BY <2>1 DEF Runs, ProjectNeed
    <3>6. QED
      BY <2>1, <3>1, <3>4, <3>5, Blank, LockedStep DEF Points, Modes
  <2>4. QED
    BY <2>2, <2>3
<1>2. CASE DecideVerify(p)
  <2>1. Runs(p, "verify.stage")
    BY <1>2 DEF DecideVerify
  <2>2. mode[p] = "exclusive" /\ Fits("verify.stage", req[p])
    BY <2>1, Mine DEF Locked
  <2>3. CASE Rollback(p)
    BY <2>3, RollbackStep
  <2>4. CASE ProceedWithStage(p, [NoWrites EXCEPT !.status = "pending"], "commit")
    <3> DEFINE w == [NoWrites EXCEPT !.status = "pending"]
    <3>1. w \in Buffer /\ w.rows = {} /\ w.budget = Kept /\ w.dispute = ""
      BY Blank, BlankWrites DEF Buffer, StageStatus
    <3> HIDE DEF w
    <3>2. Ready("commit", req[p], w, mode[p])
      BY <2>2, <3>1, PlainReady DEF Fits, AboutStage, Unwritten
    <3>3. QED
      BY <2>4, <3>1, <3>2, StageStep DEF Points, w
  <2>5. CASE ProceedWithStage(p, [NoWrites EXCEPT !.status = "paid", !.contract = Activated], "record")
    <3> DEFINE w == [NoWrites EXCEPT !.status = "paid", !.contract = Activated]
    <3>1. w \in Buffer /\ w.rows = {} /\ w.budget = Kept /\ w.dispute = ""
      BY Blank, BlankWrites DEF Buffer, StageStatus, Activated, Contract
    <3> HIDE DEF w
    <3>2. Ready("record", req[p], w, mode[p])
      BY <2>2, <3>1, PlainReady DEF Fits, AboutStage, Unwritten
    <3>3. QED
      BY <2>5, <3>1, <3>2, StageStep DEF Points, w
  <2>6. QED
    BY <1>2, <2>3, <2>4, <2>5 DEF DecideVerify
<1>3. QED
  BY <1>1, <1>2

LEMMA MarkPaidSteps ==
  ASSUME IInv, NEW p \in Sessions,
         LockForMarkPaid(p) \/ CheckSettlement(p) \/ MarkPaidStage(p)
  PROVE  IInv'
<1>1. CASE LockForMarkPaid(p)
  <2>1. Runs(p, "markPaid.project")
    BY <1>1 DEF LockForMarkPaid
  <2>2. CASE Rollback(p)
    BY <2>2, RollbackStep
  <2>3. CASE Proceed(p, "exclusive", NoWrites, "markPaid.settlement")
    <3>1. Ready("markPaid.settlement", req[p], NoWrites, Held(p, "exclusive"))
      BY <2>1, Mine, BlankReady DEF Fits, AboutStage, Held
    <3>2. ProjectNeed(p) = "exclusive"
      BY <2>1 DEF Runs, ProjectNeed
    <3>3. QED
      BY <2>1, <2>3, <3>1, <3>2, Blank, LockedStep DEF Points, Modes
  <2>4. QED
    BY <1>1, <2>2, <2>3 DEF LockForMarkPaid
<1>2. CASE CheckSettlement(p)
  <2>1. Runs(p, "markPaid.settlement")
    BY <1>2 DEF CheckSettlement
  <2>2. CASE Rollback(p)
    BY <2>2, RollbackStep
  <2>3. CASE Proceed(p, "exclusive", NoWrites, "markPaid.stage")
    <3>1. Ready("markPaid.stage", req[p], NoWrites, Held(p, "exclusive"))
      BY <2>1, Mine, BlankReady DEF Fits, AboutStage, Held
    <3>2. mode[p] = "exclusive"
      BY <2>1, Mine DEF Locked
    <3>3. QED
      BY <2>3, <3>1, <3>2, Blank, ProceedStep DEF Points, Modes
  <2>4. QED
    BY <1>2, <2>2, <2>3 DEF CheckSettlement
<1>3. CASE MarkPaidStage(p)
  <2>1. Runs(p, "markPaid.stage")
    BY <1>3 DEF MarkPaidStage
  <2>2. CASE Rollback(p)
    BY <2>2, RollbackStep
  <2>3. CASE ProceedWithStage(p, [NoWrites EXCEPT !.status = "paid"], "record")
    <3> DEFINE w == [NoWrites EXCEPT !.status = "paid"]
    <3>1. w \in Buffer /\ w.rows = {} /\ w.budget = Kept /\ w.dispute = ""
      BY Blank, BlankWrites DEF Buffer, StageStatus
    <3> HIDE DEF w
    <3>2. Fits("markPaid.stage", req[p]) /\ mode[p] = "exclusive"
      BY <2>1, Mine DEF Locked
    <3>3. Ready("record", req[p], w, mode[p])
      BY <3>1, <3>2, PlainReady DEF Fits, AboutStage, Unwritten
    <3>4. QED
      BY <2>3, <3>1, <3>3, StageStep DEF Points, w
  <2>4. QED
    BY <1>3, <2>2, <2>3 DEF MarkPaidStage
<1>4. QED
  BY <1>1, <1>2, <1>3

\* recordPaymentMinorInner, called by a handler that either holds the project
\* row and checks the freeze, or resolves a dispute.
LEMMA DedupeStep ==
  ASSUME IInv, NEW p \in Sessions, NEW checkFreeze, NEW w \in Buffer,
         NEW written \in {"commit", "act.slot"}, NEW insert \in {"record.insert", "act.insert"},
         Dedupe(p, checkFreeze, w, written, insert),
         w.rows = {}, w.budget = Kept, w.dispute # "open",
         Fits(written, req[p]), written = "commit" => mode[p] = "exclusive",
         (checkFreeze => ~Frozen) => Ready(insert, req[p], writes[p], mode[p])
  PROVE  IInv'
<1>1. mode[p] \in Modes /\ writes[p] \in Buffer /\ Held(p, mode[p]) = mode[p]
  BY Typed DEF IInv, Held
<1>2. \A q \in Sessions \ {p} : ~Conflict(mode[p], mode[q])
  BY DEF IInv, LocksCompatible
<1>3. CASE Rollback(p)
  BY <1>3, RollbackStep
<1>4. CASE Proceed(p, mode[p], w, written)
  <2>1. Ready(written, req[p], w, mode[p])
    BY PlainReady DEF Unwritten, Locked
  <2>2. QED
    BY <1>1, <1>2, <1>4, <2>1, ProceedStep DEF Points
<1>5. CASE ~(checkFreeze /\ Frozen) /\ Proceed(p, mode[p], writes[p], insert)
  BY <1>1, <1>2, <1>5, ProceedStep DEF Points
<1>6. QED
  BY <1>3, <1>4, <1>5 DEF Dedupe

LEMMA InsertPaymentStep ==
  ASSUME IInv, NEW p \in Sessions, NEW w \in Buffer, NEW written \in {"commit", "act.slot"},
         Runs(p, "record.insert") \/ Runs(p, "act.insert"),
         InsertPayment(p, w, written),
         w.rows = {}, w.budget = Kept, w.dispute # "open",
         written = "commit" => ~Frozen,
         written = "act.slot" => req[p].choice = "release_payment"
  PROVE  IInv'
<1>1. at[p] \in {"record.insert", "act.insert"} /\ Stage(p) \in Stages
      /\ \A q \in Sessions \ {p} : ~Conflict(ProjectNeed(p), mode[q])
  BY Mine DEF Fits, AboutStage, Stage
<1>2. Fits(written, req[p]) /\ written \notin Unwritten
  BY <1>1 DEF Fits, AboutStage, Unwritten, Stage
<1>3. CASE Rollback(p)
  BY <1>3, RollbackStep
<1>4. CASE /\ ~(Available < Net[Stage(p)])
           /\ Proceed(p, "exclusive", [w EXCEPT !.rows = {Payment(Stage(p))}], written)
  <2> DEFINE x == [w EXCEPT !.rows = {Payment(Stage(p))}]
  <2>1. x \in Buffer /\ x.rows = {Payment(Stage(p))} /\ x.budget = Kept /\ x.dispute # "open"
    BY <1>1, PaymentRow DEF Buffer
  <2>2. Net[Stage(p)] <= Available
    <3>1. Available \in Int
      BY SumOfRows DEF Available, PaidTotal, IInv, TypeOK
    <3>2. QED
      BY <1>1, <1>4, <3>1, PaymentRow
  <2>3. Held(p, "exclusive") = "exclusive"
    BY DEF Held
  <2>4. Proceed(p, "exclusive", x, written)
    BY <1>4
  <2> HIDE DEF x
  <2>5. PaymentReady(written, req[p], x, "exclusive")
    BY <1>1, <2>1, <2>2 DEF PaymentReady, Stage
  <2>6. Ready(written, req[p], x, Held(p, "exclusive"))
    BY <1>2, <2>1, <2>3, <2>5 DEF Ready
  <2>7. ProjectNeed(p) = "exclusive"
    BY <1>1 DEF ProjectNeed
  <2>8. QED
    BY <1>1, <2>1, <2>4, <2>6, <2>7, ProceedStep DEF Points, Modes
<1>5. QED
  BY <1>3, <1>4 DEF InsertPayment

LEMMA RecordStep == ASSUME IInv, NEW p \in Sessions, Record(p) PROVE IInv'
<1>1. ASSUME NEW point \in {"record", "record.insert"}, Runs(p, point)
      PROVE  /\ Ready(point, req[p], writes[p], mode[p]) /\ mode[p] = "exclusive"
             /\ writes[p] \in Buffer /\ writes[p].rows = {} /\ writes[p].budget = Kept
             /\ writes[p].dispute # "open"
  <2>1. Ready(point, req[p], writes[p], mode[p]) /\ mode[p] = "exclusive"
    BY <1>1, Mine DEF Locked
  <2>2. QED
    BY <2>1, Typed DEF Ready, PaymentReady, RefundReady, BudgetReady, IInv
<1>2. CASE Runs(p, "record") /\ Dedupe(p, TRUE, writes[p], "commit", "record.insert")
  <2>1. (~Frozen => Ready("record.insert", req[p], writes[p], mode[p])) /\ Fits("commit", req[p])
    BY <1>1, <1>2 DEF Ready, Fits, AboutStage, Unwritten, Locked, BudgetReady, PaymentReady
  <2>2. QED
    BY <1>1, <1>2, <2>1, DedupeStep
<1>3. CASE Runs(p, "record.insert") /\ InsertPayment(p, writes[p], "commit")
  <2>1. ~Frozen
    BY <1>3, Mine DEF Ready
  <2>2. QED
    BY <1>1, <1>3, <2>1, InsertPaymentStep
<1>4. QED
  BY <1>2, <1>3 DEF Record

LEMMA ActMoneySteps ==
  ASSUME IInv, NEW p \in Sessions, ActRelease(p) \/ ActPay(p) \/ ActTakeSlot(p)
  PROVE  IInv'
<1>1. CASE ActRelease(p)
  <2>1. Runs(p, "act.release")
    BY <1>1 DEF ActRelease
  <2>2. CASE Rollback(p)
    BY <2>2, RollbackStep
  <2>3. CASE ProceedWithStage(p, NoWrites, "act.pay")
    <3>1. Ready("act.pay", req[p], NoWrites, mode[p])
      BY <2>1, Mine, BlankReady DEF Fits, AboutStage, Locked
    <3>2. QED
      BY <2>3, <3>1, Blank, StageStep DEF Points
  <2>4. QED
    BY <1>1, <2>2, <2>3 DEF ActRelease
<1>2. CASE ActPay(p)
  <2> DEFINE w == [NoWrites EXCEPT !.status = "paid", !.contract = Activated]
  <2>1. w \in Buffer /\ w.rows = {} /\ w.budget = Kept /\ w.dispute = ""
    BY Blank, BlankWrites DEF Buffer, StageStatus, Activated, Contract
  <2>2. \/ Runs(p, "act.pay") /\ Dedupe(p, FALSE, w, "act.slot", "act.insert")
        \/ Runs(p, "act.insert") /\ InsertPayment(p, w, "act.slot")
    BY <1>2 DEF ActPay
  <2> HIDE DEF w
  <2>3. CASE Runs(p, "act.pay") /\ Dedupe(p, FALSE, w, "act.slot", "act.insert")
    <3>1. Fits("act.slot", req[p]) /\ Ready("act.insert", req[p], writes[p], mode[p])
      BY <2>3, Mine, BlankReady DEF Ready, Fits, AboutStage, Unwritten, Locked
    <3>2. QED
      BY <2>1, <2>3, <3>1, DedupeStep
  <2>4. CASE Runs(p, "act.insert") /\ InsertPayment(p, w, "act.slot")
    <3>1. req[p].choice = "release_payment"
      BY <2>4, Mine DEF Fits
    <3>2. QED
      BY <2>1, <2>4, <3>1, InsertPaymentStep
  <2>5. QED
    BY <2>2, <2>3, <2>4
<1>3. CASE ActTakeSlot(p)
  <2> DEFINE m == IF ProjectNeed(p) = "none" THEN mode[p] ELSE "update"
  <2>1. Runs(p, "act.slot") /\ Proceed(p, m, writes[p], "act.close")
    BY <1>3 DEF ActTakeSlot
  <2>2. m \in Modes /\ writes[p] \in Buffer
    BY Typed DEF IInv, Modes
  <2>3. ProjectNeed(p) \in {"none", "update"}
    <3>1. at[p] = "act.slot"
      BY <2>1 DEF Runs
    <3>2. CASE writes[p].contract # ""
      BY <3>1, <3>2 DEF ProjectNeed
    <3>3. CASE writes[p].contract = ""
      BY <3>1, <3>3 DEF ProjectNeed
    <3>4. QED
      BY <3>2, <3>3
  <2>4. \A q \in Sessions \ {p} : ~Conflict(m, mode[q])
    BY <2>1, <2>3, Mine DEF IInv, LocksCompatible
  <2>5. Ready("act.slot", req[p], writes[p], mode[p])
    BY <2>1, Mine
  <2>6. mode[p] = "exclusive" => Held(p, m) = "exclusive"
    BY DEF Held
  <2> HIDE DEF m
  <2>7. Ready("act.close", req[p], writes[p], Held(p, m))
    BY <2>5, <2>6 DEF Ready, PaymentReady, RefundReady, BudgetReady, Fits, AboutStage, Unwritten, Locked
  <2>8. QED
    BY <2>1, <2>2, <2>4, <2>7, ProceedStep DEF Points
<1>4. QED
  BY <1>1, <1>2, <1>3

LEMMA ActRefundSteps ==
  ASSUME IInv, NEW p \in Sessions, ActRefund(p) \/ ActReverse(p) PROVE IInv'
<1>1. CASE ActRefund(p)
  <2> DEFINE n == RefundedAgainst(Stage(p)) + req[p].amount
             w == [NoWrites EXCEPT !.mirror = n,
                     !.status = IF n >= PaidAgainst(Stage(p)) /\ status[Stage(p)] = "paid"
                                  THEN "refunded" ELSE ""]
  <2>1. Runs(p, "act.refund") /\ (Rollback(p) \/ ProceedWithStage(p, w, "act.reverse"))
    BY <1>1 DEF ActRefund
  <2>2. Fits("act.refund", req[p])
    BY <2>1, Mine
  <2>3. n \in Int
    <3> DEFINE R == {r \in ledger : r.type = "refund" /\ r.reverses = Stage(p)}
    <3>1. R \in SUBSET Row /\ IsFiniteSet(R)
      BY FS_Subset DEF IInv, TypeOK
    <3>2. Total(R) \in Int
      BY <3>1, SumOfRows
    <3>3. RefundedAgainst(Stage(p)) \in Int
      BY <3>2 DEF RefundedAgainst
    <3>4. req[p].amount \in Int
      BY Typed DEF IInv, Request
    <3>5. QED
      BY <3>3, <3>4
  <2>4. w \in Buffer /\ w.rows = {} /\ w.budget = Kept /\ w.dispute = ""
    BY <2>3, Blank, BlankWrites DEF Buffer, StageStatus
  <2> HIDE DEF w
  <2>5. Ready("act.reverse", req[p], w, mode[p])
    BY <2>2, <2>4, PlainReady DEF Fits, AboutStage, Unwritten, Locked
  <2>6. QED
    BY <2>1, <2>4, <2>5, StageStep, RollbackStep DEF Points
<1>2. CASE ActReverse(p)
  <2> DEFINE x == Refund(req[p].dispute, Stage(p), req[p].amount)
             w == [writes[p] EXCEPT !.rows = {x}]
  <2>1. Runs(p, "act.reverse") /\ (Rollback(p) \/ Proceed(p, "share", w, "act.close"))
    BY <1>2 DEF ActReverse
  <2>2. Ready("act.reverse", req[p], writes[p], mode[p])
    BY <2>1, Mine
  <2>3. req[p].dispute \in Disputes /\ Stage(p) \in Stages /\ req[p].amount \in Amounts
    BY <2>2 DEF Ready, Fits, AboutStage, Stage
  <2>4. writes[p] \in Buffer /\ writes[p].budget = Kept /\ writes[p].dispute # "open"
    BY <2>2, Typed DEF Ready, BudgetReady, IInv
  <2>5. x \in Row
    BY <2>3, RefundRow
  <2>6. w \in Buffer /\ w.rows = {x} /\ w.budget = Kept /\ w.dispute # "open"
    <3> HIDE DEF x
    <3>1. QED
      BY <2>4, <2>5 DEF Buffer
  <2> HIDE DEF w
  <2>7. RefundReady("act.close", w)
    BY <2>3, <2>6 DEF RefundReady
  <2>8. Ready("act.close", req[p], w, Held(p, "share"))
    BY <2>6, <2>7 DEF Ready, Fits, AboutStage, Unwritten, Locked
  <2>9. ProjectNeed(p) = "share"
    <3>1. at[p] = "act.reverse"
      BY <2>1 DEF Runs
    <3>2. QED
      BY <3>1 DEF ProjectNeed
  <2>10. CASE Rollback(p)
    BY <2>10, RollbackStep
  <2>11. CASE Proceed(p, "share", w, "act.close")
    BY <2>1, <2>6, <2>8, <2>9, <2>11, LockedStep DEF Points, Modes
  <2>12. QED
    BY <2>1, <2>10, <2>11
<1>3. QED
  BY <1>1, <1>2

LEMMA ActCloseSteps ==
  ASSUME IInv, NEW p \in Sessions, ActCancel(p) \/ ActClose(p) \/ WithdrawDispute(p)
  PROVE  IInv'
<1>1. CASE ActCancel(p)
  <2> DEFINE w == [NoWrites EXCEPT !.project = "cancelled"]
  <2>1. Runs(p, "act.cancel") /\ Proceed(p, "update", w, "act.close")
    BY <1>1 DEF ActCancel
  <2>2. w \in Buffer /\ w.rows = {} /\ w.budget = Kept /\ w.dispute = ""
    BY Blank, BlankWrites DEF Buffer, ProjectStatus
  <2> HIDE DEF w
  <2>3. Ready("act.close", req[p], w, Held(p, "update"))
    BY <2>2, PlainReady DEF Fits, AboutStage, Unwritten, Locked
  <2>4. ProjectNeed(p) = "update"
    <3>1. at[p] = "act.cancel"
      BY <2>1 DEF Runs
    <3>2. QED
      BY <3>1 DEF ProjectNeed
  <2>5. QED
    BY <2>1, <2>2, <2>3, <2>4, LockedStep DEF Points, Modes
<1>2. CASE ActClose(p)
  <2> DEFINE outcome == IF req[p].choice = "dismiss" THEN "dismissed" ELSE "resolved"
             w == [writes[p] EXCEPT !.dispute = outcome]
  <2>1. Runs(p, "act.close") /\ CloseDispute(p, outcome, "act.touch")
    BY <1>2 DEF ActClose
  <2>2. outcome \in DisputeStatus /\ outcome # "open"
    BY DEF DisputeStatus
  <2> HIDE DEF outcome
  <2>3. Ready("act.close", req[p], writes[p], mode[p]) /\ writes[p] \in Buffer
    BY <2>1, Mine, Typed DEF IInv
  <2>4. w.rows = writes[p].rows /\ w.budget = writes[p].budget /\ w.dispute = outcome
    BY <2>3 DEF Buffer
  <2>5. Ready("act.touch", req[p], w, mode[p])
    <3> HIDE DEF w
    <3>1. QED
      BY <2>2, <2>3, <2>4
         DEF Ready, PaymentReady, RefundReady, BudgetReady, Fits, AboutStage, Unwritten, Locked
  <2>6. QED
    BY <2>1, <2>2, <2>5, DisputeStep DEF Points
<1>3. CASE WithdrawDispute(p)
  <2> DEFINE w == [writes[p] EXCEPT !.dispute = "withdrawn"]
  <2>1. Runs(p, "withdraw.dispute") /\ CloseDispute(p, "withdrawn", "withdraw.project")
    BY <1>3 DEF WithdrawDispute
  <2>2. writes[p] = NoWrites
    BY <2>1, Mine DEF Ready, Unwritten
  <2>3. w.rows = {} /\ w.budget = Kept /\ w.dispute = "withdrawn"
    BY <2>2, Blank, BlankWrites DEF Buffer
  <2>4. Ready("withdraw.project", req[p], w, mode[p])
    <3> HIDE DEF w
    <3>1. QED
      BY <2>3, PlainReady DEF Fits, AboutStage, Unwritten, Locked
  <2>5. QED
    BY <2>1, <2>4, DisputeStep DEF Points, DisputeStatus
<1>4. QED
  BY <1>1, <1>2, <1>3

LEMMA AdjustStep == ASSUME IInv, NEW p \in Sessions, Adjust(p) PROVE IInv'
<1>1. Runs(p, "adjust.project")
  BY DEF Adjust
<1>2. req[p].amount \in Nat /\ req[p].amount > 0
  <2>1. Fits("adjust.project", req[p])
    BY <1>1, Mine
  <2>2. req[p].amount \in Amounts
    BY <2>1 DEF Fits
  <2>3. \A n \in Amounts : n \in Nat /\ n > 0
    BY AmountsAssumption
  <2>4. QED
    BY <2>2, <2>3
<1>3. budget \in Int /\ PaidTotal \in Int /\ PaidTotal <= budget
  BY SumOfRows DEF IInv, TypeOK, PaidTotal, NoOverspend
<1>4. ProjectNeed(p) = "exclusive" /\ Held(p, "exclusive") = "exclusive"
  <2>1. at[p] = "adjust.project"
    BY <1>1 DEF Runs
  <2>2. QED
    BY <2>1 DEF ProjectNeed, Held
<1>5. ASSUME NEW b \in Int, PaidTotal <= b, b < budget => ~Frozen,
             Proceed(p, "exclusive", [NoWrites EXCEPT !.budget = b], "commit")
      PROVE  IInv'
  <2> DEFINE w == [NoWrites EXCEPT !.budget = b]
  <2>1. w \in Buffer /\ w.rows = {} /\ w.budget = b /\ w.dispute = ""
    BY Blank, BlankWrites DEF Buffer
  <2>2. Proceed(p, "exclusive", w, "commit")
    BY <1>5
  <2> HIDE DEF w
  <2>3. Ready("commit", req[p], w, Held(p, "exclusive"))
    BY <1>4, <1>5, <2>1 DEF Ready, BudgetReady, Fits, AboutStage, Unwritten
  <2>4. \A q \in Sessions \ {p} : ~Conflict("exclusive", mode[q])
    BY <1>1, <1>4, Granted
  <2>5. "exclusive" \in Modes /\ "commit" \in Points
    BY DEF Modes, Points
  <2>6. QED
    BY <2>1, <2>2, <2>3, <2>4, <2>5, ProceedStep
<1>6. CASE Rollback(p)
  BY <1>6, RollbackStep
<1>7. CASE Proceed(p, "exclusive", [NoWrites EXCEPT !.budget = budget + req[p].amount], "commit")
  <2>1. budget + req[p].amount \in Int /\ PaidTotal <= budget + req[p].amount
        /\ ~(budget + req[p].amount < budget)
    BY <1>2, <1>3
  <2>2. QED
    BY <1>5, <1>7, <2>1
<1>8. CASE /\ ~Frozen /\ ~(Available < req[p].amount)
           /\ Proceed(p, "exclusive", [NoWrites EXCEPT !.budget = budget - req[p].amount], "commit")
  <2>1. budget - req[p].amount \in Int /\ PaidTotal <= budget - req[p].amount
    BY <1>2, <1>3, <1>8 DEF Available
  <2>2. QED
    BY <1>5, <1>8, <2>1
<1>9. QED
  BY <1>6, <1>7, <1>8 DEF Adjust

(***************************************************************************)
(* The steps that write rows.                                              *)
(***************************************************************************)

\* Who commits holds the project row in a mode that excludes FOR UPDATE by
\* anybody else, so no one else's check is disturbed.
LEMMA NobodyExclusive ==
  ASSUME NEW p \in Sessions, NEW m, m # "none", \A q \in Sessions \ {p} : ~Conflict(m, mode[q])
  PROVE  \A q \in Sessions \ {p} : mode[q] # "exclusive"
BY DEF Conflict

\* The ledger after a commit is still covered by the ceiling.
LEMMA CommitCovered ==
  ASSUME IInv, NEW p \in Sessions, NEW point, Ready(point, req[p], writes[p], mode[p]),
         ~ \E r \in writes[p].rows, l \in ledger : r.type = l.type /\ r.ref = l.ref
  PROVE  LET L == ledger \cup writes[p].rows
             b == IF writes[p].budget = Kept THEN budget ELSE writes[p].budget
         IN  L \in SUBSET Row /\ IsFiniteSet(L) /\ b \in Int /\ Total(L) <= b
<1> DEFINE w == writes[p]
           L == ledger \cup w.rows
           b == IF w.budget = Kept THEN budget ELSE w.budget
<1>1. /\ ledger \in SUBSET Row /\ IsFiniteSet(ledger) /\ budget \in Int
      /\ Total(ledger) \in Int /\ Total(ledger) <= budget
  BY SumOfRows DEF IInv, TypeOK, NoOverspend, PaidTotal
<1>2. w \in Buffer
  BY Typed DEF IInv
<1> HIDE DEF w
<1>3. CASE w.rows = {}
  <2>1. L = ledger
    BY <1>3
  <2>2. w.budget # Kept => PaidTotal <= w.budget
    BY DEF w, Ready, BudgetReady
  <2>3. b \in Int /\ Total(ledger) <= b
    BY <1>1, <1>2, <2>2 DEF Buffer, PaidTotal
  <2>4. QED
    BY <1>1, <2>1, <2>3 DEF w
<1>4. ASSUME NEW x \in Row, w.rows = {x}, w.budget = Kept, x.amount <= budget - Total(ledger)
      PROVE  L \in SUBSET Row /\ IsFiniteSet(L) /\ b \in Int /\ Total(L) <= b
  <2>1. x \notin ledger
    BY <1>4 DEF w
  <2>2. IsFiniteSet(L) /\ Total(L) = x.amount + Total(ledger)
    BY <1>1, <1>4, <2>1, SumWithRow
  <2>3. x.amount \in Int
    BY RowAmount
  <2>4. b = budget
    BY <1>4
  <2>5. QED
    BY <1>1, <1>4, <2>2, <2>3, <2>4
<1>5. CASE PaymentReady(point, req[p], writes[p], mode[p])
  <2>1. /\ Payment(req[p].stage) \in Row /\ w.rows = {Payment(req[p].stage)} /\ w.budget = Kept
        /\ Payment(req[p].stage).amount <= budget - Total(ledger)
    BY <1>5, PaymentRow DEF PaymentReady, Available, PaidTotal, w
  <2>2. QED
    BY <1>4, <2>1 DEF w
<1>6. CASE RefundReady(point, writes[p])
  <2>1. PICK d \in Disputes, s \in Stages, n \in Amounts : w.rows = {Refund(d, s, n)}
    BY <1>6 DEF RefundReady, w
  <2>2. Refund(d, s, n) \in Row /\ Refund(d, s, n).amount <= budget - Total(ledger)
    BY <1>1, RefundRow
  <2>3. w.budget = Kept
    BY <1>6 DEF RefundReady, w
  <2>4. QED
    BY <1>4, <2>1, <2>2, <2>3 DEF w
<1>7. QED
  BY <1>3, <1>5, <1>6 DEF Ready, w

LEMMA CommitPreserves ==
  ASSUME IInv, NEW p \in Sessions, NEW point, at[p] = point, Commit(p),
         \A q \in Sessions \ {p} : mode[q] # "exclusive"
  PROVE  IInv'
<1> DEFINE w == writes[p]
           clash == \E r \in w.rows, l \in ledger : r.type = l.type /\ r.ref = l.ref
<1>1. CASE clash
  BY <1>1, RollbackStep DEF Commit
<1>2. CASE ~clash
  <2>1. w \in Buffer
    BY Typed DEF IInv
  <2>2. Ready(point, req[p], w, mode[p])
    BY DEF IInv, SessionsReady
  <2>3. /\ Done(p)
        /\ ledger' = ledger \cup w.rows
        /\ budget' = IF w.budget = Kept THEN budget ELSE w.budget
    BY <1>2 DEF Commit
  <2>4. ledger' \in SUBSET Row /\ IsFiniteSet(ledger') /\ budget' \in Int /\ Total(ledger') <= budget'
    BY <1>2, <2>2, <2>3, CommitCovered
  <2>5. NoOverspend'
    BY <2>4 DEF NoOverspend, PaidTotal
  <2>6. status' \in [Stages -> StageStatus]
    BY <1>2, <2>1 DEF Commit, Buffer, IInv, TypeOK
  <2>7. mirror' \in [Stages -> Int]
    BY <1>2, <2>1 DEF Commit, Buffer, IInv, TypeOK
  <2>8. dispute' \in [Disputes -> [status : DisputeStatus, stage : Stages \cup {NoStage},
                                   claim : Amounts \cup {NoClaim}]]
    <3>1. dispute \in [Disputes -> [status : DisputeStatus, stage : Stages \cup {NoStage},
                                   claim : Amounts \cup {NoClaim}]]
      BY DEF IInv, TypeOK
    <3>2. CASE w.dispute = ""
      BY <1>2, <3>1, <3>2 DEF Commit
    <3>3. CASE w.dispute # ""
      <4>1. w.dispute \in DisputeStatus
        BY <2>1, <3>3 DEF Buffer
      <4>2. dispute' = [dispute EXCEPT ![req[p].dispute].status = w.dispute]
        BY <1>2, <3>3 DEF Commit
      <4> HIDE DEF w
      <4>3. QED
        BY <3>1, <4>1, <4>2
    <3>4. QED
      BY <3>2, <3>3
  <2>9. project' \in ProjectStatus /\ contract' \in Contract
    BY <1>2, <2>1 DEF Commit, Buffer, IInv, TypeOK
  <2>10. QED
    BY <2>3, <2>4, <2>5, <2>6, <2>7, <2>8, <2>9, WritingStep
<1>3. QED
  BY <1>1, <1>2

LEMMA CommitSteps ==
  ASSUME IInv, NEW p \in Sessions, CommitStep(p) \/ TouchAndCommit(p) PROVE IInv'
<1>1. CASE CommitStep(p)
  <2>1. at[p] = "commit" /\ Commit(p)
    BY <1>1 DEF CommitStep
  <2>2. Ready("commit", req[p], writes[p], mode[p])
    BY <2>1 DEF IInv, SessionsReady
  <2>3. mode[p] = "exclusive"
    BY <2>2 DEF Ready, Locked
  <2>4. \A q \in Sessions \ {p} : ~Conflict("exclusive", mode[q])
    BY <2>3 DEF IInv, LocksCompatible
  <2>5. \A q \in Sessions \ {p} : mode[q] # "exclusive"
    BY <2>4, NobodyExclusive
  <2>6. QED
    BY <2>1, <2>5, CommitPreserves
<1>2. CASE TouchAndCommit(p)
  <2>1. PICK point \in {"withdraw.project", "act.touch"} : Runs(p, point)
    BY <1>2 DEF TouchAndCommit
  <2>2. at[p] = point /\ Commit(p)
    BY <1>2, <2>1 DEF TouchAndCommit, Runs
  <2>3. ProjectNeed(p) = "update"
    BY <2>2 DEF ProjectNeed
  <2>4. \A q \in Sessions \ {p} : ~Conflict("update", mode[q])
    BY <2>1, <2>3, Granted
  <2>5. \A q \in Sessions \ {p} : mode[q] # "exclusive"
    BY <2>4, NobodyExclusive
  <2>6. QED
    BY <2>2, <2>5, CommitPreserves
<1>3. QED
  BY <1>1, <1>2

\* The handlers that write stages and leave the money alone.
LEMMA StageWriteSteps ==
  ASSUME IInv, NEW p \in Sessions,
         StoreProof(p) \/ EditStage(p) \/ DeleteStage(p) \/ SettleStages(p)
  PROVE  IInv'
<1>1. ASSUME Done(p), UNCHANGED <<mirror, ledger, budget, dispute>>,
             status' \in [Stages -> StageStatus],
             project' \in ProjectStatus, contract' \in Contract
      PROVE  IInv'
  <2>1. NoOverspend'
    BY <1>1 DEF IInv, NoOverspend, PaidTotal
  <2>2. QED
    BY <1>1, <2>1, WritingStep DEF IInv, TypeOK
<1>2. CASE Rollback(p)
  BY <1>2, RollbackStep
<1>3. ASSUME NEW new \in StageStatus, Done(p), status' = [status EXCEPT ![Stage(p)] = new],
             UNCHANGED <<mirror, ledger, budget, dispute, project, contract>>
      PROVE  IInv'
  BY <1>1, <1>3 DEF IInv, TypeOK
<1>4. CASE StoreProof(p)
  BY <1>2, <1>3, <1>4 DEF StoreProof, StageStatus
<1>5. CASE EditStage(p)
  <2>1. Runs(p, "edit.stage")
    BY <1>5 DEF EditStage
  <2>2. req[p].choice \in StageStatus
    BY <2>1, Mine DEF Fits, Editable, StageStatus
  <2>3. QED
    BY <1>2, <1>3, <1>5, <2>2 DEF EditStage
<1>6. CASE DeleteStage(p)
  BY <1>3, <1>6 DEF DeleteStage, StageStatus
<1>7. CASE SettleStages(p)
  <2>1. Runs(p, "terminate.stages")
    BY <1>7 DEF SettleStages
  <2>2. writes[p].contract = "ended"
    BY <2>1, Mine DEF Ready
  <2>3. status' \in [Stages -> StageStatus]
    BY <1>7 DEF SettleStages, StageStatus, IInv, TypeOK
  <2>4. project' \in ProjectStatus /\ contract' \in Contract
    BY <1>7, <2>2 DEF SettleStages, ProjectStatus, Contract, IInv, TypeOK
  <2>5. QED
    BY <1>1, <1>7, <2>3, <2>4 DEF SettleStages
<1>8. QED
  BY <1>4, <1>5, <1>6, <1>7

LEMMA EndContractStep == ASSUME IInv, NEW p \in Sessions, EndContract(p) PROVE IInv'
<1> DEFINE w == [NoWrites EXCEPT !.contract = "ended"]
<1>1. Runs(p, "terminate.project") /\ Proceed(p, "update", w, "terminate.stages")
  BY DEF EndContract
<1>2. w \in Buffer /\ w.rows = {} /\ w.budget = Kept /\ w.dispute = "" /\ w.contract = "ended"
  BY Blank, BlankWrites DEF Buffer, Contract
<1> HIDE DEF w
<1>3. Ready("terminate.stages", req[p], w, Held(p, "update"))
  BY <1>2 DEF Ready, Fits, AboutStage, Unwritten, Locked
<1>4. ProjectNeed(p) = "update"
  <2>1. at[p] = "terminate.project"
    BY <1>1 DEF Runs
  <2>2. QED
    BY <2>1 DEF ProjectNeed
<1>5. QED
  BY <1>1, <1>2, <1>3, <1>4, LockedStep DEF Points, Modes

\* The foreign key check of a new dispute waits for every session that is
\* between its freeze check and its commit.
LEMMA InsertDisputeStep == ASSUME IInv, NEW p \in Sessions, InsertDispute(p) PROVE IInv'
<1>1. Runs(p, "open.insert")
  BY DEF InsertDispute
<1>2. ProjectNeed(p) = "share"
  <2>1. at[p] = "open.insert"
    BY <1>1 DEF Runs
  <2>2. QED
    BY <2>1 DEF ProjectNeed
<1>3. \A q \in Sessions \ {p} : mode[q] # "exclusive"
  <2>1. \A q \in Sessions \ {p} : ~Conflict("share", mode[q])
    BY <1>1, <1>2, Granted
  <2>2. QED
    BY <2>1, NobodyExclusive
<1>4. req[p].amount \in Amounts \cup {NoClaim} /\ Stage(p) \in Stages \cup {NoStage}
  BY <1>1, Mine, Typed DEF Fits, Stage, Request, IInv
<1>5. PICK d \in Unused : dispute' = [dispute EXCEPT ![d] =
             [status |-> "open", stage |-> Stage(p), claim |-> req[p].amount]]
  BY DEF InsertDispute
<1>6. dispute' \in [Disputes -> [status : DisputeStatus, stage : Stages \cup {NoStage},
                                claim : Amounts \cup {NoClaim}]]
  BY <1>4, <1>5 DEF Unused, DisputeStatus, IInv, TypeOK
<1>7. /\ Done(p)
      /\ UNCHANGED <<status, mirror, ledger, budget, project, contract>>
  BY DEF InsertDispute
<1>8. NoOverspend'
  BY <1>7 DEF IInv, NoOverspend, PaidTotal
<1>9. QED
  BY <1>3, <1>6, <1>7, <1>8, WritingStep DEF IInv, TypeOK

LEMMA ServeStep == ASSUME IInv, NEW p \in Sessions, Serve(p) PROVE IInv'
<1>1. CASE LockForVerify(p) \/ DecideVerify(p)
  BY <1>1, VerifySteps
<1>2. CASE LockForMarkPaid(p) \/ CheckSettlement(p) \/ MarkPaidStage(p)
  BY <1>2, MarkPaidSteps
<1>3. CASE Record(p)
  BY <1>3, RecordStep
<1>4. CASE CommitStep(p) \/ TouchAndCommit(p)
  BY <1>4, CommitSteps
<1>5. CASE StoreProof(p) \/ EditStage(p) \/ DeleteStage(p) \/ SettleStages(p)
  BY <1>5, StageWriteSteps
<1>6. CASE InsertDispute(p)
  BY <1>6, InsertDisputeStep
<1>7. CASE ActCancel(p) \/ ActClose(p) \/ WithdrawDispute(p)
  BY <1>7, ActCloseSteps
<1>8. CASE ActRefund(p) \/ ActReverse(p)
  BY <1>8, ActRefundSteps
<1>9. CASE ActRelease(p) \/ ActPay(p) \/ ActTakeSlot(p)
  BY <1>9, ActMoneySteps
<1>10. CASE Adjust(p)
  BY <1>10, AdjustStep
<1>11. CASE EndContract(p)
  BY <1>11, EndContractStep
<1>12. QED
  BY <1>1, <1>2, <1>3, <1>4, <1>5, <1>6, <1>7, <1>8, <1>9, <1>10, <1>11 DEF Serve

LEMMA Stutter == ASSUME IInv, UNCHANGED vars PROVE IInv'
BY DEF vars, rows, locks, IInv, TypeOK, LocksCompatible, SessionsReady, Ready, Fits,
       PaymentReady, RefundReady, BudgetReady, NoOverspend, PaidTotal, Available, Frozen, Conflict

LEMMA NextStep == IInv /\ [Next]_vars => IInv'
<1>1. SUFFICES ASSUME IInv, [Next]_vars PROVE IInv'
  OBVIOUS
<1>2. CASE UNCHANGED vars
  BY <1>1, <1>2, Stutter
<1>3. ASSUME NEW p \in Sessions, Ask(p) \/ Serve(p) \/ Disconnect(p) \/ DeadlockVictim(p)
      PROVE  IInv'
  BY <1>1, <1>3, AskStep, ServeStep, RollbackStep DEF Disconnect, DeadlockVictim
<1>4. QED
  BY <1>1, <1>2, <1>3 DEF Next

LEMMA InitReady == Init => IInv
<1>1. SUFFICES ASSUME Init PROVE IInv
  OBVIOUS
<1>2. TypeOK
  <2>1. /\ status \in [Stages -> StageStatus] /\ mirror \in [Stages -> Int]
        /\ ledger \subseteq Row /\ budget \in Int
    BY <1>1, CeilingAssumption DEF Init, StageStatus
  <2>2. dispute \in [Disputes -> [status : DisputeStatus, stage : Stages \cup {NoStage},
                                 claim : Amounts \cup {NoClaim}]]
    BY <1>1 DEF Init, DisputeStatus
  <2>3. project \in ProjectStatus /\ contract \in Contract
    BY <1>1 DEF Init, ProjectStatus, Contract
  <2>4. at \in [Sessions -> Points] /\ mode \in [Sessions -> Modes]
    BY <1>1 DEF Init, Points, Modes
  <2>5. req \in [Sessions -> Request] /\ writes \in [Sessions -> Buffer]
    BY <1>1, Blank DEF Init
  <2>6. /\ rowLock \in [Stages -> Sessions \cup {NoSession}]
        /\ disputeLock \in [Disputes -> Sessions \cup {NoSession}]
    BY <1>1 DEF Init
  <2>7. QED
    BY <2>1, <2>2, <2>3, <2>4, <2>5, <2>6 DEF TypeOK
<1>3. IsFiniteSet(ledger)
  BY <1>1, FS_EmptySet DEF Init
<1>4. LocksCompatible
  BY <1>1, NoneNeverConflicts DEF Init, LocksCompatible
<1>5. SessionsReady
  <2>1. SUFFICES ASSUME NEW q \in Sessions PROVE Ready(at[q], req[q], writes[q], mode[q])
    BY DEF SessionsReady
  <2>2. at[q] = "idle" /\ req[q] = NoRequest /\ writes[q] = NoWrites /\ mode[q] = "none"
    BY <1>1 DEF Init
  <2>3. QED
    BY <2>2, BlankReady DEF Fits, AboutStage, Locked
<1>6. NoOverspend
  BY <1>1, TotalEmpty, CeilingAssumption DEF Init, NoOverspend, PaidTotal
<1>7. QED
  BY <1>2, <1>3, <1>4, <1>5, <1>6 DEF IInv

(***************************************************************************)
(* The results.                                                            *)
(***************************************************************************)

\* Every reachable state, of any number of concurrent requests, satisfies the
\* inductive invariant: each transaction in flight is ready to commit.
THEOREM Invariance == Spec => []IInv
BY InitReady, NextStep, PTL DEF Spec

\* Columns, requests and buffers keep to the values the handlers know.
THEOREM TypeCorrect == Spec => []TypeOK
<1>1. IInv => TypeOK
  BY DEF IInv
<1>2. QED
  BY <1>1, Invariance, PTL

\* What recordPaymentMinorInner books never exceeds the ceiling that
\* AddTransactionHandler moves, for every price and every interleaving.
THEOREM Affordable == Spec => []NoOverspend
<1>1. IInv => NoOverspend
  BY DEF IInv
<1>2. QED
  BY <1>1, Invariance, PTL

LEMMA MoneyStill ==
  ASSUME NEW p \in Sessions,
         Ask(p) \/ Serve(p) \/ Disconnect(p) \/ DeadlockVictim(p),
         ~CommitStep(p), ~TouchAndCommit(p)
  PROVE  UNCHANGED <<ledger, budget>>
<1>1. Rollback(p) => UNCHANGED <<ledger, budget>>
  BY DEF Rollback, rows
<1>2. ASSUME NEW m, NEW w, NEW point, Proceed(p, m, w, point) PROVE UNCHANGED <<ledger, budget>>
  BY <1>2 DEF Proceed, rows
<1>3. ASSUME NEW w, NEW point, ProceedWithStage(p, w, point) PROVE UNCHANGED <<ledger, budget>>
  BY <1>3 DEF ProceedWithStage, rows
<1>4. ASSUME NEW outcome, NEW point, CloseDispute(p, outcome, point)
      PROVE  UNCHANGED <<ledger, budget>>
  BY <1>4 DEF CloseDispute, rows
<1>5. ASSUME NEW point, NEW r, Begin(p, point, r) PROVE UNCHANGED <<ledger, budget>>
  BY <1>5 DEF Begin, rows
<1>6. CASE Ask(p)
  BY <1>5, <1>6 DEF Ask, BeginVerify, BeginMarkPaid, BeginUpload, BeginEdit, BeginDelete,
       BeginOpen, BeginWithdraw, BeginAct, BeginAdjust, BeginTerminate
<1>7. ASSUME NEW w, NEW written,
             \/ \E checkFreeze, insert : Dedupe(p, checkFreeze, w, written, insert)
             \/ InsertPayment(p, w, written)
      PROVE  UNCHANGED <<ledger, budget>>
  BY <1>1, <1>2, <1>7 DEF Dedupe, InsertPayment
<1>8. CASE \/ LockForVerify(p) \/ DecideVerify(p)
           \/ LockForMarkPaid(p) \/ CheckSettlement(p) \/ MarkPaidStage(p) \/ Record(p)
  BY <1>1, <1>2, <1>3, <1>7, <1>8
     DEF LockForVerify, DecideVerify, LockForMarkPaid, CheckSettlement, MarkPaidStage, Record
<1>9. CASE \/ StoreProof(p) \/ EditStage(p) \/ DeleteStage(p) \/ SettleStages(p)
           \/ InsertDispute(p)
  BY <1>1, <1>9 DEF StoreProof, EditStage, DeleteStage, SettleStages, InsertDispute
<1>10. CASE ActCancel(p) \/ ActClose(p) \/ WithdrawDispute(p) \/ EndContract(p)
  BY <1>2, <1>4, <1>10 DEF ActCancel, ActClose, WithdrawDispute, EndContract
<1>11. CASE ActRefund(p) \/ ActReverse(p)
  BY <1>1, <1>2, <1>3, <1>11 DEF ActRefund, ActReverse
<1>12. CASE ActRelease(p) \/ ActPay(p) \/ ActTakeSlot(p) \/ Adjust(p)
  BY <1>1, <1>2, <1>3, <1>7, <1>12 DEF ActRelease, ActPay, ActTakeSlot, Adjust
<1>13. CASE Disconnect(p) \/ DeadlockVictim(p)
  BY <1>1, <1>13 DEF Disconnect, DeadlockVictim
<1>14. QED
  BY <1>6, <1>8, <1>9, <1>10, <1>11, <1>12, <1>13 DEF Serve

\* What one step must respect.
Respected ==
  (\E r \in ledger' \ ledger : r.type = "payment") \/ budget' < budget
     => OpenDispute = {} \/ \E p \in Sessions : ResolvesByPaying(p)

LEMMA CommitRespects ==
  ASSUME IInv, NEW p \in Sessions, NEW point \in {"commit", "withdraw.project", "act.touch"},
         at[p] = point, Commit(p)
  PROVE  Respected
<1> DEFINE w == writes[p]
<1>1. Ready(point, req[p], w, mode[p]) /\ budget \in Int
  BY DEF IInv, SessionsReady, TypeOK
<1>2. at'[p] = "idle"
  BY DEF Commit, Rollback, Done, IInv, TypeOK
<1>3. CASE UNCHANGED <<ledger, budget>>
  BY <1>1, <1>3 DEF Respected
<1>4. CASE /\ ledger' = ledger \cup w.rows
           /\ budget' = IF w.budget = Kept THEN budget ELSE w.budget
  <2>1. CASE PaymentReady(point, req[p], w, mode[p])
    <3>1. ~Frozen \/ (at[p] = "act.touch" /\ req[p].choice = "release_payment")
      BY <2>1 DEF PaymentReady
    <3>2. QED
      BY <1>2, <3>1 DEF Respected, ResolvesByPaying, OpenDispute, Frozen
  <2>2. CASE RefundReady(point, w)
    <3>1. budget' = budget
      BY <1>4, <2>2 DEF RefundReady
    <3>2. \A r \in w.rows : r.type = "refund"
      BY <2>2 DEF RefundReady, Refund
    <3>3. QED
      BY <1>1, <1>4, <3>1, <3>2 DEF Respected
  <2>3. CASE w.rows = {}
    <3>1. budget' < budget => ~Frozen
      BY <1>1, <1>4 DEF Ready, BudgetReady
    <3>2. QED
      BY <1>4, <2>3, <3>1 DEF Respected, OpenDispute, Frozen
  <2>4. QED
    BY <1>1, <2>1, <2>2, <2>3 DEF Ready
<1>5. QED
  BY <1>3, <1>4 DEF Commit, Rollback, rows

LEMMA FreezeStep == IInv /\ [Next]_vars => [Respected]_vars
<1>1. SUFFICES ASSUME IInv, NEW p \in Sessions,
                      Ask(p) \/ Serve(p) \/ Disconnect(p) \/ DeadlockVictim(p)
               PROVE  Respected
  BY DEF Next
<1>2. CASE CommitStep(p)
  BY <1>1, <1>2, CommitRespects DEF CommitStep
<1>3. CASE TouchAndCommit(p)
  BY <1>1, <1>3, CommitRespects DEF TouchAndCommit, Runs
<1>4. CASE ~CommitStep(p) /\ ~TouchAndCommit(p)
  <2>1. UNCHANGED <<ledger, budget>> /\ budget \in Int
    BY <1>1, <1>4, MoneyStill DEF IInv, TypeOK
  <2>2. QED
    BY <2>1 DEF Respected
<1>5. QED
  BY <1>2, <1>3, <1>4

\* Whatever the interleaving with the handlers that file, withdraw and decide
\* disputes, no payment is booked and no ceiling lowered while one is open,
\* except the payment by which AdminDisputeActHandler resolves it.
THEOREM FreezeHolds == Spec => MoneyRespectsFreeze
<1>1. Spec => [][Respected]_vars
  BY Invariance, FreezeStep, PTL DEF Spec
<1>2. QED
  BY <1>1 DEF MoneyRespectsFreeze, Respected

=============================================================================
