--------------------------- MODULE StageMoneyProofs ---------------------------
(***************************************************************************)
(* The money of payment stages, for every amount, rate, number of stages   *)
(* and of requests: a gross is divided without a remainder, an edit that   *)
(* would change it is refused, and what a stage is paid adds up to it.     *)
(***************************************************************************)
EXTENDS StageMoney, TLAPS

(***************************************************************************)
(* Decimals.                                                               *)
(***************************************************************************)
LEMMA CutOff ==
  ASSUME NEW x \in Nat, NEW d \in Nat \ {0}
  PROVE  x \div d \in Nat /\ d * (x \div d) <= x /\ x < d * (x \div d) + d
<1>1. x \div d \in Int /\ x % d \in 0..(d - 1) /\ x = d * (x \div d) + (x % d)
  OBVIOUS
<1>2. QED
  BY <1>1

LEMMA TruncatedNat ==
  ASSUME NEW x \in Nat, NEW d \in Nat \ {0}
  PROVE  Truncated(x, d) \in Nat /\ d * Truncated(x, d) <= x /\ x < d * Truncated(x, d) + d
BY CutOff DEF Truncated

LEMMA TruncatedInt == ASSUME NEW x \in Int, NEW d \in Nat \ {0} PROVE Truncated(x, d) \in Int
BY CutOff DEF Truncated

LEMMA HalfAwayInt == ASSUME NEW x \in Int, NEW d \in Nat \ {0} PROVE HalfAway(x, d) \in Int
BY CutOff DEF HalfAway

\* Whatever the amount and the rate, what is held back and what is left are the
\* whole amount (SplitRetention).
THEOREM SplitExact ==
  ASSUME NEW gross \in Int, NEW bp \in Int
  PROVE  LET split == SplitRetention(gross, bp)
         IN split.retention \in Int /\ split.net \in Int /\ split.retention + split.net = gross
<1>1. gross * bp \in Int /\ Truncated(gross * bp, 10000) \in Int
  BY TruncatedInt
<1>2. QED
  BY <1>1 DEF SplitRetention

\* At a rate of at most all of it neither half is negative, and what is held
\* back is the rate of the gross up to less than one minor unit (SplitRetention).
THEOREM SplitBounded ==
  ASSUME NEW gross \in Nat, NEW bp \in 0..10000
  PROVE  LET split == SplitRetention(gross, bp)
         IN /\ split.retention >= 0 /\ split.net >= 0
            /\ 10000 * split.retention <= gross * bp /\ gross * bp < 10000 * split.retention + 10000
<1> DEFINE product == gross * bp
<1> DEFINE held == Truncated(product, 10000)
<1>1. gross >= 0 /\ bp \in Int /\ bp >= 0 /\ bp <= 10000
  OBVIOUS
<1>2. product \in Nat /\ product <= 10000 * gross /\ (gross = 0 \/ bp = 0 => product = 0)
  BY <1>1
<1>3. held \in Nat /\ 10000 * held <= product /\ product < 10000 * held + 10000
  BY <1>2, TruncatedNat
<1>4. SplitRetention(gross, bp).retention = (IF bp <= 0 \/ gross <= 0 THEN 0 ELSE held)
  BY DEF SplitRetention
<1>5. SplitRetention(gross, bp).net = gross - SplitRetention(gross, bp).retention
  BY DEF SplitRetention
<1> HIDE DEF held, product
<1>6. held <= gross
  BY <1>1, <1>2, <1>3
<1>7. CASE bp <= 0 \/ gross <= 0
  <2>1. product = 0
    BY <1>1, <1>2, <1>7
  <2>2. QED
    BY <1>1, <1>4, <1>5, <1>7, <2>1 DEF product
<1>8. CASE ~(bp <= 0 \/ gross <= 0)
  BY <1>3, <1>4, <1>5, <1>6, <1>8 DEF product
<1>9. QED
  BY <1>7, <1>8

\* Of a row the schema takes the fallbacks of terminNetMinor never pay anything
\* but the net that was written.
THEOREM PaidIsNet ==
  ASSUME NEW t, t.amount \in Int, t.retention \in Int, t.net \in Int, Exact(t)
  PROVE  ForTermin(t) = t.net
BY DEF ForTermin, Exact

\* A new stage is taken exactly when rounding its amount and cutting it off are
\* the same: never with a further digit of five or more (normaliseDecimal,
\* ppt_retention_split_exact).
THEOREM RoundedIsRefused ==
  ASSUME NEW x \in Nat, NEW status
  PROVE  Exact(Stage(x, status)) <=> x % 10 < 5
<1>1. Minor(x) = x \div 10 /\ Minor(x) \in Int
  BY TruncatedInt DEF Minor, Truncated
<1>2. Column(x) = (2 * x + 10) \div 20 /\ Column(x) \in Int
  BY HalfAwayInt DEF Column, HalfAway
<1>3. Exact(Stage(x, status)) <=> Minor(x) = Column(x) /\ Column(x) >= 0
  <2> DEFINE split == SplitRetention(Minor(x), Rate)
  <2>1. split.retention \in Int /\ split.net \in Int /\ split.retention + split.net = Minor(x)
    BY <1>1, SplitExact DEF Rate
  <2>2. /\ Stage(x, status).retention = split.retention /\ Stage(x, status).net = split.net
        /\ Stage(x, status).amount = Column(x)
    BY DEF Stage
  <2>3. QED
    BY <2>1, <2>2 DEF Exact
<1>4. x \div 10 = (2 * x + 10) \div 20 <=> x % 10 < 5
  <2>1. x \div 10 \in Int /\ x % 10 \in 0..9 /\ x = 10 * (x \div 10) + (x % 10)
    OBVIOUS
  <2>2. (2 * x + 10) \div 20 \in Int /\ 20 * ((2 * x + 10) \div 20) <= 2 * x + 10 /\ 2 * x + 10 < 20 * ((2 * x + 10) \div 20) + 20
    OBVIOUS
  <2>3. QED
    BY <2>1, <2>2
<1>5. (2 * x + 10) \div 20 >= 0
  OBVIOUS
<1>6. QED
  BY <1>1, <1>2, <1>3, <1>4, <1>5

\* Whole amounts up to the largest the validators let through are always taken:
\* neither the product of the rate leaves an int64 nor does the schema object.
THEOREM WholeIsWritten ==
  ASSUME NEW x \in Nat, x % 1000 = 0, x <= 99999999999999000, MaxMinor = 9223372036854775807
  PROVE  Written(x)
<1>1. x % 10 < 5
  OBVIOUS
<1>2. Minor(x) \in Nat /\ 10 * Minor(x) <= x
  BY TruncatedNat DEF Minor
<1>3. Minor(x) * Rate <= MaxMinor
  BY <1>2 DEF Rate
<1>4. QED
  BY <1>1, <1>3, RoundedIsRefused DEF Written

(***************************************************************************)
(* What a request about stages holds, and what the rows are.               *)
(***************************************************************************)
Offering  == {"storeTermin", "replaceTermins", "signTermins", "updateTermin"}
Pointing  == {"updateTermin", "setTermin", "deleteTermin", "releaseTermin"}

\* A request names an amount and a stage where it needs one.
PlanSession(s) ==
  /\ "at" \in DOMAIN s /\ s.at \in {"idle"} \cup Offering \cup Pointing
  /\ s.at \in Offering => s.offer \in Offers
  /\ s.at \in Pointing => s.id \in Termins
  /\ s.at = "releaseTermin" => s.held \in Int

StageRow == [status : TerminStatus \cup {"none", "gone"}, amount : Int, retention : Int, net : Int, released : BOOLEAN]

\* Every row is exact, a fresh one has not been paid, and a stage has been paid
\* its own halves or nothing.
StageRows ==
  /\ termin \in [Termins -> StageRow] /\ \A i \in Termins : Exact(termin[i])
  /\ paidNet \in [Termins -> Int] /\ paidHeld \in [Termins -> Int]
  /\ \A i \in Termins : termin[i].status = "none" => paidNet[i] = 0 /\ paidHeld[i] = 0
  /\ \A i \in Termins : Present(i) => paidNet[i] \in {0, termin[i].net} /\ paidHeld[i] \in {0, termin[i].retention}

\* What is about to be released is what is held back of the stage, unless the
\* stage is gone by now.
Fits(t, s) == s.at = "releaseTermin" => t.status # "none" /\ (t.status \in TerminStatus => s.held = t.retention)

PlanSessions ==
  /\ session = [p \in Clients |-> session[p]]
  /\ \A p \in Clients : PlanSession(session[p]) /\ Fits(termin[session[p].id], session[p])

(***************************************************************************)
(* What a step may do to a row: delete it, write a fresh one, or leave its *)
(* amounts alone and pay a half that was not paid.                         *)
(***************************************************************************)
Deleted(i) == termin'[i] = Gone /\ paidNet'[i] = paidNet[i] /\ paidHeld'[i] = paidHeld[i]
Entered(i) ==
  /\ termin[i].status = "none" /\ termin'[i].status \in TerminStatus /\ Exact(termin'[i])
  /\ paidNet'[i] = paidNet[i] /\ paidHeld'[i] = paidHeld[i]
SameMoney(t, u) == t.amount = u.amount /\ t.retention = u.retention /\ t.net = u.net
Carried(i) ==
  /\ SameMoney(termin'[i], termin[i])
  /\ termin'[i].status = termin[i].status \/ (Present(i) /\ termin'[i].status \in TerminStatus)
  /\ paidNet'[i] = paidNet[i] \/ (Present(i) /\ paidNet'[i] = termin[i].net)
  /\ paidHeld'[i] = paidHeld[i] \/ (Present(i) /\ paidHeld'[i] = termin[i].retention)

Moves ==
  /\ termin' \in [Termins -> StageRow] /\ paidNet' \in [Termins -> Int] /\ paidHeld' \in [Termins -> Int]
  /\ \A i \in Termins : Deleted(i) \/ Entered(i) \/ Carried(i)

LEMMA RowShape ==
  /\ \A t \in StageRow : /\ t.amount \in Int /\ t.retention \in Int /\ t.net \in Int /\ t.released \in BOOLEAN
                         /\ t.status \in TerminStatus \cup {"none", "gone"}
  /\ NoTermin \in StageRow /\ Gone \in StageRow /\ Gone.status = "gone" /\ NoTermin.status = "none"
  /\ Exact(NoTermin) /\ Exact(Gone) /\ {"none", "gone"} \cap TerminStatus = {}
<1>1. \A t \in StageRow : /\ t.amount \in Int /\ t.retention \in Int /\ t.net \in Int /\ t.released \in BOOLEAN
                            /\ t.status \in TerminStatus \cup {"none", "gone"}
  BY DEF StageRow
<1>2. NoTermin \in StageRow /\ NoTermin.status = "none" /\ NoTermin.amount = 0 /\ NoTermin.retention = 0 /\ NoTermin.net = 0
  BY DEF StageRow, NoTermin
<1>3. Gone.status = "gone" /\ Gone.amount = 0 /\ Gone.retention = 0 /\ Gone.net = 0
  BY DEF Gone, NoTermin
<1>4. Gone \in StageRow
  BY <1>2 DEF Gone, StageRow
<1>5. Exact(NoTermin) /\ Exact(Gone)
  BY <1>2, <1>3 DEF Exact
<1>6. {"none", "gone"} \cap TerminStatus = {}
  BY DEF TerminStatus, Editable
<1>7. QED
  BY <1>1, <1>2, <1>3, <1>4, <1>5, <1>6

\* Such steps preserve the rows.
LEMMA MovesKeepRows == ASSUME StageRows, Moves PROVE StageRows'
<1>1. ASSUME NEW i \in Termins PROVE Exact(termin'[i])
  BY <1>1, RowShape DEF StageRows, Moves, Deleted, Entered, Carried, SameMoney, Exact
<1>2. ASSUME NEW i \in Termins, termin'[i].status = "none" PROVE paidNet'[i] = 0 /\ paidHeld'[i] = 0
  <2>1. ~Deleted(i) /\ ~Entered(i)
    BY <1>2, RowShape DEF Deleted, Entered
  <2>2. Carried(i) /\ termin[i].status = "none"
    BY <1>2, <2>1, RowShape DEF Moves, Carried
  <2>3. ~Present(i)
    BY <2>2, RowShape DEF Present
  <2>4. QED
    BY <2>2, <2>3 DEF StageRows, Carried
<1>3. ASSUME NEW i \in Termins, termin'[i].status \in TerminStatus
      PROVE  paidNet'[i] \in {0, termin'[i].net} /\ paidHeld'[i] \in {0, termin'[i].retention}
  <2>1. CASE Deleted(i)
    BY <1>3, <2>1, RowShape DEF Deleted
  <2>2. CASE Entered(i)
    BY <2>2 DEF Entered, StageRows
  <2>3. CASE Carried(i)
    <3>1. Present(i)
      BY <1>3, <2>3 DEF Carried, Present
    <3>2. paidNet[i] \in {0, termin[i].net} /\ paidHeld[i] \in {0, termin[i].retention}
      BY <3>1 DEF StageRows
    <3>3. QED
      BY <2>3, <3>2 DEF Carried, SameMoney
  <2>4. QED
    BY <2>1, <2>2, <2>3 DEF Moves
<1>4. QED
  BY <1>1, <1>2, <1>3 DEF StageRows, Moves, Present

LEMMA MovesKeepMoney ==
  ASSUME StageRows, Moves, NEW i \in Termins, Present(i), termin'[i].status \in TerminStatus
  PROVE  SameMoney(termin'[i], termin[i])
<1>1. ~Deleted(i) /\ ~Entered(i)
  BY RowShape DEF Deleted, Entered, Present
<1>2. QED
  BY <1>1 DEF Moves, Carried

\* The halves still to be paid are what is not yet booked of the gross.
LEMMA RowsAddUp == StageRows => PaidAddsUp
<1> SUFFICES ASSUME StageRows, NEW i \in Termins, Present(i)
             PROVE  termin[i].amount - paidNet[i] - paidHeld[i] =
                      (IF paidNet[i] = 0 THEN termin[i].net ELSE 0) + (IF paidHeld[i] = 0 THEN termin[i].retention ELSE 0)
  BY DEF PaidAddsUp
<1>1. termin[i].retention + termin[i].net = termin[i].amount /\ termin[i] \in StageRow
  BY DEF StageRows, Exact
<1>2. termin[i].amount \in Int /\ termin[i].retention \in Int /\ termin[i].net \in Int
  BY <1>1, RowShape
<1>3. paidNet[i] \in {0, termin[i].net} /\ paidHeld[i] \in {0, termin[i].retention}
  BY DEF StageRows
<1> DEFINE a == termin[i].amount
<1> DEFINE h == termin[i].retention
<1> DEFINE n == termin[i].net
<1>4. h + n = a /\ a \in Int /\ h \in Int /\ n \in Int /\ (paidNet[i] = 0 \/ paidNet[i] = n) /\ (paidHeld[i] = 0 \/ paidHeld[i] = h)
  BY <1>1, <1>2, <1>3
<1> HIDE DEF a, h, n
<1>5. a - paidNet[i] - paidHeld[i] = (IF paidNet[i] = 0 THEN n ELSE 0) + (IF paidHeld[i] = 0 THEN h ELSE 0)
  BY <1>4
<1>6. QED
  BY <1>5 DEF a, h, n

(***************************************************************************)
(* Every step is such a step.                                              *)
(***************************************************************************)
LEMMA StageIs ==
  ASSUME NEW x \in Offers, NEW status \in TerminStatus
  PROVE  Stage(x, status) \in StageRow /\ Stage(x, status).status = status
<1> DEFINE split == SplitRetention(Minor(x), Rate)
<1>1. x \in Int
  BY AmountsAre
<1>2. Minor(x) \in Int /\ Column(x) \in Int
  BY <1>1, TruncatedInt, HalfAwayInt DEF Minor, Column
<1>3. split.retention \in Int /\ split.net \in Int
  BY <1>2, SplitExact DEF Rate
<1>4. Stage(x, status) = [status |-> status, amount |-> Column(x), retention |-> split.retention, net |-> split.net, released |-> FALSE]
  BY DEF Stage
<1> HIDE DEF split
<1>5. QED
  BY <1>2, <1>3, <1>4 DEF StageRow

LEMMA StillMoves == ASSUME StageRows, UNCHANGED stageVars PROVE Moves
BY DEF StageRows, Moves, Carried, SameMoney, stageVars

LEMMA RowMoves ==
  ASSUME StageRows, NEW i \in Termins, NEW t \in StageRow, termin' = [termin EXCEPT ![i] = t],
         paidNet' \in [Termins -> Int], paidHeld' \in [Termins -> Int],
         \A j \in Termins \ {i} : paidNet'[j] = paidNet[j] /\ paidHeld'[j] = paidHeld[j],
         Deleted(i) \/ Entered(i) \/ Carried(i)
  PROVE  Moves
<1>1. termin' \in [Termins -> StageRow] /\ \A j \in Termins \ {i} : termin'[j] = termin[j]
  BY DEF StageRows
<1>2. \A j \in Termins \ {i} : Carried(j)
  BY <1>1 DEF Carried, SameMoney
<1>3. QED
  BY <1>1, <1>2 DEF Moves

\* A row that only another status or mark is written of.
LEMMA MarkMoves ==
  ASSUME StageRows, NEW i \in Termins, Present(i), NEW t \in StageRow, termin' = [termin EXCEPT ![i] = t],
         SameMoney(t, termin[i]), t.status \in TerminStatus, UNCHANGED <<paidNet, paidHeld>>
  PROVE  Moves
<1>1. termin'[i] = t
  BY DEF StageRows
<1>2. Carried(i)
  BY <1>1 DEF Carried
<1>3. QED
  BY <1>2, RowMoves DEF StageRows

LEMMA RewriteMoves ==
  ASSUME StageRows, NEW D \in SUBSET Termins, \A i \in D : Present(i), NEW x \in Offers, NEW status \in Editable,
         Rewrite(D, x, status), UNCHANGED <<paidNet, paidHeld>>
  PROVE  Moves
<1>1. CASE UNCHANGED termin
  BY <1>1, StillMoves DEF stageVars
<1>2. CASE ~UNCHANGED termin
  <2>1. Written(x)
    BY <1>2 DEF Rewrite
  <2>2. PICK i \in Fresh : termin' = [j \in Termins |-> IF j = i THEN Stage(x, status) ELSE IF j \in D THEN Gone ELSE termin[j]]
    BY <1>2 DEF Rewrite
  <2>3. status \in TerminStatus /\ Stage(x, status) \in StageRow /\ Stage(x, status).status = status
    BY StageIs DEF TerminStatus
  <2>4. Exact(Stage(x, status))
    BY <2>1 DEF Written, Exact, Stage
  <2>5. \A j \in Termins : termin[j] \in StageRow /\ termin'[j] \in StageRow
    BY <2>2, <2>3, RowShape DEF StageRows
  <2>6. ASSUME NEW j \in Termins PROVE Deleted(j) \/ Entered(j) \/ Carried(j)
    <3>1. CASE j = i
      BY <2>2, <2>3, <2>4, <3>1 DEF Fresh, Entered
    <3>2. CASE j # i /\ j \in D
      BY <2>2, <3>2 DEF Deleted
    <3>3. CASE j # i /\ j \notin D
      BY <2>2, <3>3 DEF Carried, SameMoney
    <3>4. QED
      BY <3>1, <3>2, <3>3
  <2>7. termin' \in [Termins -> StageRow]
    BY <2>2, <2>5
  <2>8. QED
    BY <2>6, <2>7 DEF Moves, StageRows
<1>3. QED
  BY <1>1, <1>2

\* A request that edits a stage writes nothing unless the amount it names is the
\* one the stage has (UpdatePaymentTerminHandler, ppt_retention_split_exact).
THEOREM EditIsRefused ==
  ASSUME StageRows, NEW p \in Clients, NEW status \in Editable \cup {"kept"}, session[p].id \in Termins,
         UpdateTermin(p, status), Column(session[p].offer) # termin[session[p].id].amount, session[p].offer \in Int
  PROVE  UNCHANGED termin
<1> DEFINE i == session[p].id
<1> DEFINE t == [termin[i] EXCEPT !.amount = Column(session[p].offer), !.status = IF status = "kept" THEN @ ELSE status]
<1>1. termin[i] \in StageRow /\ Exact(termin[i])
  BY DEF StageRows
<1>2. t.amount = Column(session[p].offer) /\ t.retention = termin[i].retention /\ t.net = termin[i].net
  BY <1>1 DEF StageRow
<1>3. Column(session[p].offer) \in Int
  BY HalfAwayInt DEF Column
<1>4. ~Exact(t)
  BY <1>1, <1>2, <1>3, RowShape DEF Exact
<1>5. termin' = IF Present(i) /\ Exact(t) THEN [termin EXCEPT ![i] = t] ELSE termin
  BY DEF UpdateTermin
<1>6. QED
  BY <1>4, <1>5

LEMMA UpdateMoves ==
  ASSUME StageRows, NEW p \in Clients, PlanSession(session[p]), NEW status \in Editable \cup {"kept"}, UpdateTermin(p, status)
  PROVE  Moves
<1> DEFINE i == session[p].id
<1> DEFINE t == [termin[i] EXCEPT !.amount = Column(session[p].offer), !.status = IF status = "kept" THEN @ ELSE status]
<1>1. i \in Termins /\ session[p].offer \in Offers /\ session[p].offer \in Int
  BY AmountsAre DEF UpdateTermin, At, PlanSession, Offering, Pointing
<1>2. termin' = IF Present(i) /\ Exact(t) THEN [termin EXCEPT ![i] = t] ELSE termin
  BY DEF UpdateTermin
<1>3. UNCHANGED <<paidNet, paidHeld>>
  BY DEF UpdateTermin, RowsOnly
<1>4. CASE UNCHANGED termin
  BY <1>3, <1>4, StillMoves DEF stageVars
<1>5. CASE ~UNCHANGED termin
  <2>1. Present(i) /\ termin' = [termin EXCEPT ![i] = t] /\ Column(session[p].offer) = termin[i].amount
    BY <1>1, <1>2, <1>5, EditIsRefused
  <2>2. termin[i] \in StageRow /\ termin[i].status \in TerminStatus /\ status \in TerminStatus \cup {"kept"}
    BY <1>1, <2>1 DEF StageRows, Present, TerminStatus
  <2>3. t \in StageRow /\ SameMoney(t, termin[i]) /\ t.status \in TerminStatus
    BY <2>1, <2>2, RowShape DEF StageRow, SameMoney
  <2> HIDE DEF t, i
  <2>4. QED
    BY <1>1, <1>3, <2>1, <2>3, MarkMoves DEF i
<1>6. QED
  BY <1>4, <1>5

LEMMA SetMoves ==
  ASSUME StageRows, NEW p \in Clients, PlanSession(session[p]), NEW status \in Editable, SetTermin(p, status)
  PROVE  Moves
<1> DEFINE i == session[p].id
<1>1. i \in Termins /\ UNCHANGED <<paidNet, paidHeld>>
  BY DEF SetTermin, At, PlanSession, Pointing, RowsOnly
<1>2. CASE ~Present(i)
  BY <1>1, <1>2, StillMoves DEF SetTermin, stageVars
<1>3. CASE Present(i)
  <2> DEFINE t == [termin[i] EXCEPT !.status = status]
  <2>1. termin[i] \in StageRow /\ status \in TerminStatus
    BY <1>1 DEF StageRows, TerminStatus
  <2>2. t \in StageRow /\ SameMoney(t, termin[i]) /\ t.status \in TerminStatus
    BY <2>1, RowShape DEF StageRow, SameMoney
  <2>3. termin' = [termin EXCEPT ![i] = t]
    BY <1>3 DEF SetTermin
  <2> HIDE DEF t, i
  <2>4. QED
    BY <1>1, <1>3, <2>2, <2>3, MarkMoves
<1>4. QED
  BY <1>2, <1>3

LEMMA DeleteMoves ==
  ASSUME StageRows, NEW p \in Clients, PlanSession(session[p]), DeleteTermin(p)
  PROVE  Moves
<1> DEFINE i == session[p].id
<1>1. i \in Termins /\ UNCHANGED <<paidNet, paidHeld>>
  BY DEF DeleteTermin, At, PlanSession, Pointing, RowsOnly
<1>2. CASE ~Present(i)
  BY <1>1, <1>2, StillMoves DEF DeleteTermin, stageVars
<1>3. CASE Present(i)
  <2>1. termin' = [termin EXCEPT ![i] = Gone]
    BY <1>3 DEF DeleteTermin
  <2> HIDE DEF i
  <2>2. Deleted(i)
    BY <1>1, <2>1 DEF Deleted, StageRows
  <2>3. QED
    BY <1>1, <2>1, <2>2, RowMoves, RowShape DEF StageRows
<1>4. QED
  BY <1>2, <1>3

\* The three ways a plan is written.
LEMMA PlanMoves ==
  ASSUME StageRows, NEW p \in Clients, PlanSession(session[p]),
         (\E status \in Editable : StoreTermin(p, status)) \/ ReplaceTermins(p) \/ SignTermins(p)
  PROVE  Moves
<1>1. session[p].offer \in Offers /\ UNCHANGED <<paidNet, paidHeld>>
  BY DEF StoreTermin, ReplaceTermins, SignTermins, At, PlanSession, Offering, RowsOnly
<1>2. PICK D \in SUBSET Termins, status \in Editable : (\A i \in D : Present(i)) /\ Rewrite(D, session[p].offer, status)
  <2>1. CASE ReplaceTermins(p)
    BY <2>1 DEF ReplaceTermins, Editable
  <2>2. CASE SignTermins(p)
    BY <2>2 DEF SignTermins, Editable
  <2>3. ASSUME NEW status \in Editable, StoreTermin(p, status)
        PROVE  \E D \in SUBSET Termins : (\A i \in D : Present(i)) /\ Rewrite(D, session[p].offer, status)
    BY <2>3 DEF StoreTermin
  <2>4. QED
    BY <2>1, <2>2, <2>3
<1>3. QED
  BY <1>1, <1>2, RewriteMoves

LEMMA ChangeOrderMoves ==
  ASSUME StageRows, NEW x \in Offers, NEW status \in Editable, ChangeOrderTermin(x, status)
  PROVE  Moves
<1>1. x \in Int /\ Minor(x) \in Int /\ Minor(x) > 0 /\ status \in TerminStatus /\ UNCHANGED <<paidNet, paidHeld>>
  BY AmountsAre, TruncatedInt DEF ChangeOrderTermin, Minor, TerminStatus, RowsOnly
<1> DEFINE t == [NoTermin EXCEPT !.status = status, !.amount = Minor(x), !.net = Minor(x)]
<1>2. PICK i \in Fresh : termin' = [termin EXCEPT ![i] = t]
  BY DEF ChangeOrderTermin
<1>3. t \in StageRow /\ t.status = status /\ Exact(t)
  <2>1. NoTermin \in StageRow /\ NoTermin.retention = 0
    BY RowShape DEF NoTermin
  <2>2. t \in StageRow
    BY <1>1, <2>1 DEF StageRow
  <2>3. t.amount = Minor(x) /\ t.retention = 0 /\ t.net = Minor(x) /\ t.status = status
    BY <2>1 DEF StageRow
  <2>4. QED
    BY <1>1, <2>2, <2>3 DEF Exact
<1> HIDE DEF t
<1>4. Entered(i) /\ i \in Termins
  BY <1>1, <1>2, <1>3 DEF Entered, Fresh, StageRows
<1>5. QED
  BY <1>1, <1>2, <1>3, <1>4, RowMoves DEF StageRows

LEMMA ProofMoves ==
  ASSUME StageRows, NEW i \in Termins, UploadTerminProof(i) \/ RejectTerminProof(i)
  PROVE  Moves
<1>1. PICK status \in {"verifying", "pending"} : termin' = [termin EXCEPT ![i].status = status]
  BY DEF UploadTerminProof, RejectTerminProof
<1> DEFINE t == [termin[i] EXCEPT !.status = status]
<1>2. Present(i) /\ termin[i] \in StageRow /\ status \in TerminStatus /\ UNCHANGED <<paidNet, paidHeld>>
  BY DEF UploadTerminProof, RejectTerminProof, StageRows, Present, TerminStatus, Editable, RowsOnly
<1>3. t \in StageRow /\ SameMoney(t, termin[i]) /\ t.status \in TerminStatus /\ termin' = [termin EXCEPT ![i] = t]
  BY <1>1, <1>2, RowShape DEF StageRow, SameMoney
<1> HIDE DEF t
<1>4. QED
  BY <1>2, <1>3, MarkMoves

LEMMA PayMoves == ASSUME StageRows, NEW i \in Termins, PayTermin(i) PROVE Moves
<1> DEFINE t == [termin[i] EXCEPT !.status = "paid"]
<1>1. Present(i) /\ termin[i] \in StageRow /\ Exact(termin[i]) /\ UNCHANGED paidHeld /\ termin' = [termin EXCEPT ![i] = t]
  BY DEF PayTermin, StageRows
<1>2. termin[i].amount \in Int /\ termin[i].retention \in Int /\ termin[i].net \in Int
  BY <1>1, RowShape
<1>3. paidNet' = IF paidNet[i] # 0 THEN paidNet ELSE [paidNet EXCEPT ![i] = termin[i].net]
  BY <1>1, <1>2, PaidIsNet DEF PayTermin
<1>4. t \in StageRow /\ SameMoney(t, termin[i]) /\ t.status \in TerminStatus
  BY <1>1 DEF StageRow, SameMoney, TerminStatus
<1> HIDE DEF t
<1>5. /\ paidNet' \in [Termins -> Int] /\ \A j \in Termins \ {i} : paidNet'[j] = paidNet[j]
      /\ paidNet'[i] \in {paidNet[i], termin[i].net}
  BY <1>2, <1>3 DEF StageRows
<1>6. Carried(i)
  BY <1>1, <1>4, <1>5 DEF Carried, StageRows
<1>7. QED
  BY <1>1, <1>4, <1>5, <1>6, RowMoves DEF StageRows

LEMMA ReleaseMoves ==
  ASSUME StageRows, NEW p \in Clients, PlanSession(session[p]), Fits(termin[session[p].id], session[p]), ReleaseTermin(p)
  PROVE  Moves
<1> DEFINE i == session[p].id
<1> DEFINE t == [termin[i] EXCEPT !.released = TRUE]
<1>1. i \in Termins /\ session[p].held \in Int /\ UNCHANGED paidNet /\ (Present(i) => session[p].held = termin[i].retention)
  BY DEF ReleaseTermin, At, PlanSession, Pointing, Fits, Present
<1>2. CASE ~(Present(i) /\ ~termin[i].released)
  BY <1>1, <1>2, StillMoves DEF ReleaseTermin, stageVars
<1>3. CASE Present(i) /\ ~termin[i].released
  <2>1. termin[i] \in StageRow /\ termin' = [termin EXCEPT ![i] = t]
    BY <1>1, <1>3 DEF ReleaseTermin, StageRows
  <2>2. paidHeld' = IF paidHeld[i] = 0 THEN [paidHeld EXCEPT ![i] = session[p].held] ELSE paidHeld
    BY <1>3 DEF ReleaseTermin
  <2>3. t \in StageRow /\ SameMoney(t, termin[i]) /\ t.status = termin[i].status
    BY <2>1 DEF StageRow, SameMoney
  <2> HIDE DEF t, i
  <2>4. /\ paidHeld' \in [Termins -> Int] /\ \A j \in Termins \ {i} : paidHeld'[j] = paidHeld[j]
        /\ paidHeld'[i] \in {paidHeld[i], termin[i].retention}
    BY <1>1, <1>3, <2>2 DEF StageRows
  <2>5. Carried(i)
    BY <1>1, <1>3, <2>1, <2>3, <2>4 DEF Carried, StageRows
  <2>6. QED
    BY <1>1, <2>1, <2>3, <2>4, <2>5, RowMoves DEF StageRows
<1>4. QED
  BY <1>2, <1>3

LEMMA VoidMoves == ASSUME StageRows, VoidTermins PROVE Moves
<1>1. UNCHANGED <<paidNet, paidHeld>>
  BY DEF VoidTermins, RowsOnly
<1>2. ASSUME NEW i \in Termins PROVE termin'[i] \in StageRow /\ Carried(i)
  <2> DEFINE t == [termin[i] EXCEPT !.status = "void"]
  <2>1. termin'[i] = IF termin[i].status \in Editable THEN t ELSE termin[i]
    BY DEF VoidTermins
  <2>2. termin[i] \in StageRow
    BY DEF StageRows
  <2>3. t \in StageRow /\ SameMoney(t, termin[i]) /\ t.status \in TerminStatus
    BY <2>2 DEF StageRow, SameMoney, TerminStatus
  <2> HIDE DEF t
  <2>4. termin[i].status \in Editable => Present(i)
    BY DEF Present, TerminStatus
  <2>5. QED
    BY <1>1, <2>1, <2>2, <2>3, <2>4 DEF Carried, SameMoney
<1>3. termin' \in [Termins -> StageRow]
  BY <1>2 DEF VoidTermins
<1>4. QED
  BY <1>1, <1>2, <1>3 DEF Moves, StageRows

LEMMA StageMoves ==
  ASSUME StageRows, PlanSessions, StageNext
  PROVE  Moves
<1>1. ASSUME NEW p \in Clients, NEW x \in Offers, BeginStoreTermin(p, x) \/ BeginReplaceTermins(p, x) \/ BeginSignTermins(p, x)
      PROVE  Moves
  BY <1>1, StillMoves DEF BeginStoreTermin, BeginReplaceTermins, BeginSignTermins, Asks
<1>2. ASSUME NEW p \in Clients, NEW i \in Termins, NEW x \in Offers, BeginUpdateTermin(p, i, x) PROVE Moves
  BY <1>2, StillMoves DEF BeginUpdateTermin, Asks
<1>3. ASSUME NEW p \in Clients, NEW i \in Termins, BeginSetTermin(p, i) \/ BeginDeleteTermin(p, i) PROVE Moves
  BY <1>3, StillMoves DEF BeginSetTermin, BeginDeleteTermin, Asks
<1>4. ASSUME NEW p \in Clients PROVE PlanSession(session[p])
  BY <1>4 DEF PlanSessions
<1>5. ASSUME NEW p \in Clients, ReplaceTermins(p) \/ SignTermins(p) \/ \E status \in Editable : StoreTermin(p, status) PROVE Moves
  BY <1>4, <1>5, PlanMoves
<1>6. ASSUME NEW p \in Clients, DeleteTermin(p) PROVE Moves
  BY <1>4, <1>6, DeleteMoves
<1>7. ASSUME NEW p \in Clients, NEW status \in Editable, SetTermin(p, status) PROVE Moves
  BY <1>4, <1>7, SetMoves
<1>8. ASSUME NEW p \in Clients, NEW status \in Editable \cup {"kept"}, UpdateTermin(p, status) PROVE Moves
  BY <1>4, <1>8, UpdateMoves
<1>9. CASE PlanNext
  BY <1>1, <1>2, <1>3, <1>5, <1>6, <1>7, <1>8, <1>9, ChangeOrderMoves DEF PlanNext
<1>10. CASE PaidNext
  <2>1. ASSUME NEW p \in Clients, NEW i \in Termins, BeginReleaseTermin(p, i) PROVE Moves
    BY <2>1, StillMoves DEF BeginReleaseTermin, Asks
  <2>2. ASSUME NEW p \in Clients, ReleaseTermin(p) PROVE Moves
    BY <1>4, <2>2, ReleaseMoves DEF PlanSessions
  <2>3. QED
    BY <1>10, <2>1, <2>2, ProofMoves, PayMoves, VoidMoves DEF PaidNext
<1>11. QED
  BY <1>9, <1>10 DEF StageNext

(***************************************************************************)
(* What requests hold.                                                     *)
(***************************************************************************)
LEMMA IdleSession == PlanSession(Idle) /\ \A t : Fits(t, Idle)
BY DEF PlanSession, Idle, Offering, Pointing, Fits

\* A list stays right: a stage is deleted or keeps what is held back of it.
LEMMA FitsStill ==
  ASSUME Moves, NEW s, PlanSession(s), Fits(termin[s.id], s)
  PROVE  Fits(termin'[s.id], s)
<1> SUFFICES ASSUME s.at = "releaseTermin" PROVE Fits(termin'[s.id], s)
  BY DEF Fits
<1>1. s.id \in Termins
  BY DEF PlanSession, Pointing
<1>2. termin[s.id].status # "none" /\ (termin[s.id].status \in TerminStatus => s.held = termin[s.id].retention)
  BY DEF Fits
<1>3. CASE Deleted(s.id)
  BY <1>3, RowShape DEF Deleted, Fits
<1>4. CASE Carried(s.id)
  BY <1>2, <1>4, RowShape DEF Carried, SameMoney, Present, Fits
<1>5. QED
  BY <1>1, <1>2, <1>3, <1>4 DEF Moves, Entered

LEMMA SessionsWith ==
  ASSUME PlanSessions, Moves, NEW p \in Clients, NEW s, PlanSession(s), Fits(termin'[s.id], s), session' = [session EXCEPT ![p] = s]
  PROVE  PlanSessions'
<1>1. session' = [q \in Clients |-> session'[q]] /\ \A q \in Clients : session'[q] = IF q = p THEN s ELSE session[q]
  BY DEF PlanSessions
<1>2. ASSUME NEW q \in Clients PROVE PlanSession(session'[q]) /\ Fits(termin'[session'[q].id], session'[q])
  <2>1. CASE q = p
    BY <1>1, <2>1
  <2>2. CASE q # p
    <3>1. PlanSession(session[q]) /\ Fits(termin[session[q].id], session[q])
      BY DEF PlanSessions
    <3>2. Fits(termin'[session[q].id], session[q])
      BY <3>1, FitsStill
    <3>3. QED
      BY <1>1, <2>2, <3>1, <3>2
  <2>3. QED
    BY <2>1, <2>2
<1>3. QED
  BY <1>1, <1>2 DEF PlanSessions, PlanSession, Fits

LEMMA SessionsStill == ASSUME PlanSessions, Moves, UNCHANGED session PROVE PlanSessions'
<1>1. ASSUME NEW q \in Clients PROVE PlanSession(session[q]) /\ Fits(termin'[session[q].id], session[q])
  BY FitsStill DEF PlanSessions
<1>2. QED
  BY <1>1 DEF PlanSessions, PlanSession, Fits

LEMMA StageSessions ==
  ASSUME StageRows, PlanSessions, StageNext
  PROVE  PlanSessions'
<1>0. Moves
  BY StageMoves
<1>1. ASSUME NEW p \in Clients, Done(p) PROVE PlanSessions'
  BY <1>0, <1>1, IdleSession, SessionsWith DEF Done
<1>2. ASSUME NEW p \in Clients, NEW s, PlanSession(s), Fits(termin'[s.id], s), Serve(p, s) PROVE PlanSessions'
  BY <1>0, <1>2, SessionsWith DEF Serve
<1>3. ASSUME UNCHANGED session PROVE PlanSessions'
  BY <1>0, <1>3, SessionsStill
<1>4. ASSUME NEW p \in Clients, NEW x \in Offers, BeginStoreTermin(p, x) \/ BeginReplaceTermins(p, x) \/ BeginSignTermins(p, x)
      PROVE  PlanSessions'
  <2>1. PICK at \in {"storeTermin", "replaceTermins", "signTermins"} : Serve(p, [at |-> at, offer |-> x])
    BY <1>4 DEF BeginStoreTermin, BeginReplaceTermins, BeginSignTermins, Asks
  <2>2. PlanSession([at |-> at, offer |-> x]) /\ \A t : Fits(t, [at |-> at, offer |-> x])
    BY DEF PlanSession, Offering, Pointing, Fits
  <2>3. QED
    BY <1>2, <2>1, <2>2
<1>5. ASSUME NEW p \in Clients, NEW i \in Termins, NEW x \in Offers, BeginUpdateTermin(p, i, x) PROVE PlanSessions'
  <2>1. PlanSession([at |-> "updateTermin", id |-> i, offer |-> x]) /\ \A t : Fits(t, [at |-> "updateTermin", id |-> i, offer |-> x])
    BY DEF PlanSession, Offering, Pointing, Fits
  <2>2. QED
    BY <1>2, <1>5, <2>1 DEF BeginUpdateTermin, Asks
<1>6. ASSUME NEW p \in Clients, NEW i \in Termins, BeginSetTermin(p, i) \/ BeginDeleteTermin(p, i) PROVE PlanSessions'
  <2>1. PICK at \in {"setTermin", "deleteTermin"} : Serve(p, [at |-> at, id |-> i])
    BY <1>6 DEF BeginSetTermin, BeginDeleteTermin, Asks
  <2>2. PlanSession([at |-> at, id |-> i]) /\ \A t : Fits(t, [at |-> at, id |-> i])
    BY DEF PlanSession, Offering, Pointing, Fits
  <2>3. QED
    BY <1>2, <2>1, <2>2
<1>7. ASSUME NEW p \in Clients,
             \/ ReplaceTermins(p) \/ SignTermins(p) \/ DeleteTermin(p)
             \/ \E status \in Editable : StoreTermin(p, status) \/ SetTermin(p, status)
             \/ \E status \in Editable \cup {"kept"} : UpdateTermin(p, status)
      PROVE  PlanSessions'
  BY <1>1, <1>7 DEF ReplaceTermins, SignTermins, DeleteTermin, StoreTermin, SetTermin, UpdateTermin
<1>8. ASSUME \/ \E x \in Offers, status \in Editable : ChangeOrderTermin(x, status)
             \/ \E i \in Termins : UploadTerminProof(i) \/ RejectTerminProof(i) \/ PayTermin(i)
             \/ VoidTermins
      PROVE  PlanSessions'
  BY <1>3, <1>8 DEF ChangeOrderTermin, UploadTerminProof, RejectTerminProof, PayTermin, VoidTermins
<1>9. ASSUME NEW p \in Clients, NEW i \in Termins, BeginReleaseTermin(p, i) PROVE PlanSessions'
  <2> DEFINE s == [at |-> "releaseTermin", id |-> i, held |-> termin[i].retention]
  <2>1. Serve(p, s) /\ UNCHANGED termin /\ Present(i) /\ termin[i] \in StageRow
    BY <1>9 DEF BeginReleaseTermin, Asks, stageVars, StageRows
  <2>2. PlanSession(s) /\ s.id = i /\ s.held = termin[i].retention
    BY <2>1, RowShape DEF PlanSession, Offering, Pointing
  <2>3. Fits(termin'[s.id], s)
    BY <2>1, <2>2, RowShape DEF Fits, Present
  <2> HIDE DEF s
  <2>4. QED
    BY <1>2, <2>1, <2>2, <2>3
<1>10. ASSUME NEW p \in Clients, ReleaseTermin(p) PROVE PlanSessions'
  BY <1>1, <1>10 DEF ReleaseTermin
<1>11. CASE PlanNext
  BY <1>4, <1>5, <1>6, <1>7, <1>8, <1>11 DEF PlanNext
<1>12. CASE PaidNext
  BY <1>8, <1>9, <1>10, <1>12 DEF PaidNext
<1>13. QED
  BY <1>11, <1>12 DEF StageNext

LEMMA StageFrame == ASSUME StageNext PROVE UNCHANGED <<contested, booked>>
<1>1. CASE PlanNext
  BY <1>1 DEF PlanNext, BeginStoreTermin, BeginReplaceTermins, BeginSignTermins, BeginUpdateTermin, BeginSetTermin, BeginDeleteTermin,
              Asks, StoreTermin, ReplaceTermins, SignTermins, UpdateTermin, SetTermin, DeleteTermin, ChangeOrderTermin, RowsOnly
<1>2. CASE PaidNext
  BY <1>2 DEF PaidNext, UploadTerminProof, RejectTerminProof, PayTermin, BeginReleaseTermin, Asks, ReleaseTermin, VoidTermins, RowsOnly
<1>3. QED
  BY <1>1, <1>2 DEF StageNext

LEMMA StagesStart ==
  ASSUME NEW first \in StageRow, Exact(first), StageInit(first)
  PROVE  StageRows
<1>1. \A i \in Termins : termin[i] \in {first, NoTermin} /\ paidNet[i] = 0 /\ paidHeld[i] = 0
  BY DEF StageInit
<1>2. termin \in [Termins -> StageRow] /\ paidNet \in [Termins -> Int] /\ paidHeld \in [Termins -> Int]
  BY <1>1, RowShape DEF StageInit
<1>3. QED
  BY <1>1, <1>2, RowShape DEF StageRows

\* The types of the rows follow: an exact amount is not negative.
LEMMA RowsTyped == StageRows => StageTypeOK
<1> SUFFICES ASSUME StageRows PROVE StageTypeOK
  OBVIOUS
<1>1. ASSUME NEW i \in Termins
      PROVE  termin[i] \in [status : TerminStatus \cup {"none", "gone"}, amount : Nat, retention : Int, net : Int, released : BOOLEAN]
  <2>1. termin[i] \in StageRow /\ termin[i].amount >= 0
    BY DEF StageRows, Exact
  <2>2. QED
    BY <2>1 DEF StageRow
<1>2. QED
  BY <1>1 DEF StageRows, StageTypeOK

=============================================================================
