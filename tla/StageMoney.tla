------------------------------ MODULE StageMoney ------------------------------
(***************************************************************************)
(* The money of payment stages: how a decimal becomes minor units, how a   *)
(* gross is divided into what is payable now and what is held back, how    *)
(* the plan of one role is written and rewritten, and what its stages are  *)
(* paid.  The other money models take the net and the retention of a stage *)
(* as given and fixed; this one says why they may.                         *)
(*                                                                         *)
(* Requests about stages read a row or a sum from the pool, decide, and    *)
(* write with a later statement.  A plan of one stage stands for any plan: *)
(* its rows are divided and inserted one by one.  A status that a request  *)
(* names is chosen where it is written, since nothing looks at it before.  *)
(* Neither the ceiling nor refunds are repeated here: they only ever stop  *)
(* a payment.                                                              *)
(***************************************************************************)
EXTENDS Gateway

CONSTANTS
  Termins,    \* ids of stage rows: PostgreSQL gives each once
  Offers,     \* amounts a request may name, in tenths of a minor unit
  Agreed,     \* the negotiated value of the contract, 0 before there is one
  Tolerance,  \* AmountTolerance, in minor units
  MaxMinor    \* the largest minor amount an int64 holds

ASSUME TerminIds   == Termins \subseteq Nat
ASSUME AmountsAre  == Offers \subseteq Int /\ Agreed \in Nat /\ Tolerance \in Nat /\ MaxMinor \in Nat

VARIABLES
  termin,     \* project_payment_termins of the role
  paidNet,    \* ledger payment of each stage, 0 for none
  paidHeld    \* ledger retention_release of each stage, 0 for none

stageVars == <<termin, paidNet, paidHeld>>

(***************************************************************************)
(* Money: integers of minor units.                                         *)
(***************************************************************************)
\* normaliseDecimal and DivideBy cut off, PostgreSQL rounds half away from zero.
Truncated(x, d) == IF x >= 0 THEN x \div d ELSE -((-x) \div d)
HalfAway(x, d)  == IF x >= 0 THEN (2 * x + d) \div (2 * d) ELSE -((2 * (-x) + d) \div (2 * d))

Minor(x)  == Truncated(x, 10)
Column(x) == HalfAway(x, 10)
Whole     == {x \in Offers : x >= 0 /\ x % 1000 = 0}

\* Five percent, in basis points.
Rate == 500

\* The product is cut off and the net takes the remainder; nothing is held back
\* of an amount that is not positive.
SplitRetention(gross, bp) ==
  LET held == IF bp <= 0 \/ gross <= 0 THEN 0 ELSE Truncated(gross * bp, 10000)
  IN [retention |-> held, net |-> gross - held]

\* Mutant: a stage is paid its gross.
GrossOf(t) == t.amount

\* terminNetMinor: the net as it was written; of a half-written split what is
\* not held back, of a row without one the gross.
ForTermin(t) ==
  IF t.net > 0 THEN t.net ELSE IF t.retention > 0 THEN t.amount - t.retention ELSE t.amount

(***************************************************************************)
(* Rows of stages.                                                         *)
(***************************************************************************)
Editable     == {"locked", "pending"}
TerminStatus == Editable \cup {"verifying", "paid", "void"}
NoTermin     == [status |-> "none", amount |-> 0, retention |-> 0, net |-> 0, released |-> FALSE]
Gone         == [NoTermin EXCEPT !.status = "gone"]

Present(i)  == termin[i].status \in TerminStatus
InFlight(i) == termin[i].status \in {"verifying", "paid"}
Fresh       == {i \in Termins : termin[i].status = "none"}

\* Mutant: the schema asks for no more than an amount.
NotNegative(t) == t.amount >= 0
\* ppt_retention_split_exact and ppt_amount_non_negative.
Exact(t) == t.retention + t.net = t.amount /\ t.amount >= 0

\* The amount is stored as the text that came, its halves as they were computed.
Stage(x, status) ==
  LET split == SplitRetention(Minor(x), Rate) IN
  [status |-> status, amount |-> Column(x), retention |-> split.retention, net |-> split.net, released |-> FALSE]

\* MultiplyBy refuses a product beyond an int64, the schema a row that is not exact.
Written(x) == Minor(x) * Rate <= MaxMinor /\ Exact(Stage(x, "locked"))

Planned(S) == MapThenSumSet(LAMBDA i : termin[i].amount, {i \in S : Present(i) /\ termin[i].status # "void"})
\* AssertTotalWithinContractValue.
WithinContract(total) == Agreed = 0 \/ total <= Agreed + Tolerance

\* The rows D are deleted and one is inserted, or all is rolled back.
Rewrite(D, x, status) ==
  \/ /\ Written(x)
     /\ \E i \in Fresh : termin' = [j \in Termins |-> IF j = i THEN Stage(x, status) ELSE IF j \in D THEN Gone ELSE termin[j]]
  \/ ~Written(x) /\ UNCHANGED termin

Asks(p, s) == Serve(p, s) /\ UNCHANGED <<stageVars, contested, booked>>
RowsOnly   == UNCHANGED <<paidNet, paidHeld, contested, booked>>

(***************************************************************************)
(* Plans.                                                                  *)
(***************************************************************************)
BeginStoreTermin(p, x) ==
  /\ ~contested /\ x \in Whole /\ WithinContract(Planned(Termins) + Minor(x))
  /\ Asks(p, [at |-> "storeTermin", offer |-> x])

StoreTermin(p, status) ==
  /\ At(p, "storeTermin")
  /\ Rewrite({}, session[p].offer, status)
  /\ Done(p) /\ RowsOnly

\* UpdateProjectHandler with payment_termins: whoever is in flight by then goes too.
BeginReplaceTermins(p, x) ==
  /\ \A i \in Termins : ~InFlight(i)
  /\ x >= 0 /\ WithinContract(Minor(x))
  /\ Asks(p, [at |-> "replaceTermins", offer |-> x])

ReplaceTermins(p) ==
  /\ At(p, "replaceTermins")
  /\ Rewrite({i \in Termins : Present(i)}, session[p].offer, "locked")
  /\ Done(p) /\ RowsOnly

\* SignContractHandler: the plan is worth what was agreed, no stage of it nothing.
BeginSignTermins(p, x) ==
  /\ \A i \in Termins : ~InFlight(i)
  /\ Agreed > 0 /\ Minor(x) > 0 /\ WithinContract(Minor(x)) /\ Minor(x) >= Agreed
  /\ Asks(p, [at |-> "signTermins", offer |-> x])

SignTermins(p) ==
  /\ At(p, "signTermins")
  /\ Rewrite({i \in Termins : Present(i) /\ ~InFlight(i)}, session[p].offer, "pending")
  /\ Done(p) /\ RowsOnly

\* An approved change order adds a stage nothing of which is held back.
ChangeOrderTermin(x, status) ==
  /\ ~contested /\ x \in Whole /\ Minor(x) > 0
  /\ \E i \in Fresh :
       termin' = [termin EXCEPT ![i] = [NoTermin EXCEPT !.status = status, !.amount = Minor(x), !.net = Minor(x)]]
  /\ RowsOnly /\ UNCHANGED session

\* UpdatePaymentTerminHandler with an amount: the drift guard is about the row
\* as it was read, and neither half is computed again.
BeginUpdateTermin(p, i, x) ==
  /\ Present(i) /\ ~contested /\ x \in Whole
  /\ InFlight(i) => Minor(x) = termin[i].amount
  /\ WithinContract(Planned(Termins \ {i}) + Minor(x))
  /\ Asks(p, [at |-> "updateTermin", id |-> i, offer |-> x])

UpdateTermin(p, status) ==
  LET i == session[p].id
      t == [termin[i] EXCEPT !.amount = Column(session[p].offer), !.status = IF status = "kept" THEN @ ELSE status]
  IN /\ At(p, "updateTermin")
     /\ termin' = IF Present(i) /\ Exact(t) THEN [termin EXCEPT ![i] = t] ELSE termin
     /\ Done(p) /\ RowsOnly

\* The same without one: any status may be written over any other.
BeginSetTermin(p, i) ==
  /\ Present(i) /\ ~contested
  /\ Asks(p, [at |-> "setTermin", id |-> i])

SetTermin(p, status) ==
  LET i == session[p].id IN
  /\ At(p, "setTermin")
  /\ termin' = IF Present(i) THEN [termin EXCEPT ![i].status = status] ELSE termin
  /\ Done(p) /\ RowsOnly

BeginDeleteTermin(p, i) ==
  /\ Present(i) /\ ~InFlight(i)
  /\ Asks(p, [at |-> "deleteTermin", id |-> i])

DeleteTermin(p) ==
  LET i == session[p].id IN
  /\ At(p, "deleteTermin")
  /\ termin' = IF Present(i) THEN [termin EXCEPT ![i] = Gone] ELSE termin
  /\ Done(p) /\ RowsOnly

(***************************************************************************)
(* Payments.  Each is booked under the lock of the project.                *)
(***************************************************************************)
UploadTerminProof(i) ==
  /\ Present(i) /\ termin[i].status \notin {"paid", "void"} /\ ~contested
  /\ termin' = [termin EXCEPT ![i].status = "verifying"]
  /\ RowsOnly /\ UNCHANGED session

RejectTerminProof(i) ==
  /\ termin[i].status = "verifying"
  /\ termin' = [termin EXCEPT ![i].status = "pending"]
  /\ RowsOnly /\ UNCHANGED session

\* A proof is verified or the owner marks the stage paid: one ledger row per
\* stage, and the ledger takes no row of nothing.
PayTermin(i) ==
  /\ Present(i) /\ termin[i].status # "paid" /\ ~contested
  /\ paidNet[i] # 0 \/ ForTermin(termin[i]) > 0
  /\ termin' = [termin EXCEPT ![i].status = "paid"]
  /\ paidNet' = IF paidNet[i] # 0 THEN paidNet ELSE [paidNet EXCEPT ![i] = ForTermin(termin[i])]
  /\ UNCHANGED <<paidHeld, session, contested, booked>>

\* ReleaseExpiredRetentions lists what is held back, of stages paid or not, and
\* releaseOneRetention later books the amount of the list.
BeginReleaseTermin(p, i) ==
  /\ Present(i) /\ termin[i].retention > 0 /\ ~termin[i].released /\ ~contested
  /\ Asks(p, [at |-> "releaseTermin", id |-> i, held |-> termin[i].retention])

ReleaseTermin(p) ==
  LET i == session[p].id
      due == Present(i) /\ ~termin[i].released
  IN /\ At(p, "releaseTermin")
     /\ termin' = IF due THEN [termin EXCEPT ![i].released = TRUE] ELSE termin
     /\ paidHeld' = IF due /\ paidHeld[i] = 0 THEN [paidHeld EXCEPT ![i] = session[p].held] ELSE paidHeld
     /\ Done(p) /\ UNCHANGED <<paidNet, contested, booked>>

\* settleTerminationStages.
VoidTermins ==
  /\ termin' = [i \in Termins |-> IF termin[i].status \in Editable THEN [termin[i] EXCEPT !.status = "void"] ELSE termin[i]]
  /\ RowsOnly /\ UNCHANGED session

(***************************************************************************)
(* The system.                                                             *)
(***************************************************************************)
StageInit(first) ==
  /\ termin = [i \in Termins |-> IF i = 1 THEN first ELSE NoTermin]
  /\ paidNet = [i \in Termins |-> 0]
  /\ paidHeld = [i \in Termins |-> 0]

PlanNext ==
  \/ \E p \in Clients, x \in Offers : BeginStoreTermin(p, x) \/ BeginReplaceTermins(p, x) \/ BeginSignTermins(p, x)
  \/ \E p \in Clients, i \in Termins, x \in Offers : BeginUpdateTermin(p, i, x)
  \/ \E p \in Clients, i \in Termins : BeginSetTermin(p, i) \/ BeginDeleteTermin(p, i)
  \/ \E p \in Clients : ReplaceTermins(p) \/ SignTermins(p) \/ DeleteTermin(p)
  \/ \E p \in Clients, status \in Editable : StoreTermin(p, status) \/ SetTermin(p, status)
  \/ \E p \in Clients, status \in Editable \cup {"kept"} : UpdateTermin(p, status)
  \/ \E x \in Offers, status \in Editable : ChangeOrderTermin(x, status)

PaidNext ==
  \/ \E i \in Termins : UploadTerminProof(i) \/ RejectTerminProof(i) \/ PayTermin(i)
  \/ \E p \in Clients, i \in Termins : BeginReleaseTermin(p, i)
  \/ \E p \in Clients : ReleaseTermin(p)
  \/ VoidTermins

StageNext == PlanNext \/ PaidNext

(***************************************************************************)
(* Properties.                                                             *)
(***************************************************************************)
StageTypeOK ==
  /\ termin \in [Termins -> [status : TerminStatus \cup {"none", "gone"}, amount : Nat, retention : Int, net : Int, released : BOOLEAN]]
  /\ paidNet \in [Termins -> Int] /\ paidHeld \in [Termins -> Int]

\* What is not yet booked of the gross of a stage is exactly the halves not yet
\* paid: through edits and replacements decided on rows read before, and though
\* what is released was listed long before, net and retention together are the
\* gross (SplitRetention, terminNetMinor, releaseOneRetention).
PaidAddsUp ==
  \A i \in Termins : Present(i) =>
    termin[i].amount - paidNet[i] - paidHeld[i] =
      (IF paidNet[i] = 0 THEN termin[i].net ELSE 0) + (IF paidHeld[i] = 0 THEN termin[i].retention ELSE 0)

\* As long as a stage exists its gross, net and retention stay what they were
\* when it was written, although the handler that edits stages compares the
\* amount with a row it read before a payment, and computes neither half again.
AmountsStay ==
  [][ \A i \in Termins : Present(i) /\ Present(i)' =>
        /\ termin'[i].amount = termin[i].amount
        /\ termin'[i].net = termin[i].net /\ termin'[i].retention = termin[i].retention ]_termin
=============================================================================
