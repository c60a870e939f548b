------------------------------ MODULE EscrowLedger ------------------------------
(***************************************************************************)
(* What the escrow of a project promises, one atomic step per booking: the *)
(* ceiling, the ledger rows and the disputes that freeze them.  The        *)
(* handlers of EscrowProject take several steps and locks for each.        *)
(***************************************************************************)
EXTENDS Integers, LedgerSum

CONSTANTS Stages, Disputes, Net, Amounts, Opening, NoStage

VARIABLES budget, ledger, dispute
vars == <<budget, ledger, dispute>>

Payment(s)      == [type |-> "payment", ref |-> s, reverses |-> NoStage, amount |-> Net[s]]
Refund(d, s, n) == [type |-> "refund", ref |-> d, reverses |-> s, amount |-> -n]

Available     == budget - Total(ledger)
Refundable(s) == Total({r \in ledger : r.type = "payment" /\ r.ref = s})
                   + Total({r \in ledger : r.type = "refund" /\ r.reverses = s})
Booked(type, ref) == \E r \in ledger : r.type = type /\ r.ref = ref
Frozen        == \E d \in Disputes : dispute[d].status = "open"

Close(d, outcome) == dispute' = [dispute EXCEPT ![d].status = outcome]

Deposit == \E n \in Amounts : budget' = budget + n /\ UNCHANGED <<ledger, dispute>>

Reduce == \E n \in Amounts :
  /\ ~Frozen
  /\ n <= Available
  /\ budget' = budget - n
  /\ UNCHANGED <<ledger, dispute>>

\* A stage is charged once, when the ceiling covers it.
Charge(s) ==
  /\ ~Booked("payment", s)
  /\ Net[s] <= Available
  /\ ledger' = ledger \cup {Payment(s)}
  /\ UNCHANGED budget

Pay == ~Frozen /\ UNCHANGED dispute /\ \E s \in Stages : Charge(s)

Open == \E d \in Disputes, s \in Stages \cup {NoStage}, claim \in Amounts \cup {-1} :
  /\ dispute[d].status = "none"
  /\ dispute' = [dispute EXCEPT ![d] = [status |-> "open", stage |-> s, claim |-> claim]]
  /\ UNCHANGED <<budget, ledger>>

\* Withdrawn, dismissed, or decided without money.
Settle == \E d \in Disputes, outcome \in {"withdrawn", "dismissed", "resolved"} :
  /\ dispute[d].status # "none"
  /\ Close(d, outcome)
  /\ UNCHANGED <<budget, ledger>>

\* Decided by paying the disputed stage.
Release == \E d \in Disputes :
  /\ dispute[d].stage # NoStage
  /\ Charge(dispute[d].stage)
  /\ Close(d, "resolved")

\* Decided by returning money, once per dispute, out of what was paid
\* against the stage and not returned yet.
Reverse == \E d \in Disputes, n \in Amounts :
  LET s == dispute[d].stage IN
  /\ s # NoStage
  /\ ~Booked("refund", d)
  /\ n <= Refundable(s)
  /\ dispute[d].claim # -1 => n <= dispute[d].claim
  /\ ledger' = ledger \cup {Refund(d, s, n)}
  /\ Close(d, "resolved")
  /\ UNCHANGED budget

Init == /\ budget = Opening
        /\ ledger = {}
        /\ dispute = [d \in Disputes |-> [status |-> "none", stage |-> NoStage, claim |-> -1]]

Next == Deposit \/ Reduce \/ Pay \/ Open \/ Settle \/ Release \/ Reverse

Spec == Init /\ [][Next]_vars

=============================================================================
