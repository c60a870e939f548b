------------------------------- MODULE Gateway -------------------------------
(***************************************************************************)
(* What the handlers of the gateway share: requests, the freeze, and the   *)
(* escrow ledger as the handlers see it.                                   *)
(*                                                                         *)
(* Few handlers use one transaction from their first read to their last    *)
(* write.  Most read a row, decide, and write by id with a later           *)
(* statement, or in a transaction that does not read the row again.  A     *)
(* session is a request between two such statements; it holds what the     *)
(* request has read, which may be stale by the time it is used.            *)
(***************************************************************************)
EXTENDS Integers, FiniteSetsExt

CONSTANTS
  Clients,     \* requests served at the same time
  References,  \* what a ledger payment may be made for
  Funds        \* what the ceiling of the project leaves at the start

ASSUME ReferencesAreNats == References \subseteq Nat /\ Funds \in Nat
ASSUME FinitelyMany      == IsFiniteSet(Clients) /\ IsFiniteSet(References)

VARIABLES
  session,     \* per client: where its request stands, and what it has read
  contested,   \* an open dispute freezes the project
  booked       \* ledger payment of each reference, 0 for none

gatewayVars == <<session, contested, booked>>

(***************************************************************************)
(* Requests.                                                               *)
(***************************************************************************)
Idle            == [at |-> "idle"]
At(p, point)    == session[p].at = point
To(p, point)    == session' = [session EXCEPT ![p].at = point]
Serve(p, s)     == At(p, "idle") /\ session' = [session EXCEPT ![p] = s]
Done(p)         == session' = [session EXCEPT ![p] = Idle]

\* The client goes away between two statements of its request.
Leave(p) ==
  /\ ~At(p, "idle")
  /\ Done(p)
  /\ UNCHANGED <<contested, booked>>

\* A dispute is filed, or the last one is closed.
Contest ==
  /\ contested' = ~contested
  /\ UNCHANGED <<session, booked>>

(***************************************************************************)
(* recordPaymentMinor: one row per reference, none while a dispute is open *)
(* or beyond the ceiling, decided and written under the project lock.      *)
(***************************************************************************)
Spent == MapThenSumSet(LAMBDA r : booked[r], References)
Left  == Funds - Spent

\* Mutant: the ceiling is not looked at under the lock.
CoveredAlways(r, amount) == booked[r] >= 0 /\ amount >= 0
Covered(r, amount) == booked[r] > 0 \/ amount <= Left

\* Mutant: a second payment of one reference is written too.
BookAgain(r, amount) == booked' = [booked EXCEPT ![r] = @ + amount]
Book(r, amount) == booked' = IF booked[r] > 0 THEN booked ELSE [booked EXCEPT ![r] = amount]

Payable(r, amount) == ~contested /\ Covered(r, amount)

GatewayInit ==
  /\ session = [p \in Clients |-> Idle]
  /\ contested = FALSE
  /\ booked = [r \in References |-> 0]

(***************************************************************************)
(* Properties.                                                             *)
(***************************************************************************)
\* Whatever is paid for, at amounts read long before the transaction, never
\* exceeds what the ceiling leaves (recordPaymentMinor).
SpentIsCovered == Spent <= Funds

\* Paying for the same thing again, on the same path or another, never changes
\* what was booked for it (the dedupe of recordPaymentMinor).
BookedOnce == [][\A r \in References : booked[r] > 0 => booked'[r] = booked[r]]_booked
=============================================================================
