------------------------------- MODULE LedgerSum -------------------------------
(***************************************************************************)
(* SUM(amount) over ledger rows, as paidTotalMinor and ledgerSums ask      *)
(* PostgreSQL for it.                                                      *)
(***************************************************************************)
EXTENDS Integers, FiniteSetsExt

Total(L) == MapThenSumSet(LAMBDA r : r.amount, L)

=============================================================================
