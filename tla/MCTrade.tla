------------------------------- MODULE MCTrade -------------------------------
(***************************************************************************)
(* A small instance of the material trade and the amendments for TLC.      *)
(* Every behaviour exercises one topic, so that the sizes of the topics    *)
(* add up instead of multiplying.                                          *)
(***************************************************************************)
EXTENDS MaterialTrade, Amendments, TLC

CONSTANTS m1, m2, k1, k2, s1, s2

\* The ledger names what is paid for by its kind and its id.
ASSUME SeparateRefs == Addenda \cap Orders = {}

VARIABLE topic

Init ==
  \/ /\ \/ topic = "quotes" /\ TradeInit(Blank)
        \/ topic = "payments" /\ TradeInit(Ordered(1))
        \/ topic = "fulfilment" /\ TradeInit(Ordered(0))
        \/ topic \in {"addenda", "procurement", "changes"} /\ TradeInit(Blank)
     /\ AmendInit(None)
  \/ /\ topic = "specialists" /\ TradeInit(Blank)
     /\ \E holder \in Profiled \cup {None} : AmendInit(holder)

Trading ==
  \/ topic = "quotes" /\ QuoteNext
  \/ topic = "payments" /\ PaymentNext
  \/ topic \in {"payments", "fulfilment"} /\ FulfilNext
  \/ topic = "fulfilment" /\ (ReviewNext \/ CourierNext)
  \/ topic \in {"quotes", "payments", "fulfilment"} /\ \E p \in Clients : Cancel(p)

\* Addenda of every amount for nobody, and of the smallest for every specialist.
Amending ==
  \/ topic = "addenda" /\ AddendumNext /\ \A a \in Addenda : addendum'[a].for = None
  \/ topic = "specialists" /\ AddendumNext /\ \A a \in Addenda : addendum'[a].amount <= Min(Amounts)
  \/ topic = "procurement" /\ (ProcurementNext \/ StockNext)
  \/ topic = "changes" /\ ChangeNext

Next ==
  /\ \/ Trading /\ UNCHANGED amendVars
     \/ Amending /\ UNCHANGED tradeVars
     \/ /\ topic \in {"addenda", "specialists", "procurement", "changes"}
        /\ \E p \in Clients : Leave(p) /\ UNCHANGED <<amendVars, tradeVars>>
     \/ topic \in {"payments", "addenda", "specialists", "changes"} /\ Contest /\ UNCHANGED <<amendVars, tradeVars>>
  /\ UNCHANGED topic

Spec == Init /\ [][Next]_<<tradeVars, amendVars, gatewayVars, topic>> /\ TradeFairness

\* The rows of both parts have the shapes the handlers write.
TypeOK == TradeTypeOK /\ AmendTypeOK
=============================================================================
