----------------------------- MODULE TradeProofs -----------------------------
(***************************************************************************)
(* For every number of clients, orders, addenda, requests and change       *)
(* orders, every price and every amount: what material and addenda cost is *)
(* covered by what the project held, what is paid has been booked, and     *)
(* stock agrees with its history.                                          *)
(*                                                                         *)
(* TradeInv is what every step preserves.  Most of it says what a request  *)
(* holds that has read something and not yet written: its ids name rows    *)
(* that exist, its amounts are positive, and an order it is about to mark  *)
(* paid it has booked.                                                     *)
(***************************************************************************)
EXTENDS MCTrade, LedgerSumProofs

\* The points at which a request about an order waits between two statements.
OrderPoints  == {"orderProof", "materialProof", "receipt", "review", "arrive"}
UpdatePoints == {"bookOrder", "writeOrder", "site", "claim", "move"}
\* The same of procurement requests, change orders and the deletion of a
\* requirement.
RequestPoints == {"request", "askOwner", "verifyRequest"}
ChangePoints == {"approveChange", "writeChange"}
DeletePoints == {"deleteHistory", "deleteRequests", "deleteRequirement"}
\* The topics of Amendments and of MaterialTrade.
Amends       == {"addenda", "specialists", "procurement", "changes"}
Trades       == {"quotes", "payments", "fulfilment"}
Underway     == {"accepted", "picked_up", "delivered"}
Answers      == AddendumStatus \ {"none", "approved", "verifying", "paid"}

\* What a request has read of an order; a request that updates one carries the
\* status it found and the status it will write.
OrderRead(s)  == s \in [at : OrderPoints, id : Orders]
UpdateRead(s) == s \in [at : UpdatePoints, id : Orders, new : OrderStatus \ {"none"}, old : OrderStatus]

\* A request about quotes, payments or orders: the row it read is there, an
\* amount it will book is positive, and a row it will mark paid it has booked.
TradeSession(s) ==
  /\ s.at \in {"idle", "quoteProof", "quotePaid", "approve", "advance", "jobStatus"} \cup OrderPoints \cup UpdatePoints
  /\ s.at = "quotePaid" => s.amount \in Nat /\ s.amount >= Goods
  /\ s.at = "approve" => s.ship \in Nat
  /\ s.at \in OrderPoints => OrderRead(s) /\ order[s.id].status # "none"
  /\ s.at \in UpdatePoints => UpdateRead(s) /\ order[s.id].status # "none"
  /\ s.at = "writeOrder" /\ s.new = "paid" => booked[s.id] > 0
  /\ s.at = "bookOrder" => s.new = "paid"
  /\ s.at = "jobStatus" => s.id \in Jobs /\ s.new \in Underway

\* A request about addenda, procurement or change orders.
AmendSession(s) ==
  /\ s.at \in {"idle", "handle", "decide", "addendumProof", "join", "change"} \cup RequestPoints \cup ChangePoints \cup DeletePoints
  /\ s.at = "handle" => s.id \in Addenda /\ addendum[s.id].status # "none" /\ s.new \in Answers
  /\ s.at = "decide" => s.id \in Addenda /\ addendum[s.id].status # "none"
  /\ s.at = "addendumProof" => s.id \in Addenda /\ addendum[s.id].status # "none"
  /\ s.at = "join" => s.user \in Specialists \cup {None}
  /\ s.at \in RequestPoints => s \in [at : RequestPoints, id : Requests]
  /\ s.at = "change" => s.id \in Changes
  /\ s.at \in ChangePoints => s.id \in Changes /\ s.new \in {"pm_reviewed", "rejected"}
  /\ s.at \in DeletePoints => s \in [at : DeletePoints]

\* One topic is under way at a time, so only its requests are.
Sessions ==
  /\ session = [p \in Clients |-> session[p]]
  /\ topic \in Trades => \A p \in Clients : TradeSession(session[p])
  /\ topic \in Amends => \A p \in Clients : AmendSession(session[p])

\* An order without a row took no stock and one with a row costs something; a
\* job nobody took has no courier; an addendum that exists costs something.
OrdersKept == \A o \in Orders : IF order[o].status = "none" THEN ~order[o].taken ELSE order[o].price > 0
JobsKept   == \A j \in Jobs : job[j].status \in {"none", "pending"} => job[j].courier = NoOne
\* What reads as paid has its ledger row, and a ledger row is for no less than the
\* goods of the quote or the total of an order that is there.
PaidHasRow ==
  /\ quote.status = "paid" => booked[0] > 0
  /\ \A o \in Orders : order[o].status = "paid" => booked[o] > 0
BookedInFull ==
  /\ booked[0] > 0 => booked[0] >= Goods
  /\ \A o \in Orders : booked[o] > 0 => order[o].status # "none" /\ booked[o] >= order[o].price
AddendaKept == \A a \in Addenda : addendum[a].status # "none" =>
                 addendum[a].amount > 0 /\ (addendum[a].counter # None => addendum[a].counter > 0)

\* The rows of either module, with what its own properties add to the types.
TradeRows == TradeTypeOK /\ OrdersKept /\ JobsKept /\ PaidHasRow /\ BookedInFull
AmendRows == AmendTypeOK /\ AddendaKept /\ AddendumPaidIsBooked /\ OneStagePerChange /\ StockHasHistory

\* The inductive invariant.  What was spent, and the stock, relate the rows to
\* all sessions, so they stand outside of the parts above.
TradeInv ==
  /\ topic \in Trades \cup Amends
  /\ Sessions /\ TradeRows /\ AmendRows
  /\ SpentIsCovered /\ StockIsAccounted

(***************************************************************************)
(* Sums.                                                                   *)
(***************************************************************************)
Owed == [p \in Clients |-> Due(p)]

LEMMA DueIsSum == MapThenSumSet(Due, Clients) = SumOver(Owed, Clients)
<1> DEFINE Fold(g) == g = [S \in SUBSET Clients |-> IF S = {} THEN 0 ELSE Due(Pick(S)) + g[S \ {Pick(S)}]]
           h == CHOOSE g : Fold(g)
<1>1. IsFiniteSet(Clients)
  BY FinitelyMany
<1>2. MapThenSumSet(Due, Clients) = h[Clients]
  BY DEF MapThenSumSet, MapThenFoldSet, Pick
<1>3. \A S \in SUBSET Clients : S # {} => Owed[Pick(S)] = Due(Pick(S))
  BY PickIn DEF Owed
<1>4. \A g : Fold(g) <=> Sums(Owed, g, Clients)
  <2>1. SUFFICES ASSUME NEW g PROVE Fold(g) <=> Sums(Owed, g, Clients)
    OBVIOUS
  <2>2. [S \in SUBSET Clients |-> IF S = {} THEN 0 ELSE Due(Pick(S)) + g[S \ {Pick(S)}]]
          = [S \in SUBSET Clients |-> IF S = {} THEN 0 ELSE Owed[Pick(S)] + g[S \ {Pick(S)}]]
    BY <1>3
  <2>3. QED
    BY <2>2 DEF Sums
<1>5. PICK g : Sums(Owed, g, Clients)
  BY <1>1, SumsExists
<1> HIDE DEF Fold
<1>6. Sums(Owed, h, Clients)
  BY <1>4, <1>5
<1>7. SumOver(Owed, Clients) = h[Clients]
  BY <1>1, <1>6, SumSums
<1>8. QED
  BY <1>2, <1>7

LEMMA DueIsInt == ASSUME NEW p PROVE Due(p) \in Int
BY PricesAreNats DEF Due

\* When the session of p changes, the sum follows what p owes.
LEMMA DueStep ==
  ASSUME NEW p \in Clients, \A q \in Clients \ {p} : session'[q] = session[q]
  PROVE  /\ MapThenSumSet(Due, Clients)' = MapThenSumSet(Due, Clients) - Due(p) + Due(p)'
         /\ MapThenSumSet(Due, Clients) \in Int
<1>1. MapThenSumSet(Due, Clients) = SumOver(Owed, Clients)
  BY DueIsSum
<1>2. MapThenSumSet(Due, Clients)' = SumOver(Owed', Clients)
  <2>1. (MapThenSumSet(Due, Clients) = SumOver(Owed, Clients))'
    BY DueIsSum, PTL
  <2>2. QED
    BY <2>1
<1>3. Weights(Owed, Clients)
  BY FinitelyMany, DueIsInt DEF Weights, Owed
<1>4. Owed[p] = Due(p) /\ Owed'[p] = Due(p)'
  BY DEF Owed
<1>5. Owed'[p] \in Int
  BY PricesAreNats DEF Owed, Due
<1>6. \A q \in Clients \ {p} : Owed'[q] = Owed[q]
  BY DEF Owed, Due, At
<1>7. SumOver(Owed', Clients) = SumOver(Owed, Clients) - Owed[p] + Owed'[p]
  BY <1>3, <1>5, <1>6, SumUpdate
<1>8. SumOver(Owed, Clients) \in Int
  BY <1>3, SumInt
<1>9. QED
  BY <1>1, <1>2, <1>4, <1>7, <1>8

LEMMA SpentIsSum == Spent = SumOver(booked, References)
BY DEF Spent, SumOver

\* What a booking writes: its own row, once.
LEMMA BookWrites ==
  ASSUME booked \in [References -> Nat], NEW r \in References, NEW n \in Nat \ {0}, Book(r, n)
  PROVE  /\ booked'[r] > 0
         /\ \A x \in References : booked[x] > 0 => booked'[x] > 0
         /\ \A x \in References : booked'[x] = booked[x] \/ (x = r /\ booked'[x] = n)
<1>0. booked' \in [References -> Nat]
  BY DEF Book
<1>1. CASE booked[r] > 0
  <2>1. booked' = booked
    BY <1>1 DEF Book
  <2>2. QED
    BY <1>0, <1>1, <2>1
<1>2. CASE ~(booked[r] > 0)
  <2>1. booked' = [booked EXCEPT ![r] = n]
    BY <1>2 DEF Book
  <2>2. booked'[r] = n
    BY <2>1
  <2>3. \A x \in References : booked'[x] = booked[x] \/ (x = r /\ booked'[x] = n)
    BY <1>0, <2>1
  <2>4. n > 0
    OBVIOUS
  <2>5. \A x \in References : booked[x] > 0 => booked'[x] > 0
    BY <1>0, <2>3, <2>4
  <2>6. QED
    BY <2>2, <2>3, <2>4, <2>5
<1>3. QED
  BY <1>1, <1>2

\* recordPaymentMinor keeps the ledger within what the ceiling left.
LEMMA BookFits ==
  ASSUME SpentIsCovered, booked \in [References -> Nat], NEW r \in References, NEW n \in Nat,
         Covered(r, n), Book(r, n)
  PROVE  SpentIsCovered' /\ booked' \in [References -> Nat]
<1>0. Spent = SumOver(booked, References) /\ Spent' = SumOver(booked', References)
  <2>1. (Spent = SumOver(booked, References))'
    BY SpentIsSum, PTL
  <2>2. QED
    BY <2>1, SpentIsSum
<1>1. Weights(booked, References)
  BY FinitelyMany DEF Weights
<1>2. CASE booked[r] > 0
  BY <1>0, <1>2 DEF Book, SpentIsCovered
<1>3. CASE ~(booked[r] > 0)
  <2>1. booked[r] = 0 /\ booked' = [booked EXCEPT ![r] = n]
    BY <1>3 DEF Book
  <2>2. SumOver(booked', References) = SumOver(booked, References) - booked[r] + booked'[r]
    <3>1. booked'[r] = n /\ \A q \in References \ {r} : booked'[q] = booked[q]
      BY <2>1
    <3>2. QED
      BY <1>1, <3>1, SumUpdate
  <2>3. SumOver(booked, References) \in Int
    BY <1>1, SumInt
  <2>4. n <= Funds - Spent
    BY <1>3 DEF Covered, Left
  <2>5. QED
    BY <1>0, <2>1, <2>2, <2>3, <2>4, ReferencesAreNats DEF SpentIsCovered
<1>4. QED
  BY <1>2, <1>3

LEMMA SpentStill == ASSUME SpentIsCovered, UNCHANGED booked PROVE SpentIsCovered'
<1>1. (Spent = SumOver(booked, References))'
  BY SpentIsSum, PTL
<1>2. QED
  BY <1>1, SpentIsSum DEF SpentIsCovered

(***************************************************************************)
(* The material trade.                                                     *)
(***************************************************************************)
\* What a step of the trade leaves alone, and what it may only add to.
TradeKeeps ==
  /\ topic \in Trades /\ UNCHANGED <<amendVars, topic>>
  /\ \A o \in Orders : order[o].status # "none" => order'[o].status # "none"
  /\ \A r \in References : booked[r] > 0 => booked'[r] > 0

\* Others keep what they have read.
LEMMA TradeSessionKept ==
  ASSUME TradeInv, TradeKeeps, NEW s, TradeSession(s)
  PROVE  TradeSession(s)'
<1>1. \A o \in Orders : o \in References
  BY TradeRefs
<1>2. s.at \in UpdatePoints => s.id \in Orders
  BY DEF TradeSession, UpdateRead
<1>3. s.at \in OrderPoints => s.id \in Orders
  BY DEF TradeSession, OrderRead
<1>4. "writeOrder" \in UpdatePoints
  BY DEF UpdatePoints
<1>5. QED
  BY <1>1, <1>2, <1>3, <1>4 DEF TradeSession, TradeKeeps, UpdateRead, OrderRead

LEMMA AmendRowsStill == ASSUME TradeInv, TradeKeeps PROVE AmendRows'
BY AddendaAreRefs DEF TradeInv, AmendRows, TradeKeeps, amendVars, paper, hired, site, AmendTypeOK, HiredOK, AddendaKept,
   AddendumPaidIsBooked, OneStagePerChange, StockHasHistory

LEMMA TradeStep ==
  ASSUME TradeInv, TradeKeeps, NEW p \in Clients, NEW s, session' = [session EXCEPT ![p] = s],
         TradeSession(s)', TradeRows', SpentIsCovered', StockIsAccounted'
  PROVE  TradeInv'
<1>1. session' = [q \in Clients |-> session'[q]]
  BY DEF TradeInv, Sessions
<1>2. ASSUME NEW q \in Clients PROVE TradeSession(session[q])'
  <2>1. PICK t : t = session'[q]
    OBVIOUS
  <2>2. CASE q = p
    <3>1. t = s
      BY <2>1, <2>2 DEF TradeInv, Sessions
    <3>2. QED
      BY <2>1, <3>1 DEF TradeSession, UpdateRead, OrderRead
  <2>3. CASE q # p
    <3>1. t = session[q]
      BY <2>1, <2>3 DEF TradeInv, Sessions
    <3>2. TradeSession(t)
      BY <3>1 DEF TradeInv, Sessions, TradeKeeps
    <3>3. TradeSession(t)'
      BY <3>2, TradeSessionKept
    <3>4. QED
      BY <2>1, <3>3 DEF TradeSession, UpdateRead, OrderRead
  <2>4. QED
    BY <2>2, <2>3
<1>3. AmendRows'
  BY AmendRowsStill
<1>4. topic' \in Trades /\ topic' \notin Amends
  BY DEF TradeKeeps, Trades, Amends
<1>5. Sessions'
  BY <1>1, <1>2, <1>4 DEF Sessions
<1>6. QED
  BY <1>3, <1>4, <1>5 DEF TradeInv

\* A step that moves no stock and owes none.
LEMMA StockStill ==
  ASSUME TradeInv, NEW p \in Clients, NEW s, session' = [session EXCEPT ![p] = s],
         ~At(p, "move"), s.at # "move", UNCHANGED <<stock, lost>>,
         \A o \in Orders : order'[o].taken = order[o].taken
  PROVE  StockIsAccounted'
<1>1. \A q \in Clients \ {p} : session'[q] = session[q]
  BY DEF TradeInv, Sessions
<1>2. Due(p) = 0 /\ Due(p)' = 0
  BY DEF Due, At, TradeInv, Sessions
<1>3. MapThenSumSet(Due, Clients)' = MapThenSumSet(Due, Clients)
  <2>1. /\ MapThenSumSet(Due, Clients)' = MapThenSumSet(Due, Clients) - Due(p) + Due(p)'
        /\ MapThenSumSet(Due, Clients) \in Int
    BY <1>1, DueStep
  <2>2. QED
    BY <1>2, <2>1
<1>4. Holding' = Holding
  BY DEF Holding
<1>5. QED
  BY <1>3, <1>4 DEF StockIsAccounted, TradeInv

\* A request that only reads.
LEMMA TradeReads ==
  ASSUME TradeInv, TradeKeeps, NEW p \in Clients, NEW s, session' = [session EXCEPT ![p] = s],
         TradeSession(s), ~At(p, "move"), s.at # "move", UNCHANGED <<quote, order, job, goods, reviewed, booked, contested>>
  PROVE  TradeInv'
<1>1. TradeRows'
  BY DEF TradeInv, TradeRows, TradeTypeOK, OrdersKept, JobsKept, PaidHasRow, BookedInFull, goods
<1>2. SpentIsCovered'
  BY SpentStill DEF TradeInv
<1>3. StockIsAccounted'
  BY StockStill DEF goods
<1>4. QED
  BY <1>1, <1>2, <1>3, TradeSessionKept, TradeStep

TradeBegins(p) ==
  \/ BeginQuoteProof(p) \/ BeginMarkQuotePaid(p)
  \/ \E f \in Freights : BeginApproveQuote(p, f)
  \/ \E o \in Orders : \/ BeginOrderProof(p, o) \/ BeginMaterialProof(p, o) \/ BeginVerifyOrder(p, o)
                       \/ BeginConfirmReceipt(p, o) \/ BeginOrderReview(p, o)
                       \/ \E new \in OrderStatus : BeginUpdateOrder(p, o, new)
  \/ \E j \in Jobs, new \in JobStatus : BeginJobStatus(p, j, new)

LEMMA TradeBegin ==
  ASSUME TradeInv, NEW p \in Clients, topic \in Trades, UNCHANGED <<amendVars, topic>>, TradeBegins(p)
  PROVE  TradeInv'
<1>1. /\ UNCHANGED <<quote, order, job, goods, reviewed, booked, contested>>
      /\ ~At(p, "move")
  BY DEF TradeBegins, BeginQuoteProof, BeginMarkQuotePaid, BeginApproveQuote, BeginOrderProof, BeginMaterialProof,
       BeginVerifyOrder, BeginConfirmReceipt, BeginOrderReview, BeginUpdateOrder, BeginJobStatus, Serve, At
<1>2. TradeKeeps
  BY <1>1 DEF TradeKeeps
<1>3. ASSUME NEW s, Serve(p, s), TradeSession(s), s.at # "move" PROVE TradeInv'
  BY <1>1, <1>2, <1>3, TradeReads DEF Serve
<1> USE DEF OrderPoints, UpdatePoints
<1>4. CASE BeginQuoteProof(p)
  <2>1. TradeSession([at |-> "quoteProof"])
    BY DEF TradeSession
  <2>2. QED
    BY <2>1, <1>3, <1>4 DEF BeginQuoteProof
<1>5. CASE BeginMarkQuotePaid(p)
  <2>1. TradeSession([at |-> "quotePaid", amount |-> Goods + quote.ship])
    BY PricesAreNats DEF TradeSession, TradeInv, TradeRows, TradeTypeOK
  <2>2. QED
    BY <2>1, <1>3, <1>5 DEF BeginMarkQuotePaid
<1>6. ASSUME NEW f \in Freights, BeginApproveQuote(p, f) PROVE TradeInv'
  <2>1. TradeSession([at |-> "approve", ship |-> f])
    BY PricesAreNats DEF TradeSession
  <2>2. QED
    BY <2>1, <1>3, <1>6 DEF BeginApproveQuote
<1>7. ASSUME NEW o \in Orders, order[o].status # "none", NEW point \in OrderPoints
      PROVE  TradeSession([at |-> point, id |-> o])
  BY <1>7 DEF TradeSession, OrderRead
<1>8. ASSUME NEW o \in Orders, BeginOrderProof(p, o) \/ BeginMaterialProof(p, o) \/ BeginConfirmReceipt(p, o)
      PROVE  TradeInv'
  BY <1>3, <1>7, <1>8 DEF BeginOrderProof, BeginMaterialProof, BeginConfirmReceipt
<1>9. ASSUME NEW o \in Orders, BeginOrderReview(p, o) PROVE TradeInv'
  BY <1>3, <1>7, <1>9 DEF BeginOrderReview
<1>10. ASSUME NEW o \in Orders, BeginVerifyOrder(p, o) PROVE TradeInv'
  <2>1. TradeSession([at |-> "bookOrder", id |-> o, new |-> "paid", old |-> "paid"])
    BY <1>10 DEF TradeSession, UpdateRead, OrderStatus, BeginVerifyOrder
  <2>2. QED
    BY <2>1, <1>3, <1>10 DEF BeginVerifyOrder
<1>11. ASSUME NEW o \in Orders, NEW new \in OrderStatus, BeginUpdateOrder(p, o, new) PROVE TradeInv'
  <2>1. new # "none" /\ order[o].status # "none"
    BY <1>11 DEF BeginUpdateOrder, MayUpdate, supplierOrderTransitions
  <2>2. new = "paid" => booked[o] > 0
    BY <1>11 DEF BeginUpdateOrder, MayUpdate, supplierOrderTransitions, TradeInv, TradeRows, PaidHasRow, BookedInFull
  <2>3. order[o].status \in OrderStatus
    BY DEF TradeInv, TradeRows, TradeTypeOK, OrderRow
  <2>4. TradeSession([at |-> "writeOrder", id |-> o, new |-> new, old |-> order[o].status])
    BY <2>1, <2>2, <2>3 DEF TradeSession, UpdateRead
  <2>5. QED
    BY <2>4, <1>3, <1>11 DEF BeginUpdateOrder
<1>12. ASSUME NEW j \in Jobs, NEW new \in JobStatus, BeginJobStatus(p, j, new) PROVE TradeInv'
  <2>1. new \in Underway
    BY <1>12 DEF BeginJobStatus, logisticsNextStatus, Underway
  <2>2. TradeSession([at |-> "jobStatus", id |-> j, new |-> new])
    BY <2>1 DEF TradeSession
  <2>3. QED
    BY <2>2, <1>3, <1>12 DEF BeginJobStatus
<1>13. QED
  BY <1>4, <1>5, <1>6, <1>8, <1>9, <1>10, <1>11, <1>12 DEF TradeBegins

(***************************************************************************)
(* What the trade writes.                                                  *)
(***************************************************************************)
\* A set of ids has a smallest.
LEMMA MinIn == ASSUME NEW S \in SUBSET Nat, S # {} PROVE Min(S) \in S
<1>1. PICK s \in S : \A t \in S : <<t, s>> \notin OpToRel(<, Nat)
  BY NatLessThanWellFounded, WFMin
<1>2. ASSUME NEW t \in S PROVE s <= t
  <2>1. ~(t < s)
    BY <1>1 DEF OpToRel
  <2>2. QED
    BY <2>1
<1>3. QED
  BY <1>2 DEF Min

LEMMA StockStillAlone ==
  ASSUME StockIsAccounted, UNCHANGED <<session, stock, lost>>,
         \A o \in Orders : order'[o].taken = order[o].taken
  PROVE  StockIsAccounted'
<1>1. (MapThenSumSet(Due, Clients) = SumOver(Owed, Clients))'
  BY DueIsSum, PTL
<1>2. Owed' = Owed
  BY DEF Owed, Due, At
<1>3. Holding' = Holding
  BY DEF Holding
<1>4. QED
  BY <1>1, <1>2, <1>3, DueIsSum DEF StockIsAccounted

\* A step without a client: the requests under way read on.
LEMMA TradeStepAlone ==
  ASSUME TradeInv, TradeKeeps, UNCHANGED <<session, stock, lost>>,
         \A o \in Orders : order'[o].taken = order[o].taken, TradeRows', SpentIsCovered'
  PROVE  TradeInv'
<1>1. ASSUME NEW q \in Clients PROVE TradeSession(session[q])'
  <2>1. PICK t : t = session[q]
    OBVIOUS
  <2>2. TradeSession(t)'
    BY <2>1, TradeSessionKept DEF TradeInv, Sessions, TradeKeeps
  <2>3. QED
    BY <2>1, <2>2 DEF TradeSession, UpdateRead, OrderRead
<1>2. topic' \in Trades /\ topic' \notin Amends
  BY DEF TradeKeeps, Trades, Amends
<1>3. Sessions'
  BY <1>1, <1>2 DEF Sessions, TradeInv
<1>4. StockIsAccounted'
  BY StockStillAlone DEF TradeInv
<1>5. QED
  BY <1>2, <1>3, <1>4, AmendRowsStill DEF TradeInv

LEMMA IdleFits == TradeSession(Idle) /\ AmendSession(Idle)
BY DEF TradeSession, AmendSession, Idle, OrderPoints, UpdatePoints, RequestPoints, ChangePoints, DeletePoints

\* The last step of a request that moves no stock.
LEMMA TradeDone ==
  ASSUME TradeInv, TradeKeeps, NEW p \in Clients, Done(p), ~At(p, "move"), UNCHANGED <<stock, lost>>,
         \A o \in Orders : order'[o].taken = order[o].taken, TradeRows', SpentIsCovered'
  PROVE  TradeInv'
<1>1. PICK s : s = Idle
  OBVIOUS
<1>2. TradeSession(s)' /\ s.at # "move" /\ session' = [session EXCEPT ![p] = s]
  BY <1>1, IdleFits, TradeSessionKept DEF Done, Idle
<1>3. StockIsAccounted'
  BY <1>2, StockStill
<1>4. QED
  BY <1>2, <1>3, TradeStep

\* A request for an order goes on to its next statement.
LEMMA TradeGoes ==
  ASSUME TradeInv, TradeKeeps, NEW p \in Clients, NEW point \in UpdatePoints \ {"bookOrder"},
         session[p].at \in UpdatePoints, To(p, point),
         point = "writeOrder" /\ session[p].new = "paid" => booked'[session[p].id] > 0,
         TradeRows', SpentIsCovered', StockIsAccounted'
  PROVE  TradeInv'
<1>1. PICK s : s = [session[p] EXCEPT !.at = point]
  OBVIOUS
<1>2. session' = [session EXCEPT ![p] = s]
  BY <1>1 DEF To
<1>3. UpdateRead(session[p]) /\ order[session[p].id].status # "none"
  BY DEF TradeInv, Sessions, TradeSession, TradeKeeps
<1>4. UpdateRead(s) /\ s.at = point /\ s.id = session[p].id /\ s.new = session[p].new
  BY <1>1, <1>3 DEF UpdateRead
<1>5. order'[s.id].status # "none"
  BY <1>3, <1>4 DEF TradeKeeps, UpdateRead
<1>6. TradeSession(s)'
  BY <1>4, <1>5 DEF TradeSession, UpdateRead, OrderPoints, UpdatePoints
<1>7. QED
  BY <1>2, <1>6, TradeStep


\* One row of an order is written: a new order, or one that keeps its total.
LEMMA OrderWrites ==
  ASSUME TradeInv, NEW o \in Orders, NEW row \in OrderRow, order' = [order EXCEPT ![o] = row], UNCHANGED booked,
         quote' = quote \/ quote'.status # "paid",
         row.status # "none", row.price > 0, order[o].status = "none" \/ row.price = order[o].price,
         row.status = "paid" => booked[o] > 0
  PROVE  OrdersKept' /\ PaidHasRow' /\ BookedInFull'
<1>1. order'[o] = row /\ \A x \in Orders : x # o => order'[x] = order[x]
  BY DEF TradeInv, TradeRows, TradeTypeOK
<1>2. OrdersKept /\ PaidHasRow /\ BookedInFull
  BY DEF TradeInv, TradeRows
<1>3. booked[o] > 0 => booked[o] >= row.price
  BY <1>2 DEF BookedInFull
<1>4. OrdersKept'
  BY <1>1, <1>2 DEF OrdersKept
<1>5. PaidHasRow'
  BY <1>1, <1>2 DEF PaidHasRow
<1>6. BookedInFull'
  BY <1>1, <1>2, <1>3 DEF BookedInFull
<1>7. QED
  BY <1>4, <1>5, <1>6

TradeQuotes(p) ==
  \/ StoreQuoteProof(p) \/ MarkQuotePaid(p) \/ AdvanceQuote(p)
  \/ \E courier \in BOOLEAN : ApproveQuote(p, courier)

LEMMA TradeQuote ==
  ASSUME TradeInv, NEW p \in Clients, topic \in Trades, UNCHANGED <<amendVars, topic>>, TradeQuotes(p)
  PROVE  TradeInv'
<1>1. /\ Done(p) /\ ~At(p, "move") /\ UNCHANGED <<stock, lost, onSite, cancels, reviewed, contested>>
  BY DEF TradeQuotes, StoreQuoteProof, MarkQuotePaid, AdvanceQuote, ApproveQuote, goods, At
<1>2. TradeSession(session[p])
  BY DEF TradeInv, Sessions
<1>3. CASE StoreQuoteProof(p) \/ AdvanceQuote(p)
  <2>1. UNCHANGED <<order, job, booked>>
    BY <1>3 DEF StoreQuoteProof, AdvanceQuote
  <2>2. TradeKeeps
    BY <2>1 DEF TradeKeeps
  <2>3. TradeRows'
    BY <1>1, <1>3, <2>1 DEF TradeInv, TradeRows, TradeTypeOK, OrdersKept, JobsKept,
         PaidHasRow, BookedInFull, StoreQuoteProof,
         AdvanceQuote, QuoteStatus
  <2>4. QED
    BY <1>1, <2>1, <2>2, <2>3, SpentStill, TradeDone DEF TradeInv
<1>4. CASE MarkQuotePaid(p)
  <2>1. UNCHANGED <<order, job>> /\ session[p].amount \in Nat \ {0} /\ session[p].amount >= Goods
    BY <1>2, <1>4, PricesAreNats DEF MarkQuotePaid, TradeSession, At
  <2>2. 0 \in References /\ booked \in [References -> Nat]
    BY TradeRefs DEF TradeInv, TradeRows, TradeTypeOK
  <2>3. CASE Payable(0, session[p].amount)
    <3>1. Book(0, session[p].amount) /\ Covered(0, session[p].amount) /\ quote' = [quote EXCEPT !.status = "paid"]
      BY <1>4, <2>3 DEF MarkQuotePaid, Payable
    <3>2. SpentIsCovered' /\ booked' \in [References -> Nat]
      BY <2>1, <2>2, <3>1, BookFits DEF TradeInv
    <3>3. /\ booked'[0] > 0 /\ \A r \in References : booked[r] > 0 => booked'[r] > 0
          /\ (booked[0] > 0 => booked'[0] = booked[0]) /\ (~(booked[0] > 0) => booked'[0] >= Goods)
          /\ \A o \in Orders : booked'[o] = booked[o]
      BY <2>1, <2>2, <3>1, TradeRefs, OrderIds DEF Book
    <3>4. TradeKeeps
      BY <2>1, <3>3 DEF TradeKeeps
    <3>5. TradeRows'
      BY <1>1, <2>1, <3>1, <3>2, <3>3, TradeRefs DEF TradeInv, TradeRows, TradeTypeOK, OrdersKept, JobsKept,
           PaidHasRow, BookedInFull, QuoteStatus
    <3>6. QED
      BY <1>1, <2>1, <3>2, <3>4, <3>5, TradeDone
  <2>4. CASE ~Payable(0, session[p].amount)
    <3>1. UNCHANGED <<quote, booked>>
      BY <1>4, <2>4 DEF MarkQuotePaid
    <3>2. TradeKeeps /\ TradeRows'
      BY <1>1, <2>1, <3>1 DEF TradeKeeps, TradeInv, TradeRows, TradeTypeOK, OrdersKept, JobsKept,
           PaidHasRow, BookedInFull
    <3>3. QED
      BY <1>1, <2>1, <3>1, <3>2, SpentStill, TradeDone DEF TradeInv
  <2>5. QED
    BY <2>3, <2>4
<1>5. ASSUME NEW courier \in BOOLEAN, ApproveQuote(p, courier) PROVE TradeInv'
  <2>0. UNCHANGED booked
    BY <1>5 DEF ApproveQuote
  <2>1. CASE quote.status = "approved"
    <3>1. UNCHANGED <<quote, order, job>>
      BY <1>5, <2>1 DEF ApproveQuote
    <3>2. TradeKeeps /\ TradeRows'
      BY <1>1, <2>0, <3>1 DEF TradeKeeps, TradeInv, TradeRows, TradeTypeOK, OrdersKept, JobsKept,
           PaidHasRow, BookedInFull
    <3>3. QED
      BY <1>1, <2>0, <3>1, <3>2, SpentStill, TradeDone DEF TradeInv
  <2>2. CASE quote.status # "approved"
    <3> DEFINE o == Min(Unused(order, Orders))
               j == Min(Unused(job, Jobs))
               row == [NoOrder EXCEPT !.status = "pending", !.ship = session[p].ship,
                                      !.price = Goods + session[p].ship]
    <3>1. o \in Orders /\ order[o].status = "none"
      <4>1. Unused(order, Orders) \in SUBSET Nat /\ Unused(order, Orders) # {}
        BY <1>5, OrderIds DEF ApproveQuote, Unused
      <4>2. QED
        BY <4>1, MinIn DEF Unused
    <3>2. courier => j \in Jobs
      <4>1. courier => Unused(job, Jobs) \in SUBSET Nat /\ Unused(job, Jobs) # {}
        BY <1>5, OrderIds DEF ApproveQuote, Unused
      <4>2. QED
        BY <4>1, MinIn DEF Unused
    <3>3. row \in OrderRow /\ row.price > 0 /\ row.status = "pending" /\ ~row.taken
      <4>1. session[p].ship \in Nat
        BY <1>2, <1>5 DEF ApproveQuote, TradeSession, At
      <4>2. NoOrder \in OrderRow /\ ~NoOrder.taken
        BY DEF NoOrder, OrderRow, OrderStatus
      <4>3. Goods + session[p].ship \in Nat /\ Goods + session[p].ship > 0
        BY <4>1, PricesAreNats
      <4>4. QED
        BY <4>1, <4>2, <4>3 DEF OrderRow, OrderStatus
    <3>4. /\ quote' = [quote EXCEPT !.status = "approved"]
          /\ order' = [order EXCEPT ![o] = row]
          /\ \/ job' = job
             \/ courier /\ job' = [job EXCEPT ![j] = [status |-> "pending", order |-> o, courier |-> NoOne]]
      BY <1>5, <2>2 DEF ApproveQuote, NewJob
    <3> HIDE DEF o, j, row
    <3>5. TradeKeeps
      BY <2>0, <3>3, <3>4 DEF TradeKeeps, TradeInv, TradeRows, TradeTypeOK
    <3>6. \A x \in Orders : order'[x].taken = order[x].taken
      <4>1. ~order[o].taken /\ order[o].taken \in BOOLEAN /\ row.taken = FALSE
        BY <3>1, <3>3 DEF TradeInv, TradeRows, TradeTypeOK, OrdersKept, OrderRow
      <4>2. QED
        BY <3>1, <3>4, <4>1 DEF TradeInv, TradeRows, TradeTypeOK
    <3>7. TradeTypeOK'
      BY <1>1, <2>0, <3>1, <3>2, <3>3, <3>4 DEF TradeInv, TradeRows, TradeTypeOK, QuoteStatus, JobStatus, Refs
    <3>8. OrdersKept' /\ JobsKept' /\ PaidHasRow' /\ BookedInFull'
      <4>1. quote'.status # "paid"
        BY <3>4 DEF TradeInv, TradeRows, TradeTypeOK
      <4>2. OrdersKept' /\ PaidHasRow' /\ BookedInFull'
        BY <2>0, <3>1, <3>3, <3>4, <4>1, OrderWrites
      <4>3. JobsKept'
        BY <3>2, <3>4 DEF TradeInv, TradeRows, TradeTypeOK, JobsKept
      <4>4. QED
        BY <4>2, <4>3
    <3>9. QED
      BY <1>1, <2>0, <3>5, <3>6, <3>7, <3>8, SpentStill, TradeDone DEF TradeInv, TradeRows
  <2>3. QED
    BY <2>1, <2>2
<1>6. QED
  BY <1>3, <1>4, <1>5 DEF TradeQuotes

TradeOrders(p) ==
  \/ StoreOrderProof(p) \/ StoreMaterialProof(p) \/ ConfirmReceipt(p) \/ StoreOrderReview(p) \/ SyncArrived(p)

\* Writes by id to an order that was read: it is there, and it stays there.
LEMMA TradeOrder ==
  ASSUME TradeInv, NEW p \in Clients, topic \in Trades, UNCHANGED <<amendVars, topic>>, TradeOrders(p)
  PROVE  TradeInv'
<1> DEFINE o == session[p].id
<1>1. /\ ~At(p, "move") /\ UNCHANGED <<quote, job, stock, lost, onSite, cancels, booked, contested>>
      /\ session[p].at \in OrderPoints
  BY DEF TradeOrders, StoreOrderProof, StoreMaterialProof, ConfirmReceipt, StoreOrderReview, SyncArrived, goods, At,
         OrderPoints
<1>2. TradeSession(session[p]) /\ o \in Orders /\ order[o].status # "none"
  BY <1>1 DEF TradeInv, Sessions, TradeSession, OrderRead
<1>3. \E row \in OrderRow : /\ order' = [order EXCEPT ![o] = row]
                            /\ row.status \in {order[o].status, "verifying", "completed", "delivered"}
                            /\ row.taken = order[o].taken /\ row.price = order[o].price
  <2>1. order[o] \in OrderRow /\ order = [order EXCEPT ![o] = order[o]]
    BY <1>2 DEF TradeInv, TradeRows, TradeTypeOK
  <2>2. CASE StoreOrderProof(p)
    <3>1. order' = [order EXCEPT ![o] = [order[o] EXCEPT !.proof = TRUE]]
      BY <2>2 DEF StoreOrderProof
    <3> DEFINE row == [order[o] EXCEPT !.proof = TRUE]
    <3>2. row \in OrderRow /\ row.status = order[o].status /\ row.taken = order[o].taken /\ row.price = order[o].price
      BY <2>1 DEF OrderRow
    <3> HIDE DEF row
    <3>3. QED
      BY <3>1, <3>2 DEF row
  <2>3. CASE StoreMaterialProof(p)
    <3>1. \/ order' = order
          \/ order' = [order EXCEPT ![o] = [order[o] EXCEPT !.status = "verifying", !.proof = TRUE]]
      BY <2>3, <2>1, <1>2 DEF StoreMaterialProof, TradeInv, TradeRows, TradeTypeOK
    <3> DEFINE row == [order[o] EXCEPT !.status = "verifying", !.proof = TRUE]
    <3>2. row \in OrderRow /\ row.status = "verifying" /\ row.taken = order[o].taken /\ row.price = order[o].price
      BY <2>1 DEF OrderRow, OrderStatus
    <3>3. order' = [order EXCEPT ![o] = order[o]] \/ order' = [order EXCEPT ![o] = row]
      BY <2>1, <3>1
    <3> HIDE DEF row
    <3>4. CASE order' = [order EXCEPT ![o] = order[o]]
      BY <2>1, <3>4
    <3>5. CASE order' = [order EXCEPT ![o] = row]
      BY <3>2, <3>5
    <3>6. QED
      BY <3>3, <3>4, <3>5
  <2>4. CASE ConfirmReceipt(p)
    <3>1. order' = [order EXCEPT ![o] = [order[o] EXCEPT !.status = "completed"]]
      BY <2>4 DEF ConfirmReceipt, SetOrder
    <3> DEFINE row == [order[o] EXCEPT !.status = "completed"]
    <3>2. row \in OrderRow /\ row.status = "completed" /\ row.taken = order[o].taken /\ row.price = order[o].price
      BY <2>1 DEF OrderRow, OrderStatus
    <3> HIDE DEF row
    <3>3. QED
      BY <3>1, <3>2 DEF row
  <2>5. CASE SyncArrived(p)
    <3>1. order' = [order EXCEPT ![o] = [order[o] EXCEPT !.status = "delivered"]]
      BY <2>5 DEF SyncArrived, SetOrder
    <3> DEFINE row == [order[o] EXCEPT !.status = "delivered"]
    <3>2. row \in OrderRow /\ row.status = "delivered" /\ row.taken = order[o].taken /\ row.price = order[o].price
      BY <2>1 DEF OrderRow, OrderStatus
    <3> HIDE DEF row
    <3>3. QED
      BY <3>1, <3>2 DEF row
  <2>6. CASE StoreOrderReview(p)
    BY <2>1, <2>6 DEF StoreOrderReview
  <2>7. QED
    BY <2>2, <2>3, <2>4, <2>5, <2>6 DEF TradeOrders
<1>4. PICK row \in OrderRow : /\ order' = [order EXCEPT ![o] = row]
                              /\ row.status \in {order[o].status, "verifying", "completed", "delivered"}
                              /\ row.taken = order[o].taken /\ row.price = order[o].price
  BY <1>3
<1>5. reviewed' \subseteq Orders
  BY <1>2 DEF TradeOrders, StoreOrderProof, StoreMaterialProof, ConfirmReceipt, StoreOrderReview, SyncArrived,
              TradeInv, TradeRows, TradeTypeOK
<1>6. TradeKeeps /\ \A x \in Orders : order'[x].taken = order[x].taken
  BY <1>1, <1>2, <1>4 DEF TradeKeeps, TradeInv, TradeRows, TradeTypeOK
<1>7. TradeRows'
  BY <1>1, <1>2, <1>4, <1>5 DEF TradeInv, TradeRows, TradeTypeOK, OrdersKept, JobsKept, PaidHasRow, BookedInFull
<1>8. CASE SyncArrived(p)
  <2>1. PICK s : s = [session[p] EXCEPT !.at = "review"]
    OBVIOUS
  <2>2. session' = [session EXCEPT ![p] = s]
    BY <1>8, <2>1 DEF SyncArrived, To
  <2>3. OrderRead(session[p])
    BY <1>1, <1>2 DEF TradeSession
  <2>4. OrderRead(s) /\ s.at = "review" /\ s.id = o
    BY <2>1, <2>3 DEF OrderRead, OrderPoints
  <2>5. TradeSession(s)
    BY <1>2, <2>4 DEF TradeSession, OrderPoints, UpdatePoints
  <2>6. TradeSession(s)' /\ StockIsAccounted'
    BY <1>1, <1>6, <2>2, <2>4, <2>5, TradeSessionKept, StockStill
  <2>7. QED
    BY <1>1, <1>6, <1>7, <2>2, <2>6, SpentStill, TradeStep DEF TradeInv
<1>9. CASE ~SyncArrived(p)
  <2>1. Done(p)
    BY <1>9 DEF TradeOrders, StoreOrderProof, StoreMaterialProof, ConfirmReceipt, StoreOrderReview
  <2>2. QED
    BY <1>1, <1>6, <1>7, <2>1, SpentStill, TradeDone DEF TradeInv
<1>10. QED
  BY <1>8, <1>9

(***************************************************************************)
(* Updates of an order: the booking, the status, the site and the stock.   *)
(***************************************************************************)
LEMMA HoldingIsFinite == IsFiniteSet(Holding) /\ Cardinality(Holding) \in Nat
BY FinitelyMany, TradeRefs, FS_Subset, FS_CardinalityType DEF Holding

\* A request goes on, and moves no stock yet.
LEMMA StockStillTo ==
  ASSUME TradeInv, NEW p \in Clients, NEW point, To(p, point), ~At(p, "move"), point # "move", UNCHANGED <<stock, lost>>,
         session[p].at \in UpdatePoints, topic \in Trades, \A o \in Orders : order'[o].taken = order[o].taken
  PROVE  StockIsAccounted'
<1>1. PICK s : s = [session[p] EXCEPT !.at = point]
  OBVIOUS
<1>2. UpdateRead(session[p])
  BY DEF TradeInv, Sessions, TradeSession
<1>3. session' = [session EXCEPT ![p] = s] /\ s.at = point
  BY <1>1, <1>2 DEF To, UpdateRead
<1>4. QED
  BY <1>3, StockStill

\* A request ends: what it owed the stock is moved, or lost.
LEMMA StockSettled ==
  ASSUME TradeInv, NEW p \in Clients, Done(p), UNCHANGED order,
         \/ stock' = stock - Due(p) /\ lost' = lost
         \/ stock' = stock /\ lost' = lost + Due(p)
  PROVE  StockIsAccounted'
<1>1. /\ MapThenSumSet(Due, Clients)' = MapThenSumSet(Due, Clients) - Due(p) + Due(p)'
      /\ MapThenSumSet(Due, Clients) \in Int
  <2>1. \A q \in Clients \ {p} : session'[q] = session[q]
    BY DEF Done, TradeInv, Sessions
  <2>2. QED
    BY <2>1, DueStep
<1>2. Due(p)' = 0
  BY DEF Due, At, Done, Idle, TradeInv, Sessions
<1>3. Due(p) \in Int /\ stock \in Int /\ lost \in Int /\ Lot * Cardinality(Holding) \in Int
  <2>1. Lot \in Int /\ Cardinality(Holding) \in Int
    BY HoldingIsFinite, PricesAreNats
  <2>2. QED
    BY <2>1, DueIsInt DEF TradeInv, TradeRows, TradeTypeOK
<1>4. Holding' = Holding
  BY DEF Holding
<1>5. stock = MapThenSumSet(Due, Clients) + lost - Lot * Cardinality(Holding)
  BY DEF TradeInv, StockIsAccounted
<1>6. stock' = MapThenSumSet(Due, Clients)' + lost' - Lot * Cardinality(Holding)
  <2> DEFINE held == Lot * Cardinality(Holding)
             m    == MapThenSumSet(Due, Clients)
             d    == Due(p)
  <2>0. m' = m - d + Due(p)' /\ m \in Int /\ d \in Int
    BY <1>1, <1>3
  <2>2. stock = m + lost - held /\ d \in Int /\ stock \in Int /\ lost \in Int /\ held \in Int
    BY <1>3, <1>5
  <2>3. (stock' = stock - d /\ lost' = lost) \/ (stock' = stock /\ lost' = lost + d)
    OBVIOUS
  <2> HIDE DEF held, m, d
  <2>1. m' = m - d
    BY <2>0, <1>2
  <2>4. stock' = m' + lost' - held
    BY <2>0, <2>1, <2>2, <2>3
  <2>5. QED
    BY <2>4 DEF held, m
<1>7. QED
  BY <1>4, <1>6 DEF StockIsAccounted

TradeUpdates(p) == BookOrder(p) \/ WriteOrder(p) \/ SyncSite(p) \/ ClaimStock(p) \/ MoveStock(p)

LEMMA TradeUpdate ==
  ASSUME TradeInv, NEW p \in Clients, topic \in Trades, UNCHANGED <<amendVars, topic>>, TradeUpdates(p)
  PROVE  TradeInv'
<1> DEFINE s == session[p]
<1>1. s.at \in UpdatePoints /\ UNCHANGED <<quote, job, lost, cancels, reviewed, contested>>
  BY DEF TradeUpdates, BookOrder, WriteOrder, SyncSite, ClaimStock, MoveStock, goods, At, UpdatePoints
<1>2. TradeSession(s) /\ UpdateRead(s) /\ order[s.id].status # "none"
  BY <1>1 DEF TradeInv, Sessions, TradeSession
<1>3. s.id \in Orders /\ s.id \in References /\ s.new \in OrderStatus \ {"none"} /\ order[s.id] \in OrderRow
  BY <1>2, TradeRefs DEF UpdateRead, TradeInv, TradeRows, TradeTypeOK
<1>4. CASE BookOrder(p)
  <2>1. UNCHANGED <<order, stock, onSite>> /\ s.at = "bookOrder" /\ s.new = "paid"
    BY <1>2, <1>4 DEF BookOrder, goods, At, TradeSession
  <2>2. order[s.id].price \in Nat \ {0} /\ booked \in [References -> Nat]
    BY <1>2, <1>3 DEF TradeInv, TradeRows, TradeTypeOK, OrderRow, OrdersKept
  <2>3. CASE Payable(s.id, order[s.id].price)
    <3>1. Book(s.id, order[s.id].price) /\ Covered(s.id, order[s.id].price) /\ To(p, "writeOrder")
      BY <1>4, <2>3 DEF BookOrder, Payable
    <3>2. SpentIsCovered' /\ booked' \in [References -> Nat]
      BY <1>3, <2>2, <3>1, BookFits DEF TradeInv
    <3>3. /\ booked'[s.id] > 0 /\ \A r \in References : booked[r] > 0 => booked'[r] > 0
          /\ \A r \in References : booked'[r] = booked[r] \/ (r = s.id /\ booked'[r] = order[s.id].price)
      BY <1>3, <2>2, <3>1, BookWrites
    <3>4. TradeKeeps
      BY <2>1, <3>3 DEF TradeKeeps
    <3>5. TradeRows'
      <4>1. TradeTypeOK' /\ OrdersKept' /\ JobsKept'
        BY <1>1, <2>1, <3>2 DEF TradeInv, TradeRows, TradeTypeOK, OrdersKept, JobsKept
      <4>2. PaidHasRow'
        <5>1. 0 \in References /\ Orders \subseteq References
          BY TradeRefs
        <5>2. \A r \in References : booked[r] > 0 => booked'[r] > 0
          BY <3>3
        <5>3. PaidHasRow
          BY DEF TradeInv, TradeRows
        <5>4. QED
          BY <1>1, <2>1, <5>1, <5>2, <5>3 DEF PaidHasRow
      <4>3. BookedInFull'
        <5>1. booked'[0] = booked[0] /\ 0 \in References
          BY <1>3, <3>3, TradeRefs, OrderIds
        <5>2. booked[0] > 0 => booked[0] >= Goods
          BY DEF TradeInv, TradeRows, BookedInFull
        <5>3. ASSUME NEW o \in Orders, booked'[o] > 0
              PROVE  order[o].status # "none" /\ booked'[o] >= order[o].price
          <6>1. CASE o = s.id /\ booked'[o] = order[o].price
            BY <1>2, <2>2, <6>1
          <6>2. CASE booked'[o] = booked[o]
            BY <5>3, <6>2 DEF TradeInv, TradeRows, BookedInFull
          <6>3. QED
            BY <3>3, <6>1, <6>2, TradeRefs
        <5>4. QED
          BY <2>1, <5>1, <5>2, <5>3 DEF BookedInFull
      <4>4. QED
        BY <4>1, <4>2, <4>3 DEF TradeRows
    <3>6. StockIsAccounted'
      BY <1>1, <2>1, <3>1, StockStillTo DEF At
    <3>7. "writeOrder" \in UpdatePoints \ {"bookOrder"}
      BY DEF UpdatePoints
    <3>8. QED
      BY <1>1, <3>1, <3>2, <3>3, <3>4, <3>5, <3>6, <3>7, TradeGoes
  <2>4. CASE ~Payable(s.id, order[s.id].price)
    <3>1. UNCHANGED booked /\ Done(p)
      BY <1>4, <2>4 DEF BookOrder
    <3>2. TradeKeeps /\ TradeRows'
      BY <1>1, <2>1, <3>1 DEF TradeKeeps, TradeInv, TradeRows, TradeTypeOK, OrdersKept, JobsKept,
           PaidHasRow, BookedInFull
    <3>3. QED
      BY <1>1, <2>1, <3>1, <3>2, SpentStill, TradeDone DEF TradeInv, At
  <2>5. QED
    BY <2>3, <2>4
<1>5. CASE WriteOrder(p)
  <2>1. /\ UNCHANGED <<stock, onSite, booked>> /\ s.at = "writeOrder"
        /\ order' = [order EXCEPT ![s.id] = [order[s.id] EXCEPT !.status = s.new]]
    BY <1>5 DEF WriteOrder, SetOrder, goods, At
  <2>2. PICK point \in {"site", "claim"} : To(p, point)
    BY <1>5 DEF WriteOrder
  <2> DEFINE row == [order[s.id] EXCEPT !.status = s.new]
  <2>3. row \in OrderRow /\ row.status = s.new /\ row.taken = order[s.id].taken /\ row.price = order[s.id].price
    BY <1>3 DEF OrderRow
  <2>4. order' = [order EXCEPT ![s.id] = row]
    BY <2>1
  <2> HIDE DEF row
  <2>5. TradeKeeps /\ \A x \in Orders : order'[x].taken = order[x].taken
    BY <1>3, <2>1, <2>3, <2>4 DEF TradeKeeps, TradeInv, TradeRows, TradeTypeOK
  <2>6. s.new = "paid" => booked[s.id] > 0
    BY <1>2, <2>1 DEF TradeSession
  <2>7. TradeRows'
    <3>1. row.price > 0 /\ row.status # "none"
      BY <1>2, <1>3, <2>3 DEF TradeInv, TradeRows, OrdersKept
    <3>2. OrdersKept' /\ PaidHasRow' /\ BookedInFull'
      BY <1>1, <1>3, <2>1, <2>3, <2>4, <2>6, <3>1, OrderWrites
    <3>3. TradeTypeOK'
      BY <1>1, <1>3, <2>1, <2>3, <2>4 DEF TradeInv, TradeRows, TradeTypeOK
    <3>4. JobsKept'
      BY <1>1 DEF TradeInv, TradeRows, JobsKept
    <3>5. QED
      BY <3>2, <3>3, <3>4 DEF TradeRows
  <2>8. StockIsAccounted'
    BY <1>1, <2>1, <2>2, <2>5, StockStillTo DEF At
  <2>9. point \in UpdatePoints \ {"bookOrder"} /\ point # "writeOrder"
    BY <2>2 DEF UpdatePoints
  <2>10. QED
    BY <1>1, <2>1, <2>2, <2>5, <2>7, <2>8, <2>9, SpentStill, TradeGoes DEF TradeInv
<1>6. CASE SyncSite(p)
  <2>1. /\ UNCHANGED <<order, stock, booked>> /\ s.at = "site" /\ To(p, "claim")
        /\ onSite' = onSite + Lot /\ onSite + Lot <= MaxOnSite
    BY <1>6 DEF SyncSite, At
  <2>2. onSite' \in 0..MaxOnSite
    BY <2>1, PricesAreNats, BoundsAreNats DEF TradeInv, TradeRows, TradeTypeOK
  <2>3. TradeKeeps /\ TradeRows'
    BY <1>1, <2>1, <2>2 DEF TradeKeeps, TradeInv, TradeRows, TradeTypeOK, OrdersKept, JobsKept, PaidHasRow, BookedInFull
  <2>4. StockIsAccounted'
    BY <1>1, <2>1, StockStillTo DEF At
  <2>5. "claim" \in UpdatePoints \ {"bookOrder"}
    BY DEF UpdatePoints
  <2>6. QED
    BY <1>1, <2>1, <2>3, <2>4, <2>5, SpentStill, TradeGoes DEF TradeInv
<1>7. CASE ClaimStock(p)
  <2> DEFINE take == s.new # "cancelled"
  <2>1. UNCHANGED <<stock, onSite, booked>> /\ s.at = "claim"
    BY <1>7 DEF ClaimStock, goods, At
  <2>2. CASE order[s.id].taken = take
    <3>1. Done(p) /\ UNCHANGED order
      BY <1>7, <2>2 DEF ClaimStock
    <3>2. TradeKeeps /\ TradeRows'
      BY <1>1, <2>1, <3>1 DEF TradeKeeps, TradeInv, TradeRows, TradeTypeOK, OrdersKept, JobsKept,
           PaidHasRow, BookedInFull
    <3>3. QED
      BY <1>1, <2>1, <3>1, <3>2, SpentStill, TradeDone DEF TradeInv, At
  <2>3. CASE order[s.id].taken # take
    <3> DEFINE row == [order[s.id] EXCEPT !.taken = take]
    <3>1. order' = [order EXCEPT ![s.id] = row] /\ To(p, "move")
      BY <1>7, <2>3 DEF ClaimStock
    <3>2. row \in OrderRow /\ row.status = order[s.id].status /\ row.taken = take /\ row.price = order[s.id].price
      BY <1>3 DEF OrderRow
    <3> HIDE DEF row
    <3>3. TradeKeeps
      BY <1>3, <2>1, <3>1, <3>2 DEF TradeKeeps, TradeInv, TradeRows, TradeTypeOK
    <3>4. TradeRows'
      BY <1>1, <1>2, <1>3, <2>1, <3>1, <3>2 DEF TradeInv, TradeRows, TradeTypeOK, OrdersKept, JobsKept,
           PaidHasRow, BookedInFull
    <3>5. StockIsAccounted'
      <4>1. /\ MapThenSumSet(Due, Clients)' = MapThenSumSet(Due, Clients) - Due(p) + Due(p)'
            /\ MapThenSumSet(Due, Clients) \in Int
        <5>1. \A q \in Clients \ {p} : session'[q] = session[q]
          BY <3>1 DEF To, TradeInv, Sessions
        <5>2. QED
          BY <5>1, DueStep
      <4>2. Due(p) = 0 /\ Due(p)' = IF take THEN Lot ELSE -Lot
        <5>1. session'[p] = [s EXCEPT !.at = "move"]
          BY <3>1 DEF To, TradeInv, Sessions
        <5>2. session'[p].at = "move" /\ session'[p].new = s.new
          BY <1>2, <5>1 DEF UpdateRead
        <5>3. QED
          BY <2>1, <5>2 DEF Due, At
      <4>3. IsFiniteSet(Holding) /\ Cardinality(Holding) \in Nat
        BY HoldingIsFinite
      <4>4. \A x \in Orders : order'[x] = IF x = s.id THEN row ELSE order[x]
        BY <3>1 DEF TradeInv, TradeRows, TradeTypeOK
      <4>5. Cardinality(Holding)' = IF take THEN Cardinality(Holding) + 1 ELSE Cardinality(Holding) - 1
        <5>1. CASE take
          <6>1. s.id \notin Holding /\ Holding' = Holding \cup {s.id}
            BY <1>3, <2>3, <3>2, <4>4, <5>1 DEF Holding, OrderRow
          <6>2. QED
            BY <4>3, <5>1, <6>1, FS_AddElement
        <5>2. CASE ~take
          <6>1. s.id \in Holding /\ Holding' = Holding \ {s.id}
            BY <1>3, <2>3, <3>2, <4>4, <5>2 DEF Holding, OrderRow
          <6>2. QED
            BY <4>3, <5>2, <6>1, FS_RemoveElement
        <5>3. QED
          BY <5>1, <5>2
      <4>6. stock \in Int /\ lost \in Int /\ Lot \in Int
        BY PricesAreNats DEF TradeInv, TradeRows, TradeTypeOK
      <4> DEFINE n == Cardinality(Holding)
                 m == MapThenSumSet(Due, Clients)
      <4>7. stock = m + lost - Lot * n
        BY DEF TradeInv, StockIsAccounted
      <4>8. stock' = m' + lost' - Lot * n'
        <5> HIDE DEF n, m, take
        <5>1. m' = m + (IF take THEN Lot ELSE -Lot) /\ m \in Int
          BY <4>1, <4>2, <4>6 DEF m
        <5>2. n' = (IF take THEN n + 1 ELSE n - 1) /\ n \in Int
          BY <4>3, <4>5 DEF n
        <5>3. Lot * n' = Lot * n + (IF take THEN Lot ELSE -Lot)
          BY <4>6, <5>2
        <5>4. Lot * n \in Int
          BY <4>6, <5>2
        <5>5. QED
          BY <1>1, <2>1, <4>6, <4>7, <5>1, <5>3, <5>4
      <4>9. QED
        BY <4>8 DEF StockIsAccounted
    <3>6. "move" \in UpdatePoints \ {"bookOrder"}
      BY DEF UpdatePoints
    <3>7. QED
      BY <1>1, <2>1, <3>1, <3>3, <3>4, <3>5, <3>6, SpentStill, TradeGoes DEF TradeInv
  <2>4. QED
    BY <2>2, <2>3
<1>8. CASE MoveStock(p)
  <2>1. UNCHANGED <<order, onSite, booked>> /\ stock' = stock - Due(p) /\ Done(p)
    BY <1>8 DEF MoveStock
  <2>2. Due(p) \in Int /\ stock \in Int /\ lost \in Int
    BY DueIsInt DEF TradeInv, TradeRows, TradeTypeOK
  <2>3. TradeKeeps /\ TradeRows'
    BY <1>1, <2>1, <2>2 DEF TradeKeeps, TradeInv, TradeRows, TradeTypeOK, OrdersKept, JobsKept, PaidHasRow, BookedInFull
  <2>4. StockIsAccounted'
    BY <1>1, <2>1, <2>2, StockSettled
  <2>5. PICK t : t = Idle
    OBVIOUS
  <2>6. TradeSession(t)' /\ session' = [session EXCEPT ![p] = t]
    BY <2>1, <2>3, <2>5, IdleFits, TradeSessionKept DEF Done
  <2>7. QED
    BY <2>1, <2>3, <2>4, <2>6, SpentStill, TradeStep DEF TradeInv
<1>9. QED
  BY <1>4, <1>5, <1>6, <1>7, <1>8 DEF TradeUpdates

(***************************************************************************)
(* The jobs of the couriers, and the steps without a client.               *)
(***************************************************************************)
LEMMA TradeCourier ==
  ASSUME TradeInv, NEW p \in Clients, topic \in Trades, UNCHANGED <<amendVars, topic>>,
         WriteJobStatus(p) \/ \E j \in Jobs, c \in Couriers : AcceptJob(p, j, c)
  PROVE  TradeInv'
<1>1. UNCHANGED <<quote, order, stock, onSite, lost, cancels, reviewed, booked, contested>> /\ ~At(p, "move")
  BY DEF WriteJobStatus, AcceptJob, goods, At, Serve
<1>2. TradeKeeps
  BY <1>1 DEF TradeKeeps
<1>3. ASSUME NEW j \in Jobs, NEW c \in Couriers, AcceptJob(p, j, c) PROVE TradeInv'
  <2>1. PICK s : s = [at |-> "advance", id |-> j]
    OBVIOUS
  <2>2. session' = [session EXCEPT ![p] = s] /\ s.at # "move"
    BY <1>3, <2>1 DEF AcceptJob, Serve
  <2>3. TradeSession(s)'
    BY <2>1 DEF TradeSession, OrderPoints, UpdatePoints
  <2> DEFINE row == [job[j] EXCEPT !.status = "accepted", !.courier = c]
  <2>4. row \in [status : JobStatus, order : Refs, courier : Couriers \cup {NoOne}] /\ row.status = "accepted"
    BY DEF TradeInv, TradeRows, TradeTypeOK, JobStatus
  <2>5. job' = [job EXCEPT ![j] = row]
    BY <1>3 DEF AcceptJob
  <2> HIDE DEF row
  <2>6. TradeRows'
    BY <1>1, <2>4, <2>5 DEF TradeInv, TradeRows, TradeTypeOK, OrdersKept, JobsKept, PaidHasRow, BookedInFull, Refs
  <2>7. StockIsAccounted'
    BY <1>1, <2>2, StockStill
  <2>8. QED
    BY <1>1, <1>2, <2>2, <2>3, <2>6, <2>7, SpentStill, TradeStep DEF TradeInv
<1>4. CASE WriteJobStatus(p)
  <2> DEFINE j   == session[p].id
             row == [job[j] EXCEPT !.status = session[p].new]
  <2>1. j \in Jobs /\ session[p].new \in Underway
    BY <1>4 DEF WriteJobStatus, At, TradeInv, Sessions, TradeSession
  <2>2. row \in [status : JobStatus, order : Refs, courier : Couriers \cup {NoOne}] /\ row.status \in Underway
    BY <2>1 DEF TradeInv, TradeRows, TradeTypeOK, JobStatus, Underway
  <2>3. job' = [job EXCEPT ![j] = row]
    BY <1>4 DEF WriteJobStatus
  <2> HIDE DEF row, j
  <2>4. TradeRows'
    BY <1>1, <2>1, <2>2, <2>3 DEF TradeInv, TradeRows, TradeTypeOK, OrdersKept, JobsKept,
         PaidHasRow, BookedInFull, Refs, Underway
  <2>5. Done(p)
    BY <1>4 DEF WriteJobStatus
  <2>6. QED
    BY <1>1, <1>2, <2>4, <2>5, SpentStill, TradeDone DEF TradeInv
<1>5. QED
  BY <1>3, <1>4

TradeAlone ==
  \/ \E f \in Freights : RequestQuotePayment(f) \/ PostQuoteDeliveryJob(f)
  \/ \E o \in Orders : RejectMaterialProof(o) \/ AcceptMaterialProof(o) \/ DestroyOrderReview(o)
  \/ \E S \in SUBSET Orders : AutoCompleteOrders(S)

LEMMA TradeByItself ==
  ASSUME TradeInv, topic \in Trades, UNCHANGED <<amendVars, topic>>, TradeAlone
  PROVE  TradeInv'
<1>1. UNCHANGED <<session, stock, onSite, lost, cancels, contested>>
  BY DEF TradeAlone, RequestQuotePayment, PostQuoteDeliveryJob, RejectMaterialProof, AcceptMaterialProof,
         DestroyOrderReview, AutoCompleteOrders, goods
<1>2. ASSUME NEW f \in Freights, RequestQuotePayment(f) PROVE TradeInv'
  <2>1. UNCHANGED <<order, job, reviewed, booked>> /\ quote' = [quote EXCEPT !.status = "awaiting_payment", !.ship = f]
    BY <1>2 DEF RequestQuotePayment
  <2>2. TradeKeeps /\ TradeRows'
    BY <1>1, <2>1, PricesAreNats DEF TradeKeeps, TradeInv, TradeRows, TradeTypeOK, OrdersKept, JobsKept,
         PaidHasRow, BookedInFull,
         QuoteStatus
  <2>3. QED
    BY <1>1, <2>1, <2>2, SpentStill, TradeStepAlone DEF TradeInv
<1>3. ASSUME NEW f \in Freights, PostQuoteDeliveryJob(f) PROVE TradeInv'
  <2> DEFINE j == Min(Unused(job, Jobs))
             row == [status |-> "pending", order |-> 0, courier |-> NoOne]
  <2>1. /\ UNCHANGED <<order, reviewed, booked>> /\ job' = [job EXCEPT ![j] = row]
        /\ quote' = [quote EXCEPT !.status = "awaiting_courier", !.ship = f]
    BY <1>3 DEF PostQuoteDeliveryJob, NewJob
  <2>2. row \in [status : JobStatus, order : Refs, courier : Couriers \cup {NoOne}] /\ row.courier = NoOne
    BY DEF JobStatus, Refs
  <2>3. j \in Jobs
    <3>1. Unused(job, Jobs) \in SUBSET Nat /\ Unused(job, Jobs) # {}
      BY <1>3, OrderIds DEF PostQuoteDeliveryJob, Unused
    <3>2. QED
      BY <3>1, MinIn DEF Unused
  <2> HIDE DEF j, row
  <2>4. TradeKeeps /\ TradeRows'
    BY <1>1, <2>1, <2>2, <2>3, PricesAreNats DEF TradeKeeps, TradeInv, TradeRows, TradeTypeOK, OrdersKept, JobsKept,
         PaidHasRow, BookedInFull, QuoteStatus, Refs
  <2>5. QED
    BY <1>1, <2>1, <2>4, SpentStill, TradeStepAlone DEF TradeInv
<1>4. ASSUME NEW o \in Orders, RejectMaterialProof(o) PROVE TradeInv'
  <2> DEFINE row == [order[o] EXCEPT !.status = "pending"]
  <2>1. UNCHANGED <<quote, job, reviewed, booked>> /\ order' = [order EXCEPT ![o] = row] /\ order[o].status # "none"
    BY <1>4 DEF RejectMaterialProof, SetOrder
  <2>2. row \in OrderRow /\ row.status = "pending" /\ row.taken = order[o].taken /\ row.price = order[o].price
    BY DEF TradeInv, TradeRows, TradeTypeOK, OrderRow, OrderStatus
  <2> HIDE DEF row
  <2>3. TradeKeeps /\ \A x \in Orders : order'[x].taken = order[x].taken
    BY <1>1, <2>1, <2>2 DEF TradeKeeps, TradeInv, TradeRows, TradeTypeOK
  <2>4. TradeRows'
    BY <1>1, <2>1, <2>2 DEF TradeInv, TradeRows, TradeTypeOK, OrdersKept, JobsKept, PaidHasRow, BookedInFull
  <2>5. QED
    BY <1>1, <2>1, <2>3, <2>4, SpentStill, TradeStepAlone DEF TradeInv
<1>5. ASSUME NEW o \in Orders, AcceptMaterialProof(o) PROVE TradeInv'
  <2> DEFINE row    == [order[o] EXCEPT !.status = "paid"]
             amount == order[o].price + order[o].ship
  <2>1. /\ UNCHANGED <<quote, job, reviewed>> /\ order' = [order EXCEPT ![o] = row] /\ order[o].status # "none"
        /\ Book(o, amount) /\ Covered(o, amount)
    BY <1>5 DEF AcceptMaterialProof, SetOrder, Payable
  <2>2. row \in OrderRow /\ row.status = "paid" /\ row.taken = order[o].taken /\ row.price = order[o].price
    BY DEF TradeInv, TradeRows, TradeTypeOK, OrderRow, OrderStatus
  <2>3. amount \in Nat /\ amount > 0 /\ amount >= order[o].price /\ o \in References /\ booked \in [References -> Nat]
    BY <2>1, TradeRefs DEF TradeInv, TradeRows, TradeTypeOK, OrderRow, OrdersKept
  <2> HIDE DEF row, amount
  <2>4. SpentIsCovered' /\ booked' \in [References -> Nat]
    BY <2>1, <2>3, BookFits DEF TradeInv
  <2>5. /\ booked'[o] > 0 /\ \A r \in References : booked[r] > 0 => booked'[r] > 0
        /\ booked'[o] \in {booked[o], amount} /\ \A r \in References \ {o} : booked'[r] = booked[r]
    BY <2>1, <2>3 DEF Book
  <2>6. TradeKeeps /\ \A x \in Orders : order'[x].taken = order[x].taken
    BY <1>1, <2>1, <2>2, <2>5 DEF TradeKeeps, TradeInv, TradeRows, TradeTypeOK
  <2>7. TradeRows'
    BY <1>1, <2>1, <2>2, <2>3, <2>4, <2>5, TradeRefs, OrderIds DEF TradeInv, TradeRows, TradeTypeOK, OrdersKept, JobsKept,
         PaidHasRow, BookedInFull
  <2>8. QED
    BY <1>1, <2>4, <2>6, <2>7, TradeStepAlone
<1>6. ASSUME NEW o \in Orders, DestroyOrderReview(o) PROVE TradeInv'
  <2>1. UNCHANGED <<quote, order, job, booked>> /\ reviewed' = reviewed \ {o}
    BY <1>6 DEF DestroyOrderReview
  <2>2. TradeKeeps /\ TradeRows'
    BY <1>1, <2>1 DEF TradeKeeps, TradeInv, TradeRows, TradeTypeOK, OrdersKept, JobsKept, PaidHasRow, BookedInFull
  <2>3. QED
    BY <1>1, <2>1, <2>2, SpentStill, TradeStepAlone DEF TradeInv
<1>7. ASSUME NEW S \in SUBSET Orders, AutoCompleteOrders(S) PROVE TradeInv'
  <2>1. /\ UNCHANGED <<quote, job, reviewed, booked>> /\ \A o \in S : order[o].status = "delivered"
        /\ order' = [o \in Orders |-> IF o \in S THEN [order[o] EXCEPT !.status = "completed"] ELSE order[o]]
    BY <1>7 DEF AutoCompleteOrders
  <2>2. \A o \in Orders : /\ order'[o] \in OrderRow /\ order'[o].taken = order[o].taken
                          /\ order'[o].price = order[o].price
                          /\ IF o \in S THEN order'[o].status = "completed" /\ order[o].status = "delivered"
                             ELSE order'[o].status = order[o].status
    BY <2>1 DEF TradeInv, TradeRows, TradeTypeOK, OrderRow, OrderStatus
  <2>3. order' \in [Orders -> OrderRow]
    BY <2>1, <2>2
  <2>4. TradeKeeps
    BY <1>1, <2>1, <2>2 DEF TradeKeeps
  <2>5. TradeRows'
    BY <1>1, <2>1, <2>2, <2>3 DEF TradeInv, TradeRows, TradeTypeOK, OrdersKept, JobsKept, PaidHasRow, BookedInFull
  <2>6. QED
    BY <1>1, <2>1, <2>2, <2>4, <2>5, SpentStill, TradeStepAlone DEF TradeInv
<1>8. QED
  BY <1>2, <1>3, <1>4, <1>5, <1>6, <1>7 DEF TradeAlone

LEMMA TradeCancel ==
  ASSUME TradeInv, NEW p \in Clients, topic \in Trades, UNCHANGED <<amendVars, topic>>, Cancel(p)
  PROVE  TradeInv'
<1>1. /\ UNCHANGED <<quote, order, job, stock, onSite, reviewed, booked, contested>>
      /\ cancels' = cancels + 1 /\ cancels < MaxCancels /\ lost' = lost + Due(p) /\ Done(p)
  BY DEF Cancel
<1>2. Due(p) \in Int
  BY DueIsInt
<1>3. TradeKeeps /\ TradeRows'
  BY <1>1, <1>2, BoundsAreNats DEF TradeKeeps, TradeInv, TradeRows, TradeTypeOK, OrdersKept, JobsKept,
       PaidHasRow, BookedInFull
<1>4. StockIsAccounted'
  BY <1>1, StockSettled
<1>5. PICK t : t = Idle
  OBVIOUS
<1>6. TradeSession(t)' /\ session' = [session EXCEPT ![p] = t]
  BY <1>1, <1>3, <1>5, IdleFits, TradeSessionKept DEF Done
<1>7. QED
  BY <1>1, <1>3, <1>4, <1>6, SpentStill, TradeStep DEF TradeInv

LEMMA TradingPreserves == ASSUME TradeInv, Trading, UNCHANGED <<amendVars, topic>> PROVE TradeInv'
<1>1. topic \in Trades
  BY DEF Trading, Trades
<1>2. CASE QuoteNext
  BY <1>1, <1>2, TradeBegin, TradeQuote, TradeByItself DEF QuoteNext, TradeBegins, TradeQuotes, TradeAlone
<1>3. CASE PaymentNext
  BY <1>1, <1>3, TradeBegin, TradeOrder, TradeUpdate, TradeByItself
     DEF PaymentNext, TradeBegins, TradeOrders, TradeUpdates, TradeAlone
<1>4. CASE FulfilNext
  BY <1>1, <1>4, TradeBegin, TradeOrder, TradeUpdate, TradeByItself
     DEF FulfilNext, TradeBegins, TradeOrders, TradeUpdates, TradeAlone
<1>5. CASE ReviewNext
  BY <1>1, <1>5, TradeBegin, TradeOrder, TradeByItself DEF ReviewNext, TradeBegins, TradeOrders, TradeAlone
<1>6. CASE CourierNext
  BY <1>1, <1>6, TradeBegin, TradeQuote, TradeCourier DEF CourierNext, TradeBegins, TradeQuotes
<1>7. QED
  BY <1>1, <1>2, <1>3, <1>4, <1>5, <1>6, TradeCancel DEF Trading

(***************************************************************************)
(* The amendments.                                                         *)
(***************************************************************************)
\* What a step of the amendments leaves alone, and what it may only add to.
AmendKeeps ==
  /\ topic \in Amends /\ UNCHANGED <<tradeVars, topic>>
  /\ \A a \in Addenda : addendum[a].status # "none" => addendum'[a].status # "none"
  /\ \A r \in {0} \cup Orders : booked'[r] = booked[r]
  /\ booked' \in [References -> Nat] /\ contested' \in BOOLEAN

LEMMA AmendSessionKept ==
  ASSUME TradeInv, AmendKeeps, NEW s, AmendSession(s)
  PROVE  AmendSession(s)'
BY DEF AmendSession, AmendKeeps

\* Where nobody is about to move stock, nobody owes any.
LEMMA NothingDue ==
  ASSUME \A q \in Clients : ~At(q, "move")
  PROVE  MapThenSumSet(Due, Clients) = 0
<1>1. IsFiniteSet(Clients) /\ \A q \in Clients : Owed[q] = 0
  BY FinitelyMany DEF Owed, Due
<1>2. QED
  BY <1>1, DueIsSum, SumZero

LEMMA AmendersOweNothing ==
  ASSUME \A q \in Clients : AmendSession(session[q])
  PROVE  MapThenSumSet(Due, Clients) = 0
<1>1. \A q \in Clients : ~At(q, "move")
  BY DEF AmendSession, At, RequestPoints, ChangePoints, DeletePoints
<1>2. QED
  BY <1>1, NothingDue

LEMMA TradeRowsStill == ASSUME TradeInv, AmendKeeps PROVE TradeRows'
BY TradeRefs DEF TradeInv, AmendKeeps, TradeRows, TradeTypeOK, OrdersKept, JobsKept,
     PaidHasRow, BookedInFull, tradeVars, goods

LEMMA AmendStock ==
  ASSUME TradeInv, AmendKeeps, \A q \in Clients : AmendSession(session[q])'
  PROVE  StockIsAccounted'
<1>1. MapThenSumSet(Due, Clients) = 0
  BY AmendersOweNothing DEF TradeInv, Sessions, AmendKeeps
<1>2. MapThenSumSet(Due, Clients)' = 0
  <2>1. (\A q \in Clients : AmendSession(session[q]))'
    OBVIOUS
  <2>2. (MapThenSumSet(Due, Clients) = 0)'
    BY <2>1, AmendersOweNothing, PTL
  <2>3. QED
    BY <2>2
<1>3. Holding' = Holding
  BY DEF Holding, AmendKeeps, tradeVars
<1>4. QED
  BY <1>1, <1>2, <1>3 DEF StockIsAccounted, TradeInv, AmendKeeps, tradeVars, goods

LEMMA AmendStep ==
  ASSUME TradeInv, AmendKeeps, NEW p \in Clients, NEW s, session' = [session EXCEPT ![p] = s],
         AmendSession(s)', AmendRows', SpentIsCovered'
  PROVE  TradeInv'
<1>1. session' = [q \in Clients |-> session'[q]]
  BY DEF TradeInv, Sessions
<1>2. ASSUME NEW q \in Clients PROVE AmendSession(session[q])'
  <2>1. PICK t : t = session'[q]
    OBVIOUS
  <2>2. CASE q = p
    <3>1. t = s
      BY <2>1, <2>2 DEF TradeInv, Sessions
    <3>2. QED
      BY <2>1, <3>1 DEF AmendSession
  <2>3. CASE q # p
    <3>1. t = session[q]
      BY <2>1, <2>3 DEF TradeInv, Sessions
    <3>2. AmendSession(t)
      BY <3>1 DEF TradeInv, Sessions, AmendKeeps
    <3>3. AmendSession(t)'
      BY <3>2, AmendSessionKept
    <3>4. QED
      BY <2>1, <3>3 DEF AmendSession
  <2>4. QED
    BY <2>2, <2>3
<1>3. topic' \in Amends /\ topic' \notin Trades
  BY DEF AmendKeeps, Trades, Amends
<1>4. Sessions'
  BY <1>1, <1>2, <1>3 DEF Sessions
<1>5. TradeRows' /\ StockIsAccounted'
  BY <1>2, TradeRowsStill, AmendStock
<1>6. QED
  BY <1>3, <1>4, <1>5 DEF TradeInv

LEMMA AmendStepAlone ==
  ASSUME TradeInv, AmendKeeps, UNCHANGED session, AmendRows', SpentIsCovered'
  PROVE  TradeInv'
<1>1. ASSUME NEW q \in Clients PROVE AmendSession(session[q])'
  <2>1. PICK t : t = session[q]
    OBVIOUS
  <2>2. AmendSession(t)'
    BY <2>1, AmendSessionKept DEF TradeInv, Sessions, AmendKeeps
  <2>3. QED
    BY <2>1, <2>2 DEF AmendSession
<1>2. topic' \in Amends /\ topic' \notin Trades
  BY DEF AmendKeeps, Trades, Amends
<1>3. Sessions'
  BY <1>1, <1>2 DEF Sessions, TradeInv
<1>4. TradeRows' /\ StockIsAccounted'
  BY <1>1, TradeRowsStill, AmendStock
<1>5. QED
  BY <1>2, <1>3, <1>4 DEF TradeInv

LEMMA AmendDone ==
  ASSUME TradeInv, AmendKeeps, NEW p \in Clients, Done(p), AmendRows', SpentIsCovered'
  PROVE  TradeInv'
<1>1. PICK s : s = Idle
  OBVIOUS
<1>2. AmendSession(s)' /\ session' = [session EXCEPT ![p] = s]
  BY <1>1, IdleFits, AmendSessionKept DEF Done
<1>3. QED
  BY <1>2, AmendStep

\* A request that only reads.
LEMMA AmendReads ==
  ASSUME TradeInv, topic \in Amends, NEW p \in Clients, NEW s, Serve(p, s), AmendSession(s),
         UNCHANGED <<amendVars, contested, booked>>, UNCHANGED <<tradeVars, topic>>
  PROVE  TradeInv'
<1>1. AmendKeeps
  BY DEF AmendKeeps, TradeInv, TradeRows, TradeTypeOK, amendVars, paper
<1>2. AmendRows'
  BY DEF TradeInv, AmendRows, amendVars, paper, hired, site, AmendTypeOK, HiredOK, AddendaKept, AddendumPaidIsBooked,
         OneStagePerChange, StockHasHistory
<1>3. QED
  BY <1>1, <1>2, AmendSessionKept, SpentStill, AmendStep DEF Serve, TradeInv

AmendBegins(p) ==
  \/ \E a \in Addenda : \/ BeginAddendumProof(p, a)
                        \/ \E approve \in BOOLEAN : BeginDecide(p, a, approve)
                        \/ \E authoriser \in BOOLEAN, new \in Answers : BeginHandle(p, a, authoriser, new)
  \/ \E q \in Requests : BeginRequest(p, q) \/ BeginVerifyRequest(p, q)
  \/ \E c \in Changes : BeginChange(p, c) \/ \E byPM, approve \in BOOLEAN : BeginChangeDecision(p, c, byPM, approve)
  \/ BeginDeleteRequirement(p) \/ BeginJoin(p)

LEMMA AmendBegin ==
  ASSUME TradeInv, NEW p \in Clients, topic \in Amends, UNCHANGED <<tradeVars, topic>>, AmendBegins(p)
  PROVE  TradeInv'
<1>1. UNCHANGED <<amendVars, contested, booked>>
  BY DEF AmendBegins, BeginAddendumProof, BeginDecide, BeginHandle, BeginRequest, BeginVerifyRequest, BeginChange,
         BeginChangeDecision, BeginDeleteRequirement, BeginJoin
<1>2. ASSUME NEW s, Serve(p, s), AmendSession(s) PROVE TradeInv'
  BY <1>1, <1>2, AmendReads
<1> USE DEF AmendSession, RequestPoints, ChangePoints, DeletePoints
<1>3. ASSUME NEW a \in Addenda, BeginAddendumProof(p, a) PROVE TradeInv'
  BY <1>2, <1>3 DEF BeginAddendumProof
<1>4. ASSUME NEW a \in Addenda, NEW approve \in BOOLEAN, BeginDecide(p, a, approve) PROVE TradeInv'
  <2>1. AmendSession([at |-> "decide", id |-> a, approve |-> approve, amount |-> addendum[a].amount])
    BY <1>4 DEF BeginDecide
  <2>2. QED
    BY <1>2, <1>4, <2>1 DEF BeginDecide
<1>5. ASSUME NEW a \in Addenda, NEW authoriser \in BOOLEAN, NEW new \in Answers, BeginHandle(p, a, authoriser, new)
      PROVE  TradeInv'
  <2>1. addendum[a].status # "none"
    BY <1>5 DEF BeginHandle, MayHandle
  <2>2. AmendSession([at |-> "handle", id |-> a, authoriser |-> authoriser, new |-> new,
                      open |-> addendum[a].status # "accepted_by_pro", counter |-> addendum[a].counter])
    BY <2>1
  <2>3. QED
    BY <1>2, <1>5, <2>2 DEF BeginHandle
<1>6. ASSUME NEW q \in Requests, BeginRequest(p, q) \/ BeginVerifyRequest(p, q) PROVE TradeInv'
  BY <1>2, <1>6 DEF BeginRequest, BeginVerifyRequest
<1>7. ASSUME NEW c \in Changes, BeginChange(p, c) PROVE TradeInv'
  BY <1>2, <1>7 DEF BeginChange
<1>8. ASSUME NEW c \in Changes, NEW byPM \in BOOLEAN, NEW approve \in BOOLEAN, BeginChangeDecision(p, c, byPM, approve)
      PROVE  TradeInv'
  <2>1. PICK point \in ChangePoints, new \in {"pm_reviewed", "rejected"} : Serve(p, [at |-> point, id |-> c, new |-> new])
    BY <1>8 DEF BeginChangeDecision
  <2>2. AmendSession([at |-> point, id |-> c, new |-> new])
    BY <2>1
  <2>3. QED
    BY <1>2, <2>1, <2>2
<1>9. CASE BeginDeleteRequirement(p)
  BY <1>2, <1>9 DEF BeginDeleteRequirement
<1>10. CASE BeginJoin(p)
  <2>1. AmendSession([at |-> "join", user |-> sub.user])
    BY DEF TradeInv, AmendRows, AmendTypeOK, HiredOK
  <2>2. QED
    BY <1>2, <1>10, <2>1 DEF BeginJoin
<1>11. QED
  BY <1>3, <1>4, <1>5, <1>6, <1>7, <1>8, <1>9, <1>10 DEF AmendBegins

(***************************************************************************)
(* What the amendments write.                                              *)
(***************************************************************************)
AddendumRow == [status : AddendumStatus, amount : Nat, counter : Nat \cup {None}, for : Specialists \cup {None},
                request : Requests \cup {None}]
RowFits(row) == /\ row \in AddendumRow /\ row.status # "none" /\ row.amount > 0
                /\ row.counter # None => row.counter > 0

LEMMA RowOf == ASSUME TradeInv, NEW a \in Addenda PROVE addendum[a] \in AddendumRow
BY DEF TradeInv, AmendRows, AmendTypeOK, AddendumRow

LEMMA RowOfThere ==
  ASSUME TradeInv, NEW a \in Addenda, addendum[a].status # "none"
  PROVE  RowFits(addendum[a])
BY RowOf DEF TradeInv, AmendRows, AddendaKept, RowFits

LEMMA HiredStill == ASSUME HiredOK, UNCHANGED hired PROVE HiredOK'
BY DEF HiredOK, hired

\* What the handlers of an addendum write to the role names a specialist.
LEMMA HiredWritten ==
  ASSUME HiredOK, NEW u \in Specialists,
         inviteSpecialist(u) \/ acceptSpecialistAddendum(u) \/ markPaidSpecialist(u)
  PROVE  HiredOK'
<1>1. CASE inviteSpecialist(u)
  BY <1>1 DEF inviteSpecialist, HiredOK, SubStatus
<1>2. CASE acceptSpecialistAddendum(u)
  <2>1. NoSub \in [status : SubStatus, user : Specialists \cup {None}, agreed : BOOLEAN]
    BY DEF NoSub, SubStatus
  <2>2. QED
    BY <1>2, <2>1 DEF acceptSpecialistAddendum, HiredOK, SubStatus
<1>3. CASE markPaidSpecialist(u)
  BY <1>3 DEF markPaidSpecialist, HiredOK, SubStatus
<1>4. QED
  BY <1>1, <1>2, <1>3

\* A write to one addendum, with what goes with it.
LEMMA PaperWritten ==
  ASSUME TradeInv, topic \in Amends, UNCHANGED <<tradeVars, topic>>, NEW a \in Addenda, NEW row, RowFits(row),
         addendum' = [addendum EXCEPT ![a] = row], row.status = "paid" => booked'[a] > 0,
         request' \in [Requests -> RequestStatus], HiredOK', UNCHANGED <<change, stages, site, contested>>,
         booked' \in [References -> Nat], \A r \in References \ {a} : booked'[r] = booked[r]
  PROVE  AmendKeeps /\ AmendRows'
<1>1. AmendKeeps
  <2>1. \A r \in {0} \cup Orders : r \in References /\ r # a
    BY TradeRefs, AddendaAreRefs, SeparateRefs
  <2>2. QED
    BY <2>1 DEF AmendKeeps, TradeInv, TradeRows, TradeTypeOK, AmendRows, AmendTypeOK, RowFits
<1>2. AmendTypeOK'
  BY DEF AmendTypeOK, TradeInv, AmendRows, RowFits, AddendumRow, site
<1>3. AddendaKept' /\ AddendumPaidIsBooked'
  BY AddendaAreRefs DEF TradeInv, AmendRows, AmendTypeOK, AddendaKept, AddendumPaidIsBooked, RowFits
<1>4. QED
  BY <1>1, <1>2, <1>3 DEF TradeInv, AmendRows, OneStagePerChange, StockHasHistory, site

\* The addenda stay as they are.
LEMMA PaperStill ==
  ASSUME TradeInv, topic \in Amends, UNCHANGED <<tradeVars, topic>>,
         UNCHANGED <<addendum, change, stages, site, contested, booked>>,
         request' \in [Requests -> RequestStatus], HiredOK'
  PROVE  AmendKeeps /\ AmendRows'
BY DEF AmendKeeps, TradeInv, TradeRows, TradeTypeOK, AmendRows, AmendTypeOK, AddendaKept, AddendumPaidIsBooked,
       OneStagePerChange, StockHasHistory, site

LEMMA Asked ==
  ASSUME TradeInv, topic \in Amends, UNCHANGED <<tradeVars, topic>>, Fresh # {},
         NEW amount \in Amounts, NEW for \in Specialists \cup {None}, NEW q \in Requests \cup {None},
         Ask(Min(Fresh), amount, for, q), UNCHANGED <<hired, change, stages, site, contested, booked>>,
         request' \in [Requests -> RequestStatus]
  PROVE  AmendKeeps /\ AmendRows'
<1> DEFINE a   == Min(Fresh)
           row == [NoAddendum EXCEPT !.status = "pending_approval", !.amount = amount, !.for = for,
                                     !.request = q]
<1>1. a \in Addenda
  <2>1. Fresh \in SUBSET Nat /\ Fresh \subseteq Addenda
    BY AddendaAreRefs, ReferencesAreNats DEF Fresh
  <2>2. QED
    BY <2>1, MinIn
<1>2. RowFits(row) /\ row.status # "paid"
  <2>1. NoAddendum \in AddendumRow /\ NoAddendum.counter = None
    BY DEF NoAddendum, AddendumRow, AddendumStatus
  <2>2. amount \in Nat /\ amount > 0
    BY AmountsAreCosts
  <2>3. row \in AddendumRow /\ row.status = "pending_approval" /\ row.amount = amount /\ row.counter = None
    BY <2>1, <2>2 DEF AddendumRow, AddendumStatus
  <2>4. QED
    BY <2>2, <2>3 DEF RowFits
<1>3. addendum' = [addendum EXCEPT ![a] = row]
  BY DEF Ask
<1>4. HiredOK' /\ booked' \in [References -> Nat] /\ \A r \in References : booked'[r] = booked[r]
  BY HiredStill DEF TradeInv, TradeRows, TradeTypeOK, AmendRows, AmendTypeOK
<1> HIDE DEF a, row
<1>5. QED
  BY <1>1, <1>2, <1>3, <1>4, PaperWritten

\* A new status for one addendum that is there.
LEMMA StatusSet ==
  ASSUME TradeInv, topic \in Amends, UNCHANGED <<tradeVars, topic>>, NEW a \in Addenda, addendum[a].status # "none",
         NEW status \in AddendumStatus \ {"none"}, SetStatus(a, status), status = "paid" => booked'[a] > 0,
         request' \in [Requests -> RequestStatus], HiredOK', UNCHANGED <<change, stages, site, contested>>,
         booked' \in [References -> Nat], \A r \in References \ {a} : booked'[r] = booked[r]
  PROVE  AmendKeeps /\ AmendRows'
<1> DEFINE row == [addendum[a] EXCEPT !.status = status]
<1>1. RowFits(row) /\ row.status = status
  <2>1. RowFits(addendum[a])
    BY RowOfThere
  <2>2. QED
    BY <2>1 DEF RowFits, AddendumRow
<1>2. addendum' = [addendum EXCEPT ![a] = row]
  BY DEF SetStatus
<1> HIDE DEF row
<1>3. QED
  BY <1>1, <1>2, PaperWritten

LEMMA AuthorizeTyped ==
  ASSUME TradeInv, NEW q, Authorize(q)
  PROVE  request' \in [Requests -> RequestStatus]
BY DEF TradeInv, AmendRows, AmendTypeOK, Authorize, RequestStatus

\* Addenda without a session: paid under the lock, created, sent back.
AddendaAlone ==
  \/ \E amount \in Amounts, for \in Specialists \cup {None} : CreateAddendum(amount, for)
  \/ \E a \in Addenda : RejectAddendumProof(a) \/ AcceptAddendumProof(a) \/ MarkPaidAddendum(a)
  \/ \E q \in Requests : RejectProcurement(q)

LEMMA AddendaByThemselves ==
  ASSUME TradeInv, topic \in Amends, UNCHANGED <<tradeVars, topic>>, AddendaAlone
  PROVE  TradeInv'
<1>1. /\ UNCHANGED <<change, stages, site, session, contested>>
      /\ request \in [Requests -> RequestStatus] /\ HiredOK /\ booked \in [References -> Nat]
  BY DEF AddendaAlone, CreateAddendum, RejectAddendumProof, AcceptAddendumProof, MarkPaidAddendum,
         RejectProcurement, gatewayVars, TradeInv, TradeRows, TradeTypeOK, AmendRows, AmendTypeOK
<1>2. ASSUME NEW amount \in Amounts, NEW for \in Specialists \cup {None}, CreateAddendum(amount, for) PROVE TradeInv'
  <2>1. UNCHANGED <<request, hired, booked>> /\ Fresh # {} /\ Ask(Min(Fresh), amount, for, None)
    BY <1>2 DEF CreateAddendum, gatewayVars
  <2>2. AmendKeeps /\ AmendRows'
    BY <1>1, <2>1, Asked
  <2>3. QED
    BY <1>1, <2>1, <2>2, SpentStill, AmendStepAlone DEF TradeInv
<1>3. ASSUME NEW a \in Addenda, RejectAddendumProof(a) PROVE TradeInv'
  <2>1. /\ UNCHANGED <<request, hired, booked>> /\ addendum[a].status # "none" /\ SetStatus(a, "approved_unpaid")
        /\ "approved_unpaid" \in AddendumStatus \ {"none"}
    BY <1>3 DEF RejectAddendumProof, gatewayVars, AddendumStatus
  <2>2. AmendKeeps /\ AmendRows'
    BY <1>1, <2>1, HiredStill, StatusSet
  <2>3. QED
    BY <1>1, <2>1, <2>2, SpentStill, AmendStepAlone DEF TradeInv
<1>4. ASSUME NEW a \in Addenda, AcceptAddendumProof(a) \/ MarkPaidAddendum(a) PROVE TradeInv'
  <2>1. /\ addendum[a].status # "none" /\ SetStatus(a, "paid") /\ "paid" \in AddendumStatus \ {"none"}
        /\ Covered(a, addendum[a].amount) /\ Book(a, addendum[a].amount)
    BY <1>4 DEF AcceptAddendumProof, MarkPaidAddendum, Payable, AddendumStatus
  <2>2. addendum[a].amount \in Nat /\ addendum[a].amount > 0 /\ a \in References
    BY <2>1, RowOfThere, AddendaAreRefs DEF RowFits, AddendumRow
  <2>3. SpentIsCovered' /\ booked' \in [References -> Nat]
    BY <1>1, <2>1, <2>2, BookFits DEF TradeInv
  <2>4. booked'[a] > 0 /\ \A r \in References \ {a} : booked'[r] = booked[r]
    BY <1>1, <2>1, <2>2 DEF Book
  <2>5. HiredOK'
    BY <1>1, <1>4, <2>1, RowOf, HiredWritten, HiredStill DEF AcceptAddendumProof, MarkPaidAddendum, AddendumRow
  <2>6. request' \in [Requests -> RequestStatus]
    BY <1>1, <1>4, AuthorizeTyped DEF AcceptAddendumProof, MarkPaidAddendum
  <2>7. AmendKeeps /\ AmendRows'
    BY <1>1, <2>1, <2>3, <2>4, <2>5, <2>6, StatusSet
  <2>8. QED
    BY <1>1, <2>3, <2>7, AmendStepAlone
<1>5. ASSUME NEW q \in Requests, RejectProcurement(q) PROVE TradeInv'
  <2>1. UNCHANGED <<addendum, hired, booked>> /\ request' \in [Requests -> RequestStatus]
    BY <1>1, <1>5 DEF RejectProcurement, gatewayVars, RequestStatus
  <2>2. QED
    BY <1>1, <2>1, HiredStill, PaperStill, SpentStill, AmendStepAlone DEF TradeInv
<1>6. QED
  BY <1>2, <1>3, <1>4, <1>5 DEF AddendaAlone

AddendaAnswers(p) ==
  \/ DecideAddendum(p) \/ StoreAddendumProof(p) \/ SpecialistAccepts(p)
  \/ \E amount, offer \in Amounts \cup {None} : HandleAddendum(p, amount, offer)

\* Answers, decisions and proofs that were based on an earlier state of the row.
LEMMA AddendaAnswered ==
  ASSUME TradeInv, NEW p \in Clients, topic \in Amends, UNCHANGED <<tradeVars, topic>>, AddendaAnswers(p)
  PROVE  TradeInv'
<1> DEFINE s == session[p]
           a == s.id
<1>1. /\ UNCHANGED <<change, stages, site, contested, booked>> /\ Done(p)
      /\ s.at \in {"decide", "addendumProof", "handle", "join"}
  BY DEF AddendaAnswers, DecideAddendum, StoreAddendumProof, HandleAddendum, SpecialistAccepts, At
<1>2. /\ AmendSession(s) /\ (s.at # "join" => a \in Addenda /\ addendum[a].status # "none")
      /\ request \in [Requests -> RequestStatus] /\ HiredOK /\ booked \in [References -> Nat]
  BY <1>1 DEF TradeInv, Sessions, AmendSession, TradeRows, TradeTypeOK, AmendRows, AmendTypeOK
<1>3. SUFFICES AmendKeeps /\ AmendRows'
  BY <1>1, SpentStill, AmendDone DEF TradeInv
<1>4. CASE DecideAddendum(p)
  <2>0. a \in Addenda /\ addendum[a].status # "none"
    BY <1>2, <1>4 DEF DecideAddendum, At
  <2>1. PICK status \in {"approved_unpaid", "approved", "rejected"} : SetStatus(a, status)
    BY <1>4 DEF DecideAddendum
  <2>2. HiredOK'
    BY <1>2, <1>4, <2>0, RowOf, HiredWritten, HiredStill DEF DecideAddendum, AddendumRow
  <2>3. request' \in [Requests -> RequestStatus]
    BY <1>2, <1>4, AuthorizeTyped DEF DecideAddendum
  <2>4. status \in AddendumStatus \ {"none"} /\ status # "paid"
    BY <2>1 DEF AddendumStatus
  <2>5. QED
    BY <1>1, <1>2, <2>0, <2>1, <2>2, <2>3, <2>4, StatusSet
<1>5. CASE StoreAddendumProof(p)
  <2>0. a \in Addenda /\ addendum[a].status # "none"
    BY <1>2, <1>5 DEF StoreAddendumProof, At
  <2>1. UNCHANGED <<request, hired>>
    BY <1>5 DEF StoreAddendumProof
  <2>2. CASE addendum[a].status = "paid"
    <3>1. UNCHANGED addendum
      BY <1>5, <2>2 DEF StoreAddendumProof
    <3>2. QED
      BY <1>1, <1>2, <2>0, <2>1, <3>1, PaperStill, HiredStill
  <2>3. CASE addendum[a].status # "paid"
    <3>1. SetStatus(a, "verifying") /\ "verifying" \in AddendumStatus \ {"none"}
      BY <1>5, <2>3 DEF StoreAddendumProof, AddendumStatus
    <3>2. QED
      BY <1>1, <1>2, <2>0, <2>1, <3>1, HiredStill, StatusSet
  <2>4. QED
    BY <2>2, <2>3
<1>6. ASSUME NEW amount \in Amounts \cup {None}, NEW offer \in Amounts \cup {None}, HandleAddendum(p, amount, offer)
      PROVE  AmendKeeps /\ AmendRows'
  <2> DEFINE old    == addendum[a]
             adopts == s.new = "accepted_by_pro" /\ s.counter # None
             agreed == IF adopts THEN old.counter ELSE IF amount # None THEN amount ELSE old.amount
             countered == IF s.new = "negotiating" /\ s.authoriser THEN offer ELSE old.counter
             row    == [old EXCEPT !.status = s.new, !.amount = agreed, !.counter = countered]
  <2>0. a \in Addenda /\ addendum[a].status # "none"
    BY <1>2, <1>6 DEF HandleAddendum, At
  <2>1. UNCHANGED <<request, hired>> /\ s.new \in Answers /\ RowFits(old)
    BY <1>2, <1>6, <2>0, RowOfThere DEF HandleAddendum, AmendSession, At
  <2>2. CASE UNCHANGED addendum
    BY <1>1, <1>2, <2>0, <2>1, <2>2, PaperStill, HiredStill
  <2>3. CASE ~UNCHANGED addendum
    <3>1. ~(adopts /\ old.counter = None) /\ addendum' = [addendum EXCEPT ![a] = row]
      BY <1>6, <2>3 DEF HandleAddendum
    <3>2. agreed \in Nat /\ agreed > 0
      BY <2>1, <3>1, AmountsAreCosts DEF RowFits, AddendumRow
    <3>3. countered \in Nat \cup {None} /\ (countered # None => countered > 0)
      <4>1. offer \in Nat \cup {None} /\ (offer # None => offer > 0)
        BY AmountsAreCosts
      <4>2. old.counter \in Nat \cup {None} /\ (old.counter # None => old.counter > 0)
        BY <2>1 DEF RowFits, AddendumRow
      <4>3. countered = offer \/ countered = old.counter
        OBVIOUS
      <4> HIDE DEF countered, old
      <4>4. QED
        BY <4>1, <4>2, <4>3
    <3>4. s.new \in AddendumStatus \ {"none"} /\ s.new # "paid"
      BY <2>1 DEF Answers
    <3> HIDE DEF agreed, countered
    <3>5. RowFits(row) /\ row.status # "paid"
      BY <2>1, <3>2, <3>3, <3>4 DEF RowFits, AddendumRow
    <3> HIDE DEF row
    <3>6. QED
      BY <1>1, <1>2, <2>0, <2>1, <3>1, <3>5, HiredStill, PaperWritten
  <2>4. QED
    BY <2>2, <2>3
<1>7. CASE SpecialistAccepts(p)
  <2>1. UNCHANGED <<addendum, request>> /\ s.user \in Specialists \cup {None}
    BY <1>2, <1>7 DEF SpecialistAccepts, AmendSession, At
  <2>2. HiredOK'
    BY <1>2, <1>7, <2>1 DEF SpecialistAccepts, HiredOK, SubStatus
  <2>3. QED
    BY <1>1, <1>2, <2>1, <2>2, PaperStill
<1>8. QED
  BY <1>4, <1>5, <1>6, <1>7 DEF AddendaAnswers

Procures(p) ==
  \/ \E hasPM \in BOOLEAN : InsertRequest(p, hasPM)
  \/ \E amount \in Amounts : AskOwner(p, amount) \/ VerifyProcurement(p, amount)

\* Requests for material, and the addenda that ask the owner for them.
LEMMA Procured ==
  ASSUME TradeInv, NEW p \in Clients, topic \in Amends, UNCHANGED <<tradeVars, topic>>, Procures(p)
  PROVE  TradeInv'
<1> DEFINE q == session[p].id
<1>1. /\ UNCHANGED <<hired, change, stages, site, contested, booked>>
      /\ session[p].at \in RequestPoints
  BY DEF Procures, InsertRequest, AskOwner, VerifyProcurement, At, RequestPoints
<1>2. /\ session[p] \in [at : RequestPoints, id : Requests] /\ q \in Requests
      /\ request \in [Requests -> RequestStatus] /\ HiredOK /\ booked \in [References -> Nat]
  BY <1>1 DEF TradeInv, Sessions, AmendSession, TradeRows, TradeTypeOK, AmendRows, AmendTypeOK
<1>3. ASSUME NEW hasPM \in BOOLEAN, InsertRequest(p, hasPM) PROVE TradeInv'
  <2>1. UNCHANGED addendum /\ request' \in [Requests -> RequestStatus]
    BY <1>2, <1>3 DEF InsertRequest, RequestStatus
  <2>2. AmendKeeps /\ AmendRows'
    BY <1>1, <1>2, <2>1, PaperStill, HiredStill
  <2>3. CASE Done(p)
    BY <1>1, <2>2, <2>3, SpentStill, AmendDone DEF TradeInv
  <2>4. CASE To(p, "askOwner")
    <3>1. PICK s : s = [session[p] EXCEPT !.at = "askOwner"]
      OBVIOUS
    <3>2. s \in [at : RequestPoints, id : Requests] /\ s.at = "askOwner"
      BY <1>2, <3>1 DEF RequestPoints
    <3>3. AmendSession(s)'
      BY <3>2 DEF AmendSession, RequestPoints, ChangePoints, DeletePoints
    <3>4. QED
      BY <1>1, <2>2, <2>4, <3>1, <3>3, SpentStill, AmendStep DEF To, TradeInv
  <2>5. QED
    BY <1>3, <2>3, <2>4 DEF InsertRequest
<1>4. ASSUME NEW amount \in Amounts, AskOwner(p, amount) \/ VerifyProcurement(p, amount) PROVE TradeInv'
  <2>1. Done(p) /\ Fresh # {} /\ request' \in [Requests -> RequestStatus]
    BY <1>2, <1>4 DEF AskOwner, VerifyProcurement, RequestStatus
  <2>2. UNCHANGED addendum \/ Ask(Min(Fresh), amount, None, q)
    BY <1>4 DEF AskOwner, VerifyProcurement
  <2>3. AmendKeeps /\ AmendRows'
    BY <1>1, <1>2, <2>1, <2>2, HiredStill, PaperStill, Asked
  <2>4. QED
    BY <1>1, <2>1, <2>3, SpentStill, AmendDone DEF TradeInv
<1>5. QED
  BY <1>3, <1>4 DEF Procures

ChangeWrites(p) == StoreChangeOrder(p) \/ WriteChange(p) \/ ApproveChange(p)

\* Change orders: whatever was read before, a second stage is refused.
LEMMA ChangeWritten ==
  ASSUME TradeInv, NEW p \in Clients, topic \in Amends, UNCHANGED <<tradeVars, topic>>, ChangeWrites(p)
  PROVE  TradeInv'
<1> DEFINE c == session[p].id
<1>1. /\ UNCHANGED <<paper, site, contested, booked>> /\ Done(p)
      /\ session[p].at \in {"change"} \cup ChangePoints
  BY DEF ChangeWrites, StoreChangeOrder, WriteChange, ApproveChange, At, ChangePoints
<1>2. /\ AmendSession(session[p]) /\ c \in Changes
      /\ change \in [Changes -> ChangeStatus] /\ stages \in [Changes -> Nat] /\ OneStagePerChange
  BY <1>1 DEF TradeInv, Sessions, AmendSession, AmendRows, AmendTypeOK
<1>3. change' \in [Changes -> ChangeStatus]
  <2>1. CASE StoreChangeOrder(p)
    BY <1>2, <2>1 DEF StoreChangeOrder, ChangeStatus
  <2>2. CASE WriteChange(p)
    BY <1>2, <2>2 DEF WriteChange, ChangeStatus, AmendSession, ChangePoints, At
  <2>3. CASE ApproveChange(p)
    BY <1>2, <2>3 DEF ApproveChange, ChangeStatus
  <2>4. QED
    BY <2>1, <2>2, <2>3 DEF ChangeWrites
<1>4. stages' \in [Changes -> Nat] /\ OneStagePerChange'
  <2>1. stages' = stages \/ stages' = [stages EXCEPT ![c] = 1]
    BY DEF ChangeWrites, StoreChangeOrder, WriteChange, ApproveChange
  <2>2. QED
    BY <1>2, <2>1 DEF OneStagePerChange
<1>5. AmendKeeps
  BY <1>1 DEF AmendKeeps, paper, TradeInv, TradeRows, TradeTypeOK
<1>6. AmendRows'
  BY <1>1, <1>3, <1>4 DEF TradeInv, AmendRows, AmendTypeOK, HiredOK, hired, AddendaKept,
       AddendumPaidIsBooked, StockHasHistory, paper, site
<1>7. QED
  BY <1>1, <1>5, <1>6, SpentStill, AmendDone DEF TradeInv

(***************************************************************************)
(* The requirement and its stock.                                          *)
(***************************************************************************)
\* Only the requirement and its history are written.
LEMMA SiteWritten ==
  ASSUME TradeInv, topic \in Amends, UNCHANGED <<tradeVars, topic>>, UNCHANGED <<paper, change, stages, contested, booked>>,
         requirement' \in [there : BOOLEAN, onSite : Nat, used : Nat, folder : BOOLEAN],
         history' \in [in : Nat, out : Nat, complete : BOOLEAN], StockHasHistory'
  PROVE  AmendKeeps /\ AmendRows'
BY TradeRefs DEF AmendKeeps, TradeInv, TradeRows, TradeTypeOK, AmendRows, AmendTypeOK, HiredOK, hired, AddendaKept,
   AddendumPaidIsBooked, OneStagePerChange, paper

StockWrites ==
  \/ \E folder \in BOOLEAN : StoreRequirement(folder) \/ MoveToFolder(folder)
  \/ \E n \in 1..MaxStock : Restock(n) \/ Use(n)

LEMMA StockWritten ==
  ASSUME TradeInv, topic \in Amends, UNCHANGED <<tradeVars, topic>>, StockWrites
  PROVE  TradeInv'
<1> DEFINE Shelf == [there : BOOLEAN, onSite : Nat, used : Nat, folder : BOOLEAN]
           Bins == [in : Nat, out : Nat, complete : BOOLEAN]
<1>1. UNCHANGED <<paper, change, stages, session, contested, booked>>
  BY DEF StockWrites, StoreRequirement, MoveToFolder, Restock, Use, gatewayVars
<1>2. requirement \in Shelf /\ history \in Bins /\ StockHasHistory
  BY DEF TradeInv, AmendRows, AmendTypeOK
<1>3. SUFFICES requirement' \in Shelf /\ history' \in Bins /\ StockHasHistory'
  BY <1>1, SiteWritten, SpentStill, AmendStepAlone DEF TradeInv
<1>4. ASSUME NEW folder \in BOOLEAN, StoreRequirement(folder)
      PROVE  requirement' \in Shelf /\ history' \in Bins /\ StockHasHistory'
  <2>1. NoRequirement \in Shelf /\ NoRequirement.onSite = 0 /\ NoRequirement.used = 0
    BY DEF NoRequirement
  <2>2. /\ requirement' = [NoRequirement EXCEPT !.there = TRUE, !.folder = folder]
        /\ history' = [in |-> 0, out |-> 0, complete |-> TRUE]
    BY <1>4 DEF StoreRequirement
  <2>3. requirement' \in Shelf /\ requirement'.onSite = 0 /\ requirement'.used = 0
    BY <2>1, <2>2
  <2>4. QED
    BY <2>2, <2>3 DEF StockHasHistory
<1>5. ASSUME NEW folder \in BOOLEAN, MoveToFolder(folder)
      PROVE  requirement' \in Shelf /\ history' \in Bins /\ StockHasHistory'
  <2>1. requirement' = [requirement EXCEPT !.folder = folder] /\ history' = history
    BY <1>5 DEF MoveToFolder
  <2>2. QED
    BY <1>2, <2>1 DEF StockHasHistory
<1>6. ASSUME NEW n \in 1..MaxStock, Restock(n)
      PROVE  requirement' \in Shelf /\ history' \in Bins /\ StockHasHistory'
  <2>1. requirement' = [requirement EXCEPT !.onSite = @ + n] /\ history' = [history EXCEPT !.in = @ + n]
    BY <1>6 DEF Restock
  <2>2. n \in Nat
    BY AmountsAreCosts
  <2>3. QED
    BY <1>2, <2>1, <2>2 DEF StockHasHistory
<1>7. ASSUME NEW n \in 1..MaxStock, Use(n)
      PROVE  requirement' \in Shelf /\ history' \in Bins /\ StockHasHistory'
  <2>1. /\ requirement' = [requirement EXCEPT !.onSite = @ - n, !.used = @ + n]
        /\ history' = [history EXCEPT !.out = @ + n] /\ requirement.onSite >= n
    BY <1>7 DEF Use
  <2>2. n \in Nat
    BY AmountsAreCosts
  <2>3. requirement.onSite - n \in Nat /\ requirement.used + n \in Nat /\ history.out + n \in Nat
    BY <1>2, <2>1, <2>2
  <2>4. /\ requirement' \in Shelf /\ requirement'.there = requirement.there
        /\ requirement'.onSite = requirement.onSite - n /\ requirement'.used = requirement.used + n
    BY <1>2, <2>1, <2>3
  <2>5. /\ history' \in Bins /\ history'.complete = history.complete
        /\ history'.in = history.in /\ history'.out = history.out + n
    BY <1>2, <2>1, <2>3
  <2>6. StockHasHistory'
    BY <1>2, <2>2, <2>4, <2>5 DEF StockHasHistory
  <2>7. QED
    BY <2>4, <2>5, <2>6
<1>8. QED
  BY <1>4, <1>5, <1>6, <1>7 DEF StockWrites

LEMMA UnlinkedFits ==
  ASSUME TradeInv, topic \in Amends, addendum' = Unlinked
  PROVE  /\ addendum' \in [Addenda -> AddendumRow]
         /\ \A a \in Addenda : /\ addendum'[a].status = addendum[a].status
                               /\ addendum'[a].amount = addendum[a].amount
                               /\ addendum'[a].counter = addendum[a].counter
<1>1. \A a \in Addenda : addendum[a] \in AddendumRow
  BY RowOf
<1>2. \A a \in Addenda : /\ addendum'[a] \in AddendumRow
                         /\ addendum'[a].status = addendum[a].status
                         /\ addendum'[a].amount = addendum[a].amount
                         /\ addendum'[a].counter = addendum[a].counter
  BY <1>1 DEF Unlinked, AddendumRow
<1>3. addendum' = [a \in Addenda |-> addendum'[a]]
  BY DEF Unlinked
<1>4. QED
  BY <1>2, <1>3

RequirementGoes(p) == DeleteHistory(p) \/ DeleteRequests(p) \/ DeleteRequirement(p)

\* Three statements, each its own transaction.
LEMMA RequirementGone ==
  ASSUME TradeInv, NEW p \in Clients, topic \in Amends, UNCHANGED <<tradeVars, topic>>, RequirementGoes(p)
  PROVE  TradeInv'
<1>1. /\ UNCHANGED <<hired, change, stages, contested, booked>>
      /\ session[p].at \in DeletePoints
  BY DEF RequirementGoes, DeleteHistory, DeleteRequests, DeleteRequirement, At, DeletePoints, paper
<1>2. /\ session[p] \in [at : DeletePoints] /\ AmendTypeOK /\ StockHasHistory
  BY <1>1 DEF TradeInv, Sessions, AmendSession, AmendRows
<1>3. /\ history' = history \/ history' = [in |-> 0, out |-> 0, complete |-> FALSE]
      /\ requirement' = requirement \/ requirement' = NoRequirement
      /\ history' # history \/ requirement' = NoRequirement \/ (requirement' = requirement /\ history' = history)
  BY DEF RequirementGoes, DeleteHistory, DeleteRequests, DeleteRequirement, site
<1>4. /\ history' \in [in : Nat, out : Nat, complete : BOOLEAN]
      /\ requirement' \in [there : BOOLEAN, onSite : Nat, used : Nat, folder : BOOLEAN]
  <2>1. NoRequirement \in [there : BOOLEAN, onSite : Nat, used : Nat, folder : BOOLEAN]
    BY DEF NoRequirement
  <2>2. [in |-> 0, out |-> 0, complete |-> FALSE] \in [in : Nat, out : Nat, complete : BOOLEAN]
    OBVIOUS
  <2>3. QED
    BY <1>2, <1>3, <2>1, <2>2 DEF AmendTypeOK
<1>5. StockHasHistory'
  <2>1. CASE history' = [in |-> 0, out |-> 0, complete |-> FALSE]
    BY <2>1 DEF StockHasHistory
  <2>2. CASE history' = history
    BY <1>2, <1>3, <2>2 DEF StockHasHistory, NoRequirement
  <2>3. QED
    BY <1>3, <2>1, <2>2
<1>6. /\ addendum' = addendum \/ addendum' = Unlinked
      /\ request' = request \/ request' = [q \in Requests |-> "none"]
  BY DEF RequirementGoes, DeleteHistory, DeleteRequests, DeleteRequirement, paper
<1>7. /\ addendum' \in [Addenda -> AddendumRow]
      /\ \A a \in Addenda : /\ addendum'[a].status = addendum[a].status
                            /\ addendum'[a].amount = addendum[a].amount
                            /\ addendum'[a].counter = addendum[a].counter
  BY <1>2, <1>6, UnlinkedFits DEF AmendTypeOK, AddendumRow
<1>8. request' \in [Requests -> RequestStatus]
  BY <1>2, <1>6 DEF AmendTypeOK, RequestStatus
<1>9. AmendKeeps
  BY <1>1, <1>7 DEF AmendKeeps, TradeInv, TradeRows, TradeTypeOK
<1>10. AmendRows'
  BY <1>1, <1>2, <1>4, <1>5, <1>7, <1>8 DEF TradeInv, AmendRows, AmendTypeOK, HiredOK, hired, AddendaKept,
       AddendumPaidIsBooked, OneStagePerChange, AddendumRow
<1>11. PICK s : s = session'[p]
  OBVIOUS
<1>12. session' = [session EXCEPT ![p] = s]
  BY <1>11 DEF RequirementGoes, DeleteHistory, DeleteRequests, DeleteRequirement, To, Done, TradeInv, Sessions
<1>13. s \in [at : DeletePoints] \/ s = Idle
  BY <1>2, <1>11 DEF RequirementGoes, DeleteHistory, DeleteRequests, DeleteRequirement, To, Done, TradeInv, Sessions,
                     DeletePoints
<1>14. AmendSession(s)'
  BY <1>9, <1>13, IdleFits, AmendSessionKept DEF AmendSession, RequestPoints, ChangePoints, DeletePoints
<1>15. QED
  BY <1>1, <1>9, <1>10, <1>12, <1>14, SpentStill, AmendStep DEF TradeInv

LEMMA AmendingPreserves == ASSUME TradeInv, Amending, UNCHANGED <<tradeVars, topic>> PROVE TradeInv'
<1>1. topic \in Amends
  BY DEF Amending, Amends
<1>2. CASE AddendumNext
  BY <1>1, <1>2, AmendBegin, AddendaByThemselves, AddendaAnswered
     DEF AddendumNext, AmendBegins, AddendaAlone, AddendaAnswers, Answers
<1>3. CASE ProcurementNext
  BY <1>1, <1>3, AmendBegin, AddendaByThemselves, Procured, RequirementGone
     DEF ProcurementNext, AmendBegins, AddendaAlone, Procures, RequirementGoes
<1>4. CASE StockNext
  BY <1>1, <1>4, StockWritten DEF StockNext, StockWrites
<1>5. CASE ChangeNext
  BY <1>1, <1>5, AmendBegin, ChangeWritten DEF ChangeNext, AmendBegins, ChangeWrites
<1>6. QED
  BY <1>1, <1>2, <1>3, <1>4, <1>5 DEF Amending

LEMMA LeavePreserves ==
  ASSUME TradeInv, topic \in Amends, NEW p \in Clients, Leave(p), UNCHANGED <<amendVars, tradeVars, topic>>
  PROVE  TradeInv'
<1>1. UNCHANGED <<contested, booked>> /\ Done(p)
  BY DEF Leave
<1>2. AmendKeeps
  BY <1>1 DEF AmendKeeps, TradeInv, TradeRows, TradeTypeOK, amendVars, paper
<1>3. AmendRows'
  BY <1>1 DEF TradeInv, AmendRows, amendVars, paper, hired, site, AmendTypeOK, HiredOK, AddendaKept, AddendumPaidIsBooked,
              OneStagePerChange, StockHasHistory
<1>4. QED
  BY <1>1, <1>2, <1>3, SpentStill, AmendDone DEF TradeInv

\* A dispute takes nothing back: it only stops what looks at it.
LEMMA ContestPreserves ==
  ASSUME TradeInv, Contest, UNCHANGED <<amendVars, tradeVars, topic>>
  PROVE  TradeInv'
<1>1. UNCHANGED <<session, booked>> /\ contested' \in BOOLEAN
  BY DEF Contest, TradeInv, TradeRows, TradeTypeOK
<1>2. AmendRows'
  BY <1>1 DEF TradeInv, AmendRows, amendVars, paper, hired, site, AmendTypeOK, HiredOK, AddendaKept, AddendumPaidIsBooked,
              OneStagePerChange, StockHasHistory
<1>3. CASE topic \in Amends
  <2>1. AmendKeeps
    BY <1>1, <1>3 DEF AmendKeeps, TradeInv, TradeRows, TradeTypeOK, amendVars, paper
  <2>2. QED
    BY <1>1, <1>2, <2>1, SpentStill, AmendStepAlone DEF TradeInv
<1>4. CASE topic \in Trades
  <2>1. TradeKeeps
    BY <1>1, <1>4 DEF TradeKeeps, tradeVars
  <2>2. TradeRows'
    BY <1>1 DEF TradeInv, TradeRows, TradeTypeOK, OrdersKept, JobsKept, PaidHasRow, BookedInFull, tradeVars, goods
  <2>3. QED
    BY <1>1, <2>1, <2>2, SpentStill, TradeStepAlone DEF TradeInv, tradeVars, goods
<1>5. QED
  BY <1>3, <1>4 DEF TradeInv

LEMMA TradeStutters ==
  ASSUME TradeInv, UNCHANGED <<tradeVars, amendVars, gatewayVars, topic>>
  PROVE  TradeInv'
<1>1. UNCHANGED <<session, contested, booked>>
  BY DEF gatewayVars
<1>2. AmendRows'
  BY <1>1 DEF TradeInv, AmendRows, amendVars, paper, hired, site, AmendTypeOK, HiredOK, AddendaKept, AddendumPaidIsBooked,
              OneStagePerChange, StockHasHistory
<1>3. CASE topic \in Amends
  <2>1. AmendKeeps
    BY <1>1, <1>3 DEF AmendKeeps, TradeInv, TradeRows, TradeTypeOK, amendVars, paper
  <2>2. QED
    BY <1>1, <1>2, <2>1, SpentStill, AmendStepAlone DEF TradeInv
<1>4. CASE topic \in Trades
  <2>1. TradeKeeps
    BY <1>1, <1>4 DEF TradeKeeps, tradeVars
  <2>2. TradeRows'
    BY <1>1 DEF TradeInv, TradeRows, TradeTypeOK, OrdersKept, JobsKept, PaidHasRow, BookedInFull, tradeVars, goods
  <2>3. QED
    BY <1>1, <2>1, <2>2, SpentStill, TradeStepAlone DEF TradeInv, tradeVars, goods
<1>5. QED
  BY <1>3, <1>4 DEF TradeInv

\* Every step of any topic preserves the invariant: a client begins, goes on,
\* is served by itself, goes away, or the freeze changes.
THEOREM TradeInvPreserved ==
  ASSUME TradeInv, [Next]_<<tradeVars, amendVars, gatewayVars, topic>>
  PROVE  TradeInv'
<1>1. CASE Next
  <2>1. UNCHANGED topic
    BY <1>1 DEF Next
  <2>2. CASE Trading /\ UNCHANGED amendVars
    BY <2>1, <2>2, TradingPreserves
  <2>3. CASE Amending /\ UNCHANGED tradeVars
    BY <2>1, <2>3, AmendingPreserves
  <2>4. ASSUME NEW p \in Clients, topic \in {"addenda", "specialists", "procurement", "changes"}, Leave(p),
               UNCHANGED <<amendVars, tradeVars>>
        PROVE  TradeInv'
    BY <2>1, <2>4, LeavePreserves DEF Amends
  <2>5. CASE Contest /\ UNCHANGED <<amendVars, tradeVars>>
    BY <2>1, <2>5, ContestPreserves
  <2>6. QED
    BY <1>1, <2>2, <2>3, <2>4, <2>5 DEF Next
<1>2. CASE UNCHANGED <<tradeVars, amendVars, gatewayVars, topic>>
  BY <1>2, TradeStutters
<1>3. QED
  BY <1>1, <1>2

(***************************************************************************)
(* The beginning.                                                          *)
(***************************************************************************)
LEMMA StartFits ==
  ASSUME NEW start \in {Blank} \cup {Ordered(f) : f \in Nat}, TradeInit(start)
  PROVE  TradeRows
<1>1. NoOrder \in OrderRow /\ NoOrder.status = "none" /\ ~NoOrder.taken
  BY DEF NoOrder, OrderRow, OrderStatus
<1>2. /\ quote = [status |-> IF start = Blank THEN "pending" ELSE "approved", proof |-> FALSE, ship |-> 0]
      /\ order = start.order /\ job = start.job /\ stock = 0 /\ onSite = 0 /\ lost = 0 /\ cancels = 0
      /\ reviewed = {} /\ contested = FALSE /\ booked = [r \in References |-> 0]
  BY DEF TradeInit, GatewayInit
<1>3. quote \in [status : QuoteStatus, proof : BOOLEAN, ship : Nat] /\ quote.status # "paid"
  BY <1>2 DEF QuoteStatus
<1>4. /\ \A o \in Orders : order[o] \in OrderRow /\ ~order[o].taken /\ order[o].status \in {"none", "pending"}
      /\ \A o \in Orders : order[o].status # "none" => order[o].price > 0
      /\ order = [o \in Orders |-> order[o]]
  <2>1. CASE start = Blank
    BY <1>1, <1>2, <2>1 DEF Blank
  <2>2. ASSUME NEW f \in Nat, start = Ordered(f)
        PROVE  /\ \A o \in Orders : order[o] \in OrderRow /\ ~order[o].taken /\ order[o].status \in {"none", "pending"}
               /\ \A o \in Orders : order[o].status # "none" => order[o].price > 0
               /\ order = [o \in Orders |-> order[o]]
    <3> DEFINE row == [NoOrder EXCEPT !.status = "pending", !.price = Goods + f, !.ship = f]
    <3>1. row \in OrderRow /\ row.status = "pending" /\ ~row.taken /\ row.price > 0
      <4>1. Goods + f \in Nat /\ Goods + f > 0
        BY PricesAreNats
      <4>2. QED
        BY <1>1, <4>1 DEF OrderRow, OrderStatus
    <3>2. order = [o \in Orders |-> IF o # Min(Orders) THEN NoOrder ELSE row]
      BY <1>2, <2>2 DEF Ordered
    <3> HIDE DEF row
    <3>3. QED
      BY <1>1, <3>1, <3>2
  <2>3. QED
    BY <2>1, <2>2
<1>5. /\ job \in [Jobs -> [status : JobStatus, order : Refs, courier : Couriers \cup {NoOne}]]
      /\ \A j \in Jobs : job[j].courier = NoOne
  <2>1. CASE start = Blank
    BY <1>2, <2>1 DEF Blank, JobStatus, Refs
  <2>2. ASSUME NEW f \in Nat, start = Ordered(f)
        PROVE  /\ job \in [Jobs -> [status : JobStatus, order : Refs, courier : Couriers \cup {NoOne}]]
               /\ \A j \in Jobs : job[j].courier = NoOne
    <3>1. Min(Orders) \in Orders
      BY OrderIds, MinIn
    <3>2. QED
      BY <1>2, <2>2, <3>1 DEF Ordered, JobStatus, Refs
  <2>3. QED
    BY <2>1, <2>2
<1>6. TradeTypeOK
  <2>1. order \in [Orders -> OrderRow]
    BY <1>4
  <2>2. booked \in [References -> Nat] /\ onSite \in 0..MaxOnSite /\ cancels \in 0..MaxCancels
    BY <1>2, BoundsAreNats
  <2>3. {stock, lost} \subseteq Int /\ reviewed \subseteq Orders
    BY <1>2
  <2>4. contested \in BOOLEAN
    <3>1. contested = FALSE
      BY <1>2
    <3>2. QED
      BY <3>1
  <2>5. QED
    BY <1>3, <1>5, <2>1, <2>2, <2>3, <2>4 DEF TradeTypeOK
<1>7. QED
  BY <1>2, <1>3, <1>4, <1>5, <1>6, TradeRefs DEF TradeRows, OrdersKept, JobsKept, PaidHasRow, BookedInFull

LEMMA StartUnheld ==
  ASSUME NEW start \in {Blank} \cup {Ordered(f) : f \in Nat}, TradeInit(start)
  PROVE  \A o \in Orders : ~order[o].taken
<1>1. ~NoOrder.taken /\ NoOrder \in OrderRow
  BY DEF NoOrder, OrderRow, OrderStatus
<1>2. order = start.order
  BY DEF TradeInit
<1>3. CASE start = Blank
  BY <1>1, <1>2, <1>3 DEF Blank
<1>4. ASSUME NEW f \in Nat, start = Ordered(f) PROVE \A o \in Orders : ~order[o].taken
  <2> DEFINE row == [NoOrder EXCEPT !.status = "pending", !.price = Goods + f, !.ship = f]
  <2>1. ~row.taken
    BY <1>1 DEF OrderRow
  <2>2. order = [o \in Orders |-> IF o # Min(Orders) THEN NoOrder ELSE row]
    BY <1>2, <1>4 DEF Ordered
  <2> HIDE DEF row
  <2>3. QED
    BY <1>1, <2>1, <2>2
<1>5. QED
  BY <1>3, <1>4

\* The invariant holds from the start on, for each initial choice of topic,
\* stock and rows that came before.
THEOREM TradeInvHolds == Init => TradeInv
<1>1. SUFFICES ASSUME Init PROVE TradeInv
  OBVIOUS
<1>2. PICK start \in {Blank} \cup {Ordered(f) : f \in Nat} : TradeInit(start)
  BY <1>1 DEF Init
<1>2a. PICK holder \in Specialists \cup {None} : AmendInit(holder)
  BY <1>1, SpecialistsAreWho DEF Init
<1>3. session = [p \in Clients |-> Idle] /\ booked = [r \in References |-> 0] /\ contested = FALSE
  BY <1>2 DEF TradeInit, GatewayInit
<1>4. topic \in Trades \cup Amends
  BY <1>1 DEF Init, Trades, Amends
<1>5. Sessions
  BY <1>3, IdleFits DEF Sessions
<1>6. TradeRows
  BY <1>2, StartFits
<1>7. AmendRows
  <2>1. NoAddendum \in AddendumRow /\ NoAddendum.status = "none"
    BY DEF NoAddendum, AddendumRow, AddendumStatus
  <2>2. addendum = [a \in Addenda |-> NoAddendum]
    BY <1>2a DEF AmendInit
  <2>3. requirement \in [there : BOOLEAN, onSite : Nat, used : Nat, folder : BOOLEAN]
        /\ requirement.onSite = 0 /\ requirement.used = 0
    BY <1>2a DEF AmendInit, NoRequirement
  <2>4. /\ request = [q \in Requests |-> "none"] /\ HiredOK /\ change = [c \in Changes |-> "none"]
        /\ stages = [c \in Changes |-> 0] /\ history = [in |-> 0, out |-> 0, complete |-> TRUE]
    BY <1>2a DEF AmendInit, HiredOK, NoSub, SubStatus
  <2>5. AmendTypeOK
    BY <2>1, <2>2, <2>3, <2>4 DEF AmendTypeOK, AddendumRow, RequestStatus, ChangeStatus
  <2>6. QED
    BY <2>1, <2>2, <2>3, <2>4, <2>5 DEF AmendRows, AddendaKept, AddendumPaidIsBooked, OneStagePerChange, StockHasHistory
<1>8. SpentIsCovered
  <2>1. SumOver(booked, References) = 0
    BY <1>3, FinitelyMany, SumZero
  <2>2. QED
    BY <2>1, SpentIsSum, ReferencesAreNats DEF SpentIsCovered
<1>9. StockIsAccounted
  <2>1. MapThenSumSet(Due, Clients) = 0
    BY <1>3, NothingDue DEF At, Idle
  <2>2. Holding = {} /\ stock = 0 /\ lost = 0
    <3>1. \A o \in Orders : ~order[o].taken
      BY <1>2, StartUnheld
    <3>2. QED
      BY <1>2, <3>1 DEF Holding, TradeInit
  <2>3. Cardinality(Holding) = 0
    BY <2>2, FS_EmptySet
  <2>4. QED
    BY <2>1, <2>2, <2>3, PricesAreNats DEF StockIsAccounted
<1>10. QED
  BY <1>4, <1>5, <1>6, <1>7, <1>8, <1>9 DEF TradeInv

(***************************************************************************)
(* What a step may do to the ledger, to a job and to an order.             *)
(***************************************************************************)
\* The order or quote a booking is for, and what it books, are a reference and an amount.
LEMMA TradeBooks ==
  ASSUME TradeInv, Trading
  PROVE  booked' = booked \/ \E r \in References, n \in Nat : Book(r, n)
<1>1. topic \in Trades
  BY DEF Trading, Trades
<1>2. ASSUME NEW p \in Clients, MarkQuotePaid(p)
      PROVE  booked' = booked \/ \E r \in References, n \in Nat : Book(r, n)
  <2>1. session[p].amount \in Nat /\ 0 \in References
    BY <1>1, <1>2, TradeRefs DEF MarkQuotePaid, At, TradeInv, Sessions, TradeSession
  <2>2. QED
    BY <1>2, <2>1 DEF MarkQuotePaid
<1>3. ASSUME NEW p \in Clients, BookOrder(p)
      PROVE  booked' = booked \/ \E r \in References, n \in Nat : Book(r, n)
  <2>1. session[p].id \in Orders
    BY <1>1, <1>3 DEF BookOrder, At, TradeInv, Sessions, TradeSession, UpdateRead, UpdatePoints
  <2>2. session[p].id \in References /\ order[session[p].id].price \in Nat
    BY <2>1, TradeRefs DEF TradeInv, TradeRows, TradeTypeOK, OrderRow
  <2>3. QED
    BY <1>3, <2>2 DEF BookOrder
<1>4. ASSUME NEW o \in Orders, AcceptMaterialProof(o)
      PROVE  booked' = booked \/ \E r \in References, n \in Nat : Book(r, n)
  <2>1. o \in References /\ order[o].price + order[o].ship \in Nat
    BY TradeRefs DEF TradeInv, TradeRows, TradeTypeOK, OrderRow
  <2>2. QED
    BY <1>4, <2>1 DEF AcceptMaterialProof
<1>5. CASE QuoteNext
  BY <1>2, <1>5 DEF QuoteNext, BeginQuoteProof, StoreQuoteProof, BeginMarkQuotePaid, BeginApproveQuote, ApproveQuote,
                    RequestQuotePayment, PostQuoteDeliveryJob
<1>6. CASE PaymentNext
  BY <1>3, <1>4, <1>6 DEF PaymentNext, BeginOrderProof, BeginMaterialProof, BeginVerifyOrder, StoreOrderProof,
                          StoreMaterialProof, WriteOrder, ClaimStock, MoveStock, RejectMaterialProof
<1>7. CASE FulfilNext
  BY <1>7 DEF FulfilNext, BeginConfirmReceipt, BeginUpdateOrder, WriteOrder, SyncSite, ClaimStock, MoveStock,
              ConfirmReceipt, AutoCompleteOrders
<1>8. CASE ReviewNext \/ CourierNext \/ \E p \in Clients : Cancel(p)
  BY <1>8 DEF ReviewNext, CourierNext, Cancel, BeginOrderReview, SyncArrived, StoreOrderReview, DestroyOrderReview,
              AcceptJob, BeginJobStatus, AdvanceQuote, WriteJobStatus
<1>9. QED
  BY <1>5, <1>6, <1>7, <1>8 DEF Trading

LEMMA AmendBooks ==
  ASSUME TradeInv, Amending
  PROVE  booked' = booked \/ \E r \in References, n \in Nat : Book(r, n)
<1>1. ASSUME NEW a \in Addenda, AcceptAddendumProof(a) \/ MarkPaidAddendum(a)
      PROVE  \E r \in References, n \in Nat : Book(r, n)
  <2>1. a \in References /\ addendum[a].amount \in Nat
    BY AddendaAreRefs, RowOf DEF AddendumRow
  <2>2. QED
    BY <1>1, <2>1 DEF AcceptAddendumProof, MarkPaidAddendum
<1>2. CASE AddendumNext
  BY <1>1, <1>2 DEF AddendumNext, CreateAddendum, BeginAddendumProof, BeginDecide, BeginHandle, DecideAddendum,
                    StoreAddendumProof, HandleAddendum, RejectAddendumProof, SpecialistAccepts, BeginJoin,
                    gatewayVars
<1>3. CASE ProcurementNext
  BY <1>3 DEF ProcurementNext, BeginRequest, BeginVerifyRequest, InsertRequest, AskOwner, VerifyProcurement,
              BeginDeleteRequirement, DeleteHistory, DeleteRequests, DeleteRequirement, RejectProcurement, gatewayVars
<1>4. CASE StockNext \/ ChangeNext
  BY <1>4 DEF StockNext, ChangeNext, StoreRequirement, MoveToFolder, Restock, Use, BeginChange, BeginChangeDecision,
              StoreChangeOrder, WriteChange, ApproveChange, gatewayVars
<1>5. QED
  BY <1>2, <1>3, <1>4 DEF Amending

\* A job that is taken is no longer on offer.
LEMMA JobKept ==
  ASSUME TradeInv, Trading, NEW j \in Jobs, job[j].courier # NoOne
  PROVE  job'[j].courier = job[j].courier
<1>1. job[j].status \notin {"none", "pending"} /\ job \in [Jobs -> [status : JobStatus, order : Refs, courier : Couriers \cup {NoOne}]]
  BY DEF TradeInv, TradeRows, JobsKept, TradeTypeOK
<1>2. ASSUME NEW o, NewJob(o, Min(Unused(job, Jobs))), Unused(job, Jobs) # {} PROVE job'[j] = job[j]
  <2>1. Unused(job, Jobs) \in SUBSET Nat
    BY OrderIds DEF Unused
  <2>2. Min(Unused(job, Jobs)) \in Unused(job, Jobs)
    BY <1>2, <2>1, MinIn
  <2>3. Min(Unused(job, Jobs)) # j
    BY <1>1, <2>2 DEF Unused
  <2>4. QED
    BY <1>1, <1>2, <2>3 DEF NewJob
<1>3. CASE QuoteNext
  <2>1. ASSUME NEW p \in Clients, NEW courier \in BOOLEAN, ApproveQuote(p, courier) PROVE job'[j] = job[j]
    BY <1>2, <2>1 DEF ApproveQuote
  <2>2. ASSUME NEW f \in Freights, PostQuoteDeliveryJob(f) PROVE job'[j] = job[j]
    BY <1>2, <2>2 DEF PostQuoteDeliveryJob
  <2>3. QED
    BY <1>3, <2>1, <2>2 DEF QuoteNext, BeginQuoteProof, StoreQuoteProof, BeginMarkQuotePaid, MarkQuotePaid,
                            BeginApproveQuote, RequestQuotePayment
<1>4. CASE CourierNext
  <2>1. ASSUME NEW p \in Clients, NEW i \in Jobs, NEW c \in Couriers, AcceptJob(p, i, c) PROVE job'[j] = job[j]
    BY <1>1, <2>1 DEF AcceptJob
  <2>2. ASSUME NEW p \in Clients, WriteJobStatus(p) PROVE job'[j].courier = job[j].courier
    BY <1>1, <2>2 DEF WriteJobStatus
  <2>3. QED
    BY <1>4, <2>1, <2>2 DEF CourierNext, BeginJobStatus, AdvanceQuote
<1>5. CASE PaymentNext
  BY <1>5 DEF PaymentNext, BeginOrderProof, BeginMaterialProof, BeginVerifyOrder, StoreOrderProof, StoreMaterialProof,
              BookOrder, WriteOrder, ClaimStock, MoveStock, RejectMaterialProof, AcceptMaterialProof
<1>6. CASE FulfilNext
  BY <1>6 DEF FulfilNext, BeginConfirmReceipt, BeginUpdateOrder, WriteOrder, SyncSite, ClaimStock, MoveStock,
              ConfirmReceipt, AutoCompleteOrders
<1>7. CASE ReviewNext \/ \E p \in Clients : Cancel(p)
  BY <1>7 DEF ReviewNext, Cancel, BeginOrderReview, SyncArrived, StoreOrderReview, DestroyOrderReview
<1>8. QED
  BY <1>3, <1>4, <1>5, <1>6, <1>7 DEF Trading

\* Only an approval makes an order: every other request writes to one it has read.
LEMMA OrderMade ==
  ASSUME TradeInv, Trading, NEW o \in Orders, order[o].status = "none", order'[o].status # "none"
  PROVE  quote.status # "approved"
<1>1. topic \in Trades /\ order \in [Orders -> OrderRow]
  BY DEF Trading, Trades, TradeInv, TradeRows, TradeTypeOK
<1>2. ASSUME NEW p \in Clients, session[p].at \in OrderPoints \cup UpdatePoints
      PROVE  session[p].id # o
  BY <1>1, <1>2 DEF TradeInv, Sessions, TradeSession, OrderPoints, UpdatePoints
<1>3. ASSUME NEW p \in Clients, StoreOrderProof(p) \/ StoreMaterialProof(p) \/ ConfirmReceipt(p) \/ SyncArrived(p)
             \/ WriteOrder(p) \/ ClaimStock(p)
      PROVE  FALSE
  <2>1. session[p].id # o
    BY <1>2, <1>3 DEF StoreOrderProof, StoreMaterialProof, ConfirmReceipt, SyncArrived, WriteOrder, ClaimStock, At,
                      OrderPoints, UpdatePoints
  <2>2. order'[o] = order[o]
    BY <1>1, <1>3, <2>1 DEF StoreOrderProof, StoreMaterialProof, ConfirmReceipt, SyncArrived, WriteOrder, ClaimStock,
                            SetOrder
  <2>3. QED
    BY <2>2
<1>4. ASSUME NEW x \in Orders, RejectMaterialProof(x) \/ AcceptMaterialProof(x) PROVE FALSE
  BY <1>1, <1>4 DEF RejectMaterialProof, AcceptMaterialProof, SetOrder
<1>5. CASE QuoteNext
  <2>1. PICK p \in Clients, courier \in BOOLEAN : ApproveQuote(p, courier)
    BY <1>5 DEF QuoteNext, BeginQuoteProof, StoreQuoteProof, BeginMarkQuotePaid, MarkQuotePaid,
                BeginApproveQuote, RequestQuotePayment, PostQuoteDeliveryJob
  <2>2. QED
    BY <2>1 DEF ApproveQuote
<1>6. CASE PaymentNext
  BY <1>3, <1>4, <1>6 DEF PaymentNext, BeginOrderProof, BeginMaterialProof, BeginVerifyOrder, BookOrder, MoveStock
<1>7. CASE FulfilNext
  <2>1. ASSUME NEW S \in SUBSET Orders, AutoCompleteOrders(S) PROVE FALSE
    BY <2>1 DEF AutoCompleteOrders
  <2>2. QED
    BY <1>3, <1>7, <2>1 DEF FulfilNext, BeginConfirmReceipt, BeginUpdateOrder, SyncSite, MoveStock
<1>8. CASE ReviewNext \/ CourierNext \/ \E p \in Clients : Cancel(p)
  BY <1>3, <1>8 DEF ReviewNext, CourierNext, Cancel, BeginOrderReview, StoreOrderReview, DestroyOrderReview,
                    AcceptJob, BeginJobStatus, AdvanceQuote, WriteJobStatus
<1>9. QED
  BY <1>5, <1>6, <1>7, <1>8 DEF Trading

(***************************************************************************)
(* What holds of every behaviour.                                          *)
(***************************************************************************)
\* TradeInv holds in every state of every behaviour.
THEOREM TradeInvariance == Spec => []TradeInv
<1>1. Init => TradeInv
  BY TradeInvHolds
<1>2. TradeInv /\ [Next]_<<tradeVars, amendVars, gatewayVars, topic>> => TradeInv'
  BY TradeInvPreserved
<1>3. QED
  BY <1>1, <1>2, PTL DEF Spec

\* The rows of quotes, orders, jobs, addenda, requests and change orders keep
\* the shapes the handlers write.
THEOREM TradeTypes == Spec => []TypeOK
<1>1. TradeInv => TypeOK
  BY DEF TradeInv, TradeRows, AmendRows, TypeOK
<1>2. QED
  BY <1>1, TradeInvariance, PTL

\* What left the stock is what the orders hold, what a request is just moving,
\* and what a cancelled request lost (claimOrderStock, moveOrderStock).
THEOREM StockAccounted == Spec => []StockIsAccounted
<1>1. TradeInv => StockIsAccounted
  BY DEF TradeInv
<1>2. QED
  BY <1>1, TradeInvariance, PTL

\* What is paid for on all paths together stays within what the ceiling left
\* (recordPaymentMinor).
THEOREM SpentCovered == Spec => []SpentIsCovered
<1>1. TradeInv => SpentIsCovered
  BY DEF TradeInv
<1>2. QED
  BY <1>1, TradeInvariance, PTL

\* A quote that reads as paid has a ledger row of at least its goods, and an order
\* one of at least its total, on either path and however stale what the request had
\* read (MarkPaidHandler, verifyOrderPayment, acceptVerifyRow).
THEOREM PaidFull == Spec => []PaidInFull
<1>1. TradeInv => PaidInFull
  <2>1. SUFFICES ASSUME TradeInv PROVE PaidInFull
    OBVIOUS
  <2>2. PaidHasRow /\ BookedInFull
    BY <2>1 DEF TradeInv, TradeRows
  <2>3. QED
    BY <2>2 DEF PaidHasRow, BookedInFull, PaidInFull
<1>2. QED
  BY <1>1, TradeInvariance, PTL

\* So has an addendum (acceptVerifyRow, markPaidAddendum).
THEOREM AddendumPaidBooked == Spec => []AddendumPaidIsBooked
<1>1. TradeInv => AddendumPaidIsBooked
  BY DEF TradeInv, AmendRows
<1>2. QED
  BY <1>1, TradeInvariance, PTL

\* However many approvals of a change order were decided on the same state, it
\* gets one payment stage (ChangeOrderDecisionHandler).
THEOREM OneStage == Spec => []OneStagePerChange
<1>1. TradeInv => OneStagePerChange
  BY DEF TradeInv, AmendRows
<1>2. QED
  BY <1>1, TradeInvariance, PTL

\* The stock on the site is what its history says, whatever deletions of the
\* requirement run beside (stockHandler, DeleteRequirementHandler).
THEOREM StockHistory == Spec => []StockHasHistory
<1>1. TradeInv => StockHasHistory
  BY DEF TradeInv, AmendRows
<1>2. QED
  BY <1>1, TradeInvariance, PTL

\* A payment of one reference that was booked is never booked again or changed,
\* on any path (the dedupe of recordPaymentMinor).
THEOREM TradeBooksOnce == Spec => BookedOnce
<1>1. ASSUME TradeInv, [Next]_<<tradeVars, amendVars, gatewayVars, topic>>
      PROVE  \A r \in References : booked[r] > 0 => booked'[r] = booked[r]
  <2>1. booked' = booked \/ \E r \in References, n \in Nat : Book(r, n)
    <3>1. CASE UNCHANGED <<tradeVars, amendVars, gatewayVars, topic>>
      BY <3>1 DEF gatewayVars
    <3>2. CASE Contest \/ \E p \in Clients : Leave(p)
      BY <3>2 DEF Contest, Leave
    <3>3. CASE Trading
      BY <1>1, <3>3, TradeBooks
    <3>4. CASE Amending
      BY <1>1, <3>4, AmendBooks
    <3>5. QED
      BY <1>1, <3>1, <3>2, <3>3, <3>4 DEF Next
  <2>2. QED
    BY <1>1, <2>1 DEF Book, TradeInv, TradeRows, TradeTypeOK
<1>2. QED
  BY <1>1, TradeInvariance, PTL DEF Spec, BookedOnce

\* The courier who has a job keeps it (LogisticsAcceptJobHandler).
THEOREM CouriersKeepJobs == Spec => CourierKeepsJob
<1>1. ASSUME TradeInv, [Next]_<<tradeVars, amendVars, gatewayVars, topic>>
      PROVE  \A j \in Jobs : job[j].courier # NoOne => job'[j].courier = job[j].courier
  <2>1. CASE Trading
    BY <1>1, <2>1, JobKept
  <2>2. CASE UNCHANGED tradeVars
    BY <2>2 DEF tradeVars
  <2>3. QED
    BY <1>1, <2>1, <2>2 DEF Next
<1>2. QED
  BY <1>1, TradeInvariance, PTL DEF Spec, CourierKeepsJob

\* An approval makes an order only of a quote that is not approved yet, however
\* many of them have read it before (ApproveQuoteHandler).
THEOREM OneOrder == Spec => OneOrderPerApproval
<1>1. ASSUME TradeInv, [Next]_<<tradeVars, amendVars, gatewayVars, topic>>
      PROVE  \A o \in Orders : order[o].status = "none" /\ order'[o].status # "none" => quote.status # "approved"
  <2>1. CASE Trading
    BY <1>1, <2>1, OrderMade
  <2>2. CASE UNCHANGED tradeVars
    BY <2>2 DEF tradeVars
  <2>3. QED
    BY <1>1, <2>1, <2>2 DEF Next
<1>2. QED
  BY <1>1, TradeInvariance, PTL DEF Spec, OneOrderPerApproval

=============================================================================
