---------------------------- MODULE MaterialTrade ----------------------------
(***************************************************************************)
(* Material quotes, the orders that come out of them, the stock they take  *)
(* and the courier jobs that carry them.  One quote of one project; every  *)
(* order has the quote's goods, kept as one line of Lot units.             *)
(***************************************************************************)
EXTENDS Gateway, FiniteSets

CONSTANTS
  Orders,      \* ids the orders may get
  Jobs,        \* ids the delivery jobs may get
  Couriers,
  Lot,         \* units of the material one order takes
  Goods,       \* total_amount of the quote
  Freights,    \* the shipping costs a supplier may ask for within the tariff
  MaxCancels,  \* bound: requests whose client goes away
  MaxOnSite,   \* bound: units the site sync is asked to add
  NoOne

ASSUME OrderIds      == Orders \subseteq Nat \ {0} /\ Orders # {} /\ Jobs \subseteq Nat
ASSUME TradeRefs     == {0} \cup Orders \subseteq References
ASSUME PricesAreNats == Lot \in Nat \ {0} /\ Goods \in Nat \ {0} /\ Freights \subseteq Nat
ASSUME BoundsAreNats == MaxCancels \in Nat /\ MaxOnSite \in Nat
ASSUME NoOneIsNobody == NoOne \notin Couriers

VARIABLES
  quote,      \* material_quotes: status, proof, shipping_cost
  order,      \* material_orders
  job,        \* delivery_jobs
  stock,      \* materials.stock, relative to its start
  onSite,     \* project_requirements.quantity_on_site, relative to its start
  reviewed,   \* orders with a material_order_reviews row
  lost,       \* units whose move a cancelled request left undone
  cancels

goods     == <<stock, onSite, lost, cancels>>
tradeVars == <<quote, order, job, goods, reviewed>>

QuoteStatus == {"pending", "awaiting_payment", "awaiting_courier", "approved", "paid"}
OrderStatus == {"none", "pending", "processing", "ready_for_pickup", "awaiting_payment", "paid",
                "shipping", "delivered", "completed", "cancelled", "verifying"}
JobStatus   == {"none", "pending", "accepted", "picked_up", "delivered"}

OrderRow == [status : OrderStatus, proof : BOOLEAN, price : Nat, ship : Nat, taken : BOOLEAN]
NoOrder  == [status |-> "none", proof |-> FALSE, price |-> 0, ship |-> 0, taken |-> FALSE]

\* Ledger references: 0 is the quote, the others are the orders.
Refs == {0} \cup Orders

SetOrder(o, status) == order' = [order EXCEPT ![o].status = status]

(***************************************************************************)
(* Quotes.                                                                 *)
(***************************************************************************)
\* RequestQuotePaymentHandler looks at no status.
RequestQuotePayment(f) ==
  /\ quote' = [quote EXCEPT !.status = "awaiting_payment", !.ship = f]
  /\ UNCHANGED <<order, job, goods, reviewed, booked, contested, session>>

BeginQuoteProof(p) ==
  /\ quote.status = "awaiting_payment"
  /\ Serve(p, [at |-> "quoteProof"])
  /\ UNCHANGED <<quote, order, job, goods, reviewed, booked, contested>>

StoreQuoteProof(p) ==
  /\ At(p, "quoteProof")
  /\ quote' = [quote EXCEPT !.proof = TRUE]
  /\ Done(p)
  /\ UNCHANGED <<order, job, goods, reviewed, booked, contested>>

BeginMarkQuotePaid(p) ==
  /\ quote.proof /\ quote.status # "paid"
  /\ Serve(p, [at |-> "quotePaid", amount |-> Goods + quote.ship])
  /\ UNCHANGED <<quote, order, job, goods, reviewed, booked, contested>>

MarkQuotePaid(p) ==
  /\ At(p, "quotePaid")
  /\ IF ~Payable(0, session[p].amount) THEN UNCHANGED <<quote, booked>>
     ELSE Book(0, session[p].amount) /\ quote' = [quote EXCEPT !.status = "paid"]
  /\ Done(p)
  /\ UNCHANGED <<order, job, goods, reviewed, contested>>

BeginApproveQuote(p, f) ==
  /\ quote.status # "approved"
  /\ Serve(p, [at |-> "approve", ship |-> f])
  /\ UNCHANGED <<quote, order, job, goods, reviewed, booked, contested>>

Unused(f, ids) == {i \in ids : f[i].status = "none"}
NewJob(o, j)   == job' = [job EXCEPT ![j] = [status |-> "pending", order |-> o, courier |-> NoOne]]

\* Mutant: the status is not looked at again under the row lock.
ApproveQuoteUnlocked(p, courier) ==
  /\ At(p, "approve") /\ Unused(order, Orders) # {}
  /\ courier => Unused(job, Jobs) # {}
  /\ LET o == Min(Unused(order, Orders)) IN
     /\ quote' = [quote EXCEPT !.status = "approved"]
     /\ order' = [order EXCEPT ![o] = [NoOrder EXCEPT !.status = "pending", !.ship = session[p].ship,
                                                      !.price = Goods + session[p].ship]]
     /\ IF courier THEN NewJob(o, Min(Unused(job, Jobs))) ELSE UNCHANGED job
  /\ Done(p)
  /\ UNCHANGED <<goods, reviewed, booked, contested>>

\* The row lock of the transaction: only one approval makes an order.
ApproveQuote(p, courier) ==
  /\ At(p, "approve") /\ Unused(order, Orders) # {}
  /\ courier => Unused(job, Jobs) # {}
  /\ IF quote.status = "approved" THEN UNCHANGED <<quote, order, job>>
     ELSE LET o == Min(Unused(order, Orders)) IN
          /\ quote' = [quote EXCEPT !.status = "approved"]
          /\ order' = [order EXCEPT ![o] = [NoOrder EXCEPT !.status = "pending", !.ship = session[p].ship,
                                                           !.price = Goods + session[p].ship]]
          /\ IF courier THEN NewJob(o, Min(Unused(job, Jobs))) ELSE UNCHANGED job
  /\ Done(p)
  /\ UNCHANGED <<goods, reviewed, booked, contested>>

PostQuoteDeliveryJob(f) ==
  /\ Unused(job, Jobs) # {}
  /\ quote' = [quote EXCEPT !.status = "awaiting_courier", !.ship = f]
  /\ NewJob(0, Min(Unused(job, Jobs)))
  /\ UNCHANGED <<order, goods, reviewed, booked, contested, session>>

(***************************************************************************)
(* Orders: the payment.                                                    *)
(***************************************************************************)
BeginOrderProof(p, o) ==
  /\ order[o].status \in {"pending", "awaiting_payment"}
  /\ Serve(p, [at |-> "orderProof", id |-> o])
  /\ UNCHANGED <<quote, order, job, goods, reviewed, booked, contested>>

StoreOrderProof(p) ==
  /\ At(p, "orderProof")
  /\ order' = [order EXCEPT ![session[p].id].proof = TRUE]
  /\ Done(p)
  /\ UNCHANGED <<quote, job, goods, reviewed, booked, contested>>

\* The freeze is read before the transaction; storeMaterialProof takes any order
\* that is not paid or cancelled, under its lock.
BeginMaterialProof(p, o) ==
  /\ order[o].status # "none" /\ ~contested
  /\ Serve(p, [at |-> "materialProof", id |-> o])
  /\ UNCHANGED <<quote, order, job, goods, reviewed, booked, contested>>

StoreMaterialProof(p) ==
  LET o == session[p].id IN
  /\ At(p, "materialProof")
  /\ order' = IF order[o].status \in {"paid", "cancelled"} THEN order
              ELSE [order EXCEPT ![o].status = "verifying", ![o].proof = TRUE]
  /\ Done(p)
  /\ UNCHANGED <<quote, job, goods, reviewed, booked, contested>>

\* Mutant: the status of another table.
RejectMaterialProofAsStage(o) ==
  /\ order[o].status = "verifying"
  /\ SetOrder(o, "invoice_sent")
  /\ UNCHANGED <<quote, job, goods, reviewed, booked, contested, session>>

RejectMaterialProof(o) ==
  /\ order[o].status = "verifying"
  /\ SetOrder(o, "pending")
  /\ UNCHANGED <<quote, job, goods, reviewed, booked, contested, session>>

\* acceptVerifyRow asks for price and shipping, the other path for the price.
AcceptMaterialProof(o) ==
  LET amount == order[o].price + order[o].ship IN
  /\ order[o].status = "verifying" /\ Payable(o, amount)
  /\ Book(o, amount)
  /\ SetOrder(o, "paid")
  /\ UNCHANGED <<quote, job, goods, reviewed, contested, session>>

BeginVerifyOrder(p, o) ==
  /\ order[o].proof /\ ~contested
  /\ order[o].status \notin {"none", "paid", "shipping", "delivered", "completed", "cancelled"}
  /\ Serve(p, [at |-> "bookOrder", id |-> o, new |-> "paid", old |-> "paid"])
  /\ UNCHANGED <<quote, order, job, goods, reviewed, booked, contested>>

\* Mutant: a refused booking does not end the request.
BookOrderAnyway(p) ==
  LET o == session[p].id IN
  /\ At(p, "bookOrder")
  /\ IF ~Payable(o, order[o].price) THEN UNCHANGED booked ELSE Book(o, order[o].price)
  /\ To(p, "writeOrder")
  /\ UNCHANGED <<quote, order, job, goods, reviewed, contested>>

\* verifyOrderPayment: the booking commits before the status is written.
BookOrder(p) ==
  LET o == session[p].id IN
  /\ At(p, "bookOrder")
  /\ IF ~Payable(o, order[o].price) THEN Done(p) /\ UNCHANGED booked
     ELSE Book(o, order[o].price) /\ To(p, "writeOrder")
  /\ UNCHANGED <<quote, order, job, goods, reviewed, contested>>

(***************************************************************************)
(* Orders: fulfilment.                                                     *)
(***************************************************************************)
supplierOrderTransitions ==
  [pending          |-> {"processing", "cancelled"},
   awaiting_payment |-> {"processing", "cancelled"},
   processing       |-> {"ready_for_pickup", "shipping", "cancelled"},
   ready_for_pickup |-> {"shipping", "delivered"},
   shipping         |-> {"delivered"},
   paid             |-> {"processing", "shipping"}]

MayUpdate(o, new) ==
  LET old == order[o].status IN
  \/ new = "completed" /\ old = "delivered"
  \/ new = "cancelled" /\ old \in {"pending", "awaiting_payment"}
  \/ new = "paid" /\ old = "paid"
  \/ old \in DOMAIN supplierOrderTransitions /\ new \in supplierOrderTransitions[old]

BeginUpdateOrder(p, o, new) ==
  /\ MayUpdate(o, new)
  /\ Serve(p, [at |-> "writeOrder", id |-> o, new |-> new, old |-> order[o].status])
  /\ UNCHANGED <<quote, order, job, goods, reviewed, booked, contested>>

\* The status by id, whatever it is by now; then the site, then the stock.
WriteOrder(p) ==
  /\ At(p, "writeOrder")
  /\ SetOrder(session[p].id, session[p].new)
  /\ To(p, IF session[p].new = "delivered" /\ session[p].old # "delivered" THEN "site" ELSE "claim")
  /\ UNCHANGED <<quote, job, goods, reviewed, booked, contested>>

SyncSite(p) ==
  /\ At(p, "site") /\ onSite + Lot <= MaxOnSite
  /\ onSite' = onSite + Lot
  /\ To(p, "claim")
  /\ UNCHANGED <<quote, order, job, stock, lost, cancels, reviewed, booked, contested>>

\* Mutant: the flag is set without looking at it.
ClaimStockBlindly(p) ==
  LET take == session[p].new # "cancelled" IN
  /\ At(p, "claim")
  /\ order' = [order EXCEPT ![session[p].id].taken = take]
  /\ To(p, "move")
  /\ UNCHANGED <<quote, job, goods, reviewed, booked, contested>>

\* claimOrderStock: one conditional UPDATE decides who moves the stock.
ClaimStock(p) ==
  LET take == session[p].new # "cancelled" IN
  /\ At(p, "claim")
  /\ IF order[session[p].id].taken = take THEN Done(p) /\ UNCHANGED order
     ELSE /\ order' = [order EXCEPT ![session[p].id].taken = take]
          /\ To(p, "move")
  /\ UNCHANGED <<quote, job, goods, reviewed, booked, contested>>

\* The units this request still has to take from the stock.
Due(p) == IF ~At(p, "move") THEN 0 ELSE IF session[p].new = "cancelled" THEN -Lot ELSE Lot

MoveStock(p) ==
  /\ At(p, "move")
  /\ stock' = stock - Due(p)
  /\ Done(p)
  /\ UNCHANGED <<quote, order, job, onSite, lost, cancels, reviewed, booked, contested>>

BeginConfirmReceipt(p, o) ==
  /\ order[o].status = "delivered"
  /\ Serve(p, [at |-> "receipt", id |-> o])
  /\ UNCHANGED <<quote, order, job, goods, reviewed, booked, contested>>

ConfirmReceipt(p) ==
  /\ At(p, "receipt")
  /\ SetOrder(session[p].id, "completed")
  /\ Done(p)
  /\ UNCHANGED <<quote, job, goods, reviewed, booked, contested>>

\* Mutant: the sweep completes nothing.
AutoCompleteNone(S) == S = {} /\ UNCHANGED <<tradeVars, gatewayVars>>

\* The daily sweep; three days without a change have passed for these orders.
AutoCompleteOrders(S) ==
  /\ S # {} /\ \A o \in S : order[o].status = "delivered"
  /\ order' = [o \in Orders |-> IF o \in S THEN [order[o] EXCEPT !.status = "completed"] ELSE order[o]]
  /\ UNCHANGED <<quote, job, goods, reviewed, booked, contested, session>>

(***************************************************************************)
(* Reviews: a delivered job drags its order to delivered.                  *)
(***************************************************************************)
Arrived(o)     == order[o].status \in {"delivered", "completed"}
JobArrived(o)  == \E j \in Jobs : job[j].order = o /\ job[j].status = "delivered"

BeginOrderReview(p, o) ==
  /\ order[o].status # "none" /\ (Arrived(o) \/ JobArrived(o))
  /\ Serve(p, [at |-> IF Arrived(o) THEN "review" ELSE "arrive", id |-> o])
  /\ UNCHANGED <<quote, order, job, goods, reviewed, booked, contested>>

\* The order had not arrived when it was read; whatever it is now, it has.
SyncArrived(p) ==
  /\ At(p, "arrive")
  /\ SetOrder(session[p].id, "delivered")
  /\ To(p, "review")
  /\ UNCHANGED <<quote, job, goods, reviewed, booked, contested>>

StoreOrderReview(p) ==
  /\ At(p, "review")
  /\ reviewed' = reviewed \cup {session[p].id}
  /\ Done(p)
  /\ UNCHANGED <<quote, order, job, goods, booked, contested>>

DestroyOrderReview(o) ==
  /\ o \in reviewed
  /\ reviewed' = reviewed \ {o}
  /\ UNCHANGED <<quote, order, job, goods, booked, contested, session>>

(***************************************************************************)
(* Courier jobs.                                                           *)
(***************************************************************************)
\* Mutant: a job is given to whoever asks last.
AcceptJobAnyStatus(p, j, c) ==
  /\ job[j].status # "none"
  /\ job' = [job EXCEPT ![j].status = "accepted", ![j].courier = c]
  /\ Serve(p, [at |-> "advance", id |-> j])
  /\ UNCHANGED <<quote, order, goods, reviewed, booked, contested>>

AcceptJob(p, j, c) ==
  /\ job[j].status = "pending"
  /\ job' = [job EXCEPT ![j].status = "accepted", ![j].courier = c]
  /\ Serve(p, [at |-> "advance", id |-> j])
  /\ UNCHANGED <<quote, order, goods, reviewed, booked, contested>>

\* Every job that carries a quote id moves the quote, but only forward.
AdvanceQuote(p) ==
  /\ At(p, "advance")
  /\ quote' = IF quote.status = "pending" THEN [quote EXCEPT !.status = "awaiting_payment"] ELSE quote
  /\ Done(p)
  /\ UNCHANGED <<order, job, goods, reviewed, booked, contested>>

logisticsNextStatus ==
  [pending |-> {"accepted"}, accepted |-> {"picked_up", "delivered"}, picked_up |-> {"delivered"}]

BeginJobStatus(p, j, new) ==
  /\ job[j].courier # NoOne /\ job[j].status \in DOMAIN logisticsNextStatus
  /\ new \in logisticsNextStatus[job[j].status]
  /\ Serve(p, [at |-> "jobStatus", id |-> j, new |-> new])
  /\ UNCHANGED <<quote, order, job, goods, reviewed, booked, contested>>

WriteJobStatus(p) ==
  /\ At(p, "jobStatus")
  /\ job' = [job EXCEPT ![session[p].id].status = session[p].new]
  /\ Done(p)
  /\ UNCHANGED <<quote, order, goods, reviewed, booked, contested>>

(***************************************************************************)
(* The system.                                                             *)
(***************************************************************************)
Cancel(p) ==
  /\ ~At(p, "idle") /\ cancels < MaxCancels
  /\ cancels' = cancels + 1
  /\ lost' = lost + Due(p)
  /\ Done(p)
  /\ UNCHANGED <<quote, order, job, stock, onSite, reviewed, booked, contested>>

\* An order that came out of an approval, with its courier job.
Ordered(f) ==
  [order |-> [o \in Orders |-> IF o # Min(Orders) THEN NoOrder
                ELSE [NoOrder EXCEPT !.status = "pending", !.price = Goods + f, !.ship = f]],
   job   |-> [j \in Jobs |-> [status |-> IF j = Min(Jobs) THEN "pending" ELSE "none",
                              order |-> IF j = Min(Jobs) THEN Min(Orders) ELSE 0, courier |-> NoOne]]]
Blank ==
  [order |-> [o \in Orders |-> NoOrder],
   job   |-> [j \in Jobs |-> [status |-> "none", order |-> 0, courier |-> NoOne]]]

TradeInit(start) ==
  /\ quote = [status |-> IF start = Blank THEN "pending" ELSE "approved", proof |-> FALSE, ship |-> 0]
  /\ order = start.order /\ job = start.job
  /\ stock = 0 /\ onSite = 0 /\ lost = 0 /\ cancels = 0
  /\ reviewed = {}
  /\ GatewayInit

QuoteNext ==
  \/ \E p \in Clients :
       \/ BeginQuoteProof(p) \/ StoreQuoteProof(p) \/ BeginMarkQuotePaid(p) \/ MarkQuotePaid(p)
       \/ \E f \in Freights : BeginApproveQuote(p, f)
       \/ \E courier \in BOOLEAN : ApproveQuote(p, courier)
  \/ \E f \in Freights : RequestQuotePayment(f) \/ PostQuoteDeliveryJob(f)

PaymentNext ==
  \/ \E p \in Clients, o \in Orders : BeginOrderProof(p, o) \/ BeginMaterialProof(p, o) \/ BeginVerifyOrder(p, o)
  \/ \E p \in Clients : StoreOrderProof(p) \/ StoreMaterialProof(p) \/ BookOrder(p) \/ WriteOrder(p) \/ ClaimStock(p) \/ MoveStock(p)
  \/ \E o \in Orders : RejectMaterialProof(o) \/ AcceptMaterialProof(o)

FulfilNext ==
  \/ \E p \in Clients, o \in Orders :
       BeginConfirmReceipt(p, o) \/ \E new \in OrderStatus : BeginUpdateOrder(p, o, new)
  \/ \E p \in Clients : \/ WriteOrder(p) \/ SyncSite(p) \/ ClaimStock(p) \/ MoveStock(p)
                        \/ ConfirmReceipt(p)
  \/ \E S \in SUBSET Orders : AutoCompleteOrders(S)

ReviewNext ==
  \/ \E p \in Clients : \/ \E o \in Orders : BeginOrderReview(p, o)
                        \/ SyncArrived(p) \/ StoreOrderReview(p)
  \/ \E o \in Orders : DestroyOrderReview(o)

CourierNext ==
  \/ \E p \in Clients, j \in Jobs : \/ \E c \in Couriers : AcceptJob(p, j, c)
                                    \/ \E new \in JobStatus : BeginJobStatus(p, j, new)
  \/ \E p \in Clients : AdvanceQuote(p) \/ WriteJobStatus(p)

\* The sweep runs every day and takes every order that is old enough.
TradeFairness ==
  \A o \in Orders : WF_<<tradeVars, gatewayVars>>(\E S \in SUBSET Orders : o \in S /\ AutoCompleteOrders(S))

(***************************************************************************)
(* Properties.                                                             *)
(***************************************************************************)
TradeTypeOK ==
  /\ quote \in [status : QuoteStatus, proof : BOOLEAN, ship : Nat]
  /\ order \in [Orders -> OrderRow]
  /\ job \in [Jobs -> [status : JobStatus, order : Refs, courier : Couriers \cup {NoOne}]]
  /\ {stock, lost} \subseteq Int /\ onSite \in 0..MaxOnSite /\ cancels \in 0..MaxCancels
  /\ reviewed \subseteq Orders /\ booked \in [References -> Nat] /\ contested \in BOOLEAN

\* Stock leaves the shelf once for every order that holds it and comes back
\* once when it is cancelled, however updates, verifications and cancellations
\* of one order interleave: what is missing is what a request is just moving
\* (claimOrderStock, moveOrderStock) or lost when it was cancelled.
Holding == {o \in Orders : order[o].taken}
StockIsAccounted ==
  stock = MapThenSumSet(Due, Clients) + lost - Lot * Cardinality(Holding)

\* What reads as paid has a ledger row of at least what was agreed: the goods of
\* the quote, the total of the order.  Freight may be asked for anew after the
\* payment was read, and the status is written in a later statement than the
\* booking (verifyOrderPayment).
PaidInFull ==
  /\ quote.status = "paid" => booked[0] >= Goods
  /\ \A o \in Orders : order[o].status = "paid" => booked[o] >= order[o].price

\* The comment of verifyOrderPayment: "The ledger must therefore move exactly
\* total_price - adding shipping_cost again would charge shipping twice."
\* acceptVerifyRow, the other path to a paid order, adds it.
OrderIsBookedAtItsTotal == \A o \in Orders : booked[o] \in {0, order[o].price}

\* Two couriers accept one job: the first keeps it (LogisticsAcceptJobHandler).
CourierKeepsJob ==
  [][\A j \in Jobs : job[j].courier # NoOne => job'[j].courier = job[j].courier]_job

\* Concurrent approvals of one quote make one order.
OneOrderPerApproval ==
  [][\A o \in Orders : order[o].status = "none" /\ order'[o].status # "none"
       => quote.status # "approved"]_order

\* No order stays delivered for ever: the buyer confirms, or the sweep does.
DeliveredOrdersEnd == \A o \in Orders : []<>(order[o].status # "delivered")
=============================================================================
