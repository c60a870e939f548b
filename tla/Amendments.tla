----------------------------- MODULE Amendments -----------------------------
(***************************************************************************)
(* What changes the plan and the cost of a running project: addenda, the   *)
(* procurement requests and specialist assignments that come with them,    *)
(* change orders, and the requirement whose stock the site uses up.        *)
(*                                                                         *)
(* An addendum is decided on what was read before the row was locked; only *)
(* its payment is decided under the lock.  One for a specialist is for the *)
(* one role there is: each of its handlers rewrites the role's row of      *)
(* project_sub_professionals in its own way, and two of them the place.    *)
(* An amount of zero, which books a ledger row of zero, and the addendum   *)
(* that recommends a bid, whose payment pays the bid too, are left out.    *)
(***************************************************************************)
EXTENDS Gateway, FiniteSets

CONSTANTS
  Addenda,     \* ids the addenda may get
  Amounts,     \* what may be asked for or offered
  Requests,    \* ids the procurement requests may get
  Changes,     \* ids the change orders may get
  Cost,        \* cost_impact of every change order
  MaxStock,    \* bound: units ever restocked
  Specialists, \* who may be assigned: users, and team members without an account
  Profiled,    \* those with a profile for the role
  None

ASSUME AddendaAreRefs    == Addenda \subseteq References \ {0}
ASSUME AmountsAreCosts   == Amounts \subseteq Nat \ {0} /\ Cost \in Nat \ {0} /\ MaxStock \in Nat
ASSUME SpecialistsAreWho == Profiled \subseteq Specialists /\ None \notin Specialists
ASSUME RequestIds        == Requests \subseteq Nat /\ Changes \subseteq Nat /\ None \notin Requests

VARIABLES
  addendum,    \* project_addendums
  request,     \* project_procurement_requests.status
  sub,         \* project_sub_professionals of the one specialist role
  place,       \* projects.structural_id and its like: whose profile has the place
  change,      \* project_change_orders.status
  stages,      \* how many payment stages each change order got
  requirement, \* project_requirements: there, on site, used, in a folder
  history      \* project_requirement_histories: units in, units out, complete

hired     == <<sub, place>>
paper     == <<addendum, request, hired>>
site      == <<requirement, history>>
amendVars == <<paper, change, stages, site>>

AddendumStatus == {"none", "pending_approval", "approved", "approved_unpaid", "verifying", "paid",
                   "rejected", "negotiating", "accepted_by_pro"}
RequestStatus  == {"none", "pending_pm", "pending_owner", "authorized", "rejected"}
SubStatus      == {"none", "invited", "accepted", "active"}
ChangeStatus   == {"none", "proposed", "pm_reviewed", "owner_approved", "rejected"}

NoAddendum == [status |-> "none", amount |-> 0, counter |-> None, for |-> None, request |-> None]
NoSub      == [status |-> "none", user |-> None, agreed |-> FALSE]
Fresh      == {a \in Addenda : addendum[a].status = "none"}
SetStatus(a, status) == addendum' = [addendum EXCEPT ![a].status = status]

(***************************************************************************)
(* Addenda.                                                                *)
(***************************************************************************)
Ask(a, amount, for, q) ==
  addendum' = [addendum EXCEPT ![a] = [NoAddendum EXCEPT !.status = "pending_approval", !.amount = amount,
                                                         !.for = for, !.request = q]]

CreateAddendum(amount, for) ==
  /\ Fresh # {}
  /\ Ask(Min(Fresh), amount, for, None)
  /\ UNCHANGED <<request, hired, change, stages, site, gatewayVars>>

\* Who may answer what: the owner or PM anything while it is open, the
\* professional only an open negotiation.
MayHandle(a, authoriser, new) ==
  IF authoriser THEN addendum[a].status \in {"pending_approval", "negotiating", "accepted_by_pro"}
  ELSE addendum[a].status = "negotiating" /\ new \in {"accepted_by_pro", "negotiating"}

BeginHandle(p, a, authoriser, new) ==
  /\ MayHandle(a, authoriser, new)
  /\ Serve(p, [at |-> "handle", id |-> a, authoriser |-> authoriser, new |-> new,
               open |-> addendum[a].status # "accepted_by_pro", counter |-> addendum[a].counter])
  /\ UNCHANGED <<amendVars, contested, booked>>

\* HandleAddendumHandler under the lock, on the status and the counter offer read
\* before it: an agreed amount only while it was open; accepting takes the counter
\* offer, and fails when it is gone, since the amount cannot be null.
HandleAddendum(p, amount, offer) ==
  LET s      == session[p]
      row    == addendum[s.id]
      adopts == s.new = "accepted_by_pro" /\ s.counter # None
      agreed == IF adopts THEN row.counter ELSE IF amount # None THEN amount ELSE row.amount
  IN
  /\ At(p, "handle")
  /\ IF (amount # None /\ ~s.open) \/ (adopts /\ row.counter = None) THEN UNCHANGED addendum
     ELSE addendum' = [addendum EXCEPT ![s.id] =
            [row EXCEPT !.status = s.new, !.amount = agreed,
                        !.counter = IF s.new = "negotiating" /\ s.authoriser THEN offer ELSE @]]
  /\ Done(p)
  /\ UNCHANGED <<request, hired, change, stages, site, contested, booked>>

\* Whoever has the row is replaced, by somebody who has not agreed; accepted_at
\* and the place stay.
inviteSpecialist(u) == sub' = [sub EXCEPT !.status = "invited", !.user = u] /\ UNCHANGED place

\* Who agreed before starts; accepted_at counts for the next user of the row.
acceptSpecialistAddendum(u) ==
  IF sub.status \in {"accepted", "active"} \/ sub.agreed
  THEN /\ sub' = [sub EXCEPT !.status = "active", !.user = u]
       /\ place' = IF u \in Profiled THEN u ELSE place
  ELSE /\ sub' = IF sub.status = "none" THEN [NoSub EXCEPT !.status = "invited", !.user = u] ELSE sub
       /\ UNCHANGED place

\* Starts unasked, and takes the place or, without a profile, empties it.
markPaidSpecialist(u) ==
  /\ sub' = [sub EXCEPT !.status = "active", !.user = u]
  /\ place' = IF u \in Profiled THEN u ELSE None

BeginDecide(p, a, approve) ==
  /\ addendum[a].status = "pending_approval"
  /\ Serve(p, [at |-> "decide", id |-> a, approve |-> approve, amount |-> addendum[a].amount])
  /\ UNCHANGED <<amendVars, contested, booked>>

Authorize(q) ==
  request' = IF q \in Requests /\ request[q] # "none" THEN [request EXCEPT ![q] = "authorized"] ELSE request

DecideAddendum(p) ==
  LET s == session[p]  row == addendum[s.id] IN
  /\ At(p, "decide")
  /\ IF s.approve THEN /\ SetStatus(s.id, IF s.amount > 0 THEN "approved_unpaid" ELSE "approved")
                       /\ IF s.amount > 0 /\ row.for # None THEN inviteSpecialist(row.for) ELSE UNCHANGED hired
                       /\ Authorize(row.request)
     ELSE SetStatus(s.id, "rejected") /\ UNCHANGED <<hired, request>>
  /\ Done(p)
  /\ UNCHANGED <<change, stages, site, contested, booked>>

\* The freeze is read before the transaction, the row in it.
BeginAddendumProof(p, a) ==
  /\ addendum[a].status # "none" /\ ~contested
  /\ Serve(p, [at |-> "addendumProof", id |-> a])
  /\ UNCHANGED <<amendVars, contested, booked>>

StoreAddendumProof(p) ==
  LET a == session[p].id IN
  /\ At(p, "addendumProof")
  /\ IF addendum[a].status = "paid" THEN UNCHANGED addendum ELSE SetStatus(a, "verifying")
  /\ Done(p)
  /\ UNCHANGED <<request, hired, change, stages, site, contested, booked>>

RejectAddendumProof(a) ==
  /\ addendum[a].status = "verifying"
  /\ SetStatus(a, "approved_unpaid")
  /\ UNCHANGED <<request, hired, change, stages, site, gatewayVars>>

\* acceptVerifyRow.
AcceptAddendumProof(a) ==
  /\ addendum[a].status = "verifying" /\ Payable(a, addendum[a].amount)
  /\ SetStatus(a, "paid")
  /\ Book(a, addendum[a].amount)
  /\ IF addendum[a].for # None THEN acceptSpecialistAddendum(addendum[a].for) ELSE UNCHANGED hired
  /\ UNCHANGED <<request, change, stages, site, session, contested>>

\* Mutant: the ledger is left to somebody else.
MarkPaidUnbooked(a) ==
  /\ addendum[a].status \notin {"none", "paid"}
  /\ SetStatus(a, "paid")
  /\ UNCHANGED <<request, hired, change, stages, site, gatewayVars>>

\* markPaidAddendum looks at no other status.
MarkPaidAddendum(a) ==
  /\ addendum[a].status \notin {"none", "paid"} /\ Payable(a, addendum[a].amount)
  /\ SetStatus(a, "paid")
  /\ Book(a, addendum[a].amount)
  /\ IF addendum[a].for # None THEN markPaidSpecialist(addendum[a].for) ELSE UNCHANGED hired
  /\ Authorize(addendum[a].request)
  /\ UNCHANGED <<change, stages, site, session, contested>>

\* The row is read before the transaction and written by id.
BeginJoin(p) ==
  /\ sub.status = "invited"
  /\ Serve(p, [at |-> "join", user |-> sub.user])
  /\ UNCHANGED <<amendVars, contested, booked>>

SpecialistAccepts(p) ==
  /\ At(p, "join")
  /\ sub' = [sub EXCEPT !.status = "accepted", !.agreed = TRUE]
  /\ place' = IF session[p].user \in Profiled THEN session[p].user ELSE place
  /\ Done(p)
  /\ UNCHANGED <<addendum, request, change, stages, site, contested, booked>>

(***************************************************************************)
(* Procurement requests.                                                   *)
(***************************************************************************)
BeginRequest(p, q) ==
  /\ requirement.there /\ ~contested /\ request[q] = "none"
  /\ Serve(p, [at |-> "request", id |-> q])
  /\ UNCHANGED <<amendVars, contested, booked>>

\* Without a PM the owner is asked by an addendum, in a second transaction.
InsertRequest(p, hasPM) ==
  LET q == session[p].id IN
  /\ At(p, "request") /\ request[q] = "none"
  /\ IF ~requirement.there THEN Done(p) /\ UNCHANGED request
     ELSE /\ request' = [request EXCEPT ![q] = IF hasPM THEN "pending_pm" ELSE "pending_owner"]
          /\ IF hasPM THEN Done(p) ELSE To(p, "askOwner")
  /\ UNCHANGED <<addendum, hired, change, stages, site, contested, booked>>

AskOwner(p, amount) ==
  /\ At(p, "askOwner") /\ Fresh # {}
  /\ IF request[session[p].id] = "none" THEN UNCHANGED addendum
     ELSE Ask(Min(Fresh), amount, None, session[p].id)
  /\ Done(p)
  /\ UNCHANGED <<request, hired, change, stages, site, contested, booked>>

BeginVerifyRequest(p, q) ==
  /\ request[q] = "pending_pm" /\ ~contested
  /\ Serve(p, [at |-> "verifyRequest", id |-> q])
  /\ UNCHANGED <<amendVars, contested, booked>>

\* By id, whatever its status is by now.
VerifyProcurement(p, amount) ==
  LET q == session[p].id IN
  /\ At(p, "verifyRequest") /\ Fresh # {}
  /\ IF request[q] = "none" THEN UNCHANGED <<addendum, request>>
     ELSE /\ request' = [request EXCEPT ![q] = "pending_owner"]
          /\ Ask(Min(Fresh), amount, None, q)
  /\ Done(p)
  /\ UNCHANGED <<hired, change, stages, site, contested, booked>>

RejectProcurement(q) ==
  /\ request[q] # "none"
  /\ request' = [request EXCEPT ![q] = "rejected"]
  /\ UNCHANGED <<addendum, hired, change, stages, site, gatewayVars>>

(***************************************************************************)
(* Change orders.                                                          *)
(***************************************************************************)
BeginChange(p, c) ==
  /\ change[c] = "none" /\ ~contested
  /\ Serve(p, [at |-> "change", id |-> c])
  /\ UNCHANGED <<amendVars, contested, booked>>

StoreChangeOrder(p) ==
  /\ At(p, "change") /\ change[session[p].id] = "none"
  /\ change' = [change EXCEPT ![session[p].id] = "proposed"]
  /\ Done(p)
  /\ UNCHANGED <<paper, stages, site, contested, booked>>

BeginChangeDecision(p, c, byPM, approve) ==
  /\ change[c] = "proposed" \/ (change[c] = "pm_reviewed" /\ ~byPM)
  /\ byPM \/ ~contested
  /\ Serve(p, [at |-> IF ~byPM /\ approve THEN "approveChange" ELSE "writeChange", id |-> c,
               new |-> IF byPM /\ approve THEN "pm_reviewed" ELSE "rejected"])
  /\ UNCHANGED <<amendVars, contested, booked>>

WriteChange(p) ==
  /\ At(p, "writeChange")
  /\ change' = [change EXCEPT ![session[p].id] = session[p].new]
  /\ Done(p)
  /\ UNCHANGED <<paper, stages, site, contested, booked>>

\* Mutant: the stages have no unique change order.
ApproveChangeTwice(p) ==
  LET c == session[p].id IN
  /\ At(p, "approveChange")
  /\ IF Cost > Left THEN UNCHANGED <<change, stages>>
     ELSE /\ stages' = [stages EXCEPT ![c] = @ + 1]
          /\ change' = [change EXCEPT ![c] = "owner_approved"]
  /\ Done(p)
  /\ UNCHANGED <<paper, site, contested, booked>>

\* The stage is inserted under the project lock; the unique change order of the
\* stages refuses a second one.
ApproveChange(p) ==
  LET c == session[p].id IN
  /\ At(p, "approveChange")
  /\ IF Cost > Left \/ stages[c] > 0 THEN UNCHANGED <<change, stages>>
     ELSE /\ stages' = [stages EXCEPT ![c] = 1]
          /\ change' = [change EXCEPT ![c] = "owner_approved"]
  /\ Done(p)
  /\ UNCHANGED <<paper, site, contested, booked>>

(***************************************************************************)
(* The requirement and its stock.                                          *)
(***************************************************************************)
NoRequirement == [there |-> FALSE, onSite |-> 0, used |-> 0, folder |-> FALSE]

StoreRequirement(folder) ==
  /\ ~requirement.there
  /\ requirement' = [NoRequirement EXCEPT !.there = TRUE, !.folder = folder]
  /\ history' = [in |-> 0, out |-> 0, complete |-> TRUE]
  /\ UNCHANGED <<paper, change, stages, gatewayVars>>

\* UpdateRequirementHandler writes neither column of the stock; DestroyMaterialFolder
\* takes its requirements out of the folder.
MoveToFolder(folder) ==
  /\ requirement.there
  /\ requirement' = [requirement EXCEPT !.folder = folder]
  /\ UNCHANGED <<paper, change, stages, history, gatewayVars>>

\* Mutant: what comes in is not written to the history.
RestockUnwritten(n) ==
  /\ requirement.there /\ requirement.onSite + requirement.used + n <= MaxStock
  /\ requirement' = [requirement EXCEPT !.onSite = @ + n]
  /\ UNCHANGED <<paper, change, stages, history, gatewayVars>>

\* stockHandler: the stock and its history row under the requirement's lock.
Restock(n) ==
  /\ requirement.there /\ requirement.onSite + requirement.used + n <= MaxStock
  /\ requirement' = [requirement EXCEPT !.onSite = @ + n]
  /\ history' = [history EXCEPT !.in = @ + n]
  /\ UNCHANGED <<paper, change, stages, gatewayVars>>

Use(n) ==
  /\ requirement.there /\ requirement.onSite >= n
  /\ requirement' = [requirement EXCEPT !.onSite = @ - n, !.used = @ + n]
  /\ history' = [history EXCEPT !.out = @ + n]
  /\ UNCHANGED <<paper, change, stages, gatewayVars>>

\* DeleteRequirementHandler: three statements, each its own transaction.
BeginDeleteRequirement(p) ==
  /\ requirement.there
  /\ Serve(p, [at |-> "deleteHistory"])
  /\ UNCHANGED <<amendVars, contested, booked>>

DeleteHistory(p) ==
  /\ At(p, "deleteHistory")
  /\ history' = [in |-> 0, out |-> 0, complete |-> FALSE]
  /\ To(p, "deleteRequests")
  /\ UNCHANGED <<paper, change, stages, requirement, contested, booked>>

Unlinked == [a \in Addenda |-> [addendum[a] EXCEPT !.request = None]]

DeleteRequests(p) ==
  /\ At(p, "deleteRequests")
  /\ request' = [q \in Requests |-> "none"]
  /\ addendum' = Unlinked
  /\ To(p, "deleteRequirement")
  /\ UNCHANGED <<hired, change, stages, site, contested, booked>>

\* What was added in between goes with the row.
DeleteRequirement(p) ==
  /\ At(p, "deleteRequirement")
  /\ requirement' = NoRequirement
  /\ history' = [in |-> 0, out |-> 0, complete |-> FALSE]
  /\ request' = [q \in Requests |-> "none"]
  /\ addendum' = Unlinked
  /\ Done(p)
  /\ UNCHANGED <<hired, change, stages, contested, booked>>

(***************************************************************************)
(* The system.                                                             *)
(***************************************************************************)
\* Somebody may have agreed to the role and taken the place.
AmendInit(holder) ==
  /\ addendum = [a \in Addenda |-> NoAddendum]
  /\ request = [q \in Requests |-> "none"]
  /\ sub = IF holder = None THEN NoSub ELSE [status |-> "accepted", user |-> holder, agreed |-> TRUE]
  /\ place = holder
  /\ change = [c \in Changes |-> "none"]
  /\ stages = [c \in Changes |-> 0]
  /\ requirement = [NoRequirement EXCEPT !.there = TRUE]
  /\ history = [in |-> 0, out |-> 0, complete |-> TRUE]
  /\ GatewayInit

AddendumNext ==
  \/ \E amount \in Amounts, for \in Specialists \cup {None} : CreateAddendum(amount, for)
  \/ \E p \in Clients, a \in Addenda :
       \/ BeginAddendumProof(p, a)
       \/ \E approve \in BOOLEAN : BeginDecide(p, a, approve)
       \/ \E authoriser \in BOOLEAN, new \in AddendumStatus \ {"none", "approved", "verifying", "paid"} :
            BeginHandle(p, a, authoriser, new)
  \/ \E p \in Clients : \/ DecideAddendum(p) \/ StoreAddendumProof(p) \/ BeginJoin(p) \/ SpecialistAccepts(p)
                        \/ \E amount, offer \in Amounts \cup {None} : HandleAddendum(p, amount, offer)
  \/ \E a \in Addenda : RejectAddendumProof(a) \/ AcceptAddendumProof(a) \/ MarkPaidAddendum(a)

ProcurementNext ==
  \/ \E p \in Clients, q \in Requests : BeginRequest(p, q) \/ BeginVerifyRequest(p, q)
  \/ \E p \in Clients : \/ \E hasPM \in BOOLEAN : InsertRequest(p, hasPM)
                        \/ \E amount \in Amounts : AskOwner(p, amount) \/ VerifyProcurement(p, amount)
                        \/ BeginDeleteRequirement(p) \/ DeleteHistory(p) \/ DeleteRequests(p)
                        \/ DeleteRequirement(p)
  \/ \E q \in Requests : RejectProcurement(q)

StockNext ==
  \/ \E folder \in BOOLEAN : StoreRequirement(folder) \/ MoveToFolder(folder)
  \/ \E n \in 1..MaxStock : Restock(n) \/ Use(n)

ChangeNext ==
  \/ \E p \in Clients, c \in Changes :
       BeginChange(p, c) \/ \E byPM, approve \in BOOLEAN : BeginChangeDecision(p, c, byPM, approve)
  \/ \E p \in Clients : StoreChangeOrder(p) \/ WriteChange(p) \/ ApproveChange(p)

(***************************************************************************)
(* Properties.                                                             *)
(***************************************************************************)
HiredOK ==
  /\ sub \in [status : SubStatus, user : Specialists \cup {None}, agreed : BOOLEAN]
  /\ place \in Specialists \cup {None}

AmendTypeOK ==
  /\ addendum \in [Addenda -> [status : AddendumStatus, amount : Nat, counter : Nat \cup {None},
                               for : Specialists \cup {None}, request : Requests \cup {None}]]
  /\ request \in [Requests -> RequestStatus]
  /\ HiredOK
  /\ change \in [Changes -> ChangeStatus] /\ stages \in [Changes -> Nat]
  /\ requirement \in [there : BOOLEAN, onSite : Nat, used : Nat, folder : BOOLEAN]
  /\ history \in [in : Nat, out : Nat, complete : BOOLEAN]

\* An addendum reads as paid only with its ledger row, although answers and
\* decisions that were based on an earlier state of the row still arrive.
AddendumPaidIsBooked == \A a \in Addenda : addendum[a].status = "paid" => booked[a] > 0

\* Two approvals of one change order, both based on a state before either, make
\* one payment stage (ChangeOrderDecisionHandler).
OneStagePerChange == \A c \in Changes : stages[c] <= 1

\* The stock on site is what the history says, unless a deletion of the
\* requirement stopped half-way (stockHandler, DeleteRequirementHandler).
StockHasHistory ==
  requirement.there /\ history.complete =>
    /\ requirement.onSite = history.in - history.out
    /\ requirement.used = history.out
=============================================================================
