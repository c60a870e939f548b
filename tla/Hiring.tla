------------------------------- MODULE Hiring -------------------------------
(***************************************************************************)
(* How one role of a project is filled: invitations and bids, negotiation, *)
(* the hire, the two signatures with the payment plan they sign, the fee   *)
(* of the bid itself, and the end of the contract.                         *)
(*                                                                         *)
(* Apart from the hire, which reads under the lock of the project, every   *)
(* handler decides on a bid it has read from the pool and writes it by id. *)
(* Amounts are small numbers; a payment plan is one token per signature,   *)
(* since its stages always add up to the value that was signed.            *)
(***************************************************************************)
EXTENDS Gateway, FiniteSets

CONSTANTS
  Bids,        \* ids of the bids, one per bidder
  Prices,      \* what may be asked for
  Limit,       \* rounds after which NegotiateBidFee refuses (5 in the code)
  MaxRounds,   \* bound: rounds ever written, ProposeFee knows no limit
  Nobody

ASSUME BidsAreRefs    == Bids \subseteq References \ {0} /\ Nobody \notin Bids
ASSUME PricesPositive == Prices \subseteq Nat \ {0} /\ MaxRounds \in Nat /\ Limit \in 0..MaxRounds

VARIABLES
  role,        \* which kind of role is filled
  managed,     \* the project has a PM, who must recommend
  bid,         \* bids
  hired,       \* the project's column of the role
  projectIs,   \* projects.status
  plan,        \* signed payment plans that are neither void nor deleted
  stagePaid,   \* a stage of the role is verifying or paid
  snapshot,    \* the plan in the signed contract document
  feeVerified  \* design_payment_verified_at is set

market    == <<role, managed>>
contract  == <<plan, stagePaid, snapshot>>
hireVars  == <<market, bid, hired, projectIs, contract, feeVerified>>

Roles      == {"arsitek", "kontraktor", "notaris", "specialist", "pm"}
BidStatus  == {"none", "pending", "shortlisted", "invited", "negotiating", "contract_pending",
               "awaiting_payment", "accepted", "active", "rejected", "declined", "terminated", "resigned"}
Contracted == {"contract_pending", "awaiting_payment", "accepted", "active"}
PayStatus  == {"unpaid", "pending", "verifying", "paid"}
ProjectIs  == {"open", "accepted_arsitek", "accepted_kontraktor", "awaiting_payment", "in_progress"}
Sides      == {"client", "pro"}

NoBid == [status |-> "none", pay |-> "unpaid", price |-> 0, offered |-> "none", agreed |-> FALSE,
          recommended |-> FALSE, rounds |-> 0, signed |-> FALSE]

(***************************************************************************)
(* Locks.  A hire or a decline holds the project row between two           *)
(* statements, a signature the row of its bid and the stages it deletes.   *)
(***************************************************************************)
Unlocked   == \A q \in Clients : session[q].at \notin {"hire", "decline"}
Free(b)    == \A q \in Clients : At(q, "signed") => session[q].id # b
StagesFree == \A q \in Clients : session[q].at \in {"replaced", "signed"} => session[q].old \cap plan = {}

Exists(b)       == bid[b].status # "none"
SetBid(b, row)  == Free(b) /\ bid' = [bid EXCEPT ![b] = row]
SetStatus(b, s) == SetBid(b, [bid[b] EXCEPT !.status = s])
\* Every other bid for the role that exists is turned down.
TurnDown(b, s)  == [c \in Bids |-> IF c = b \/ ~Exists(c) THEN bid[c] ELSE [bid[c] EXCEPT !.status = s]]

\* A request that has read bid b and will write it.
Read(p, point, b) == Serve(p, [at |-> point, id |-> b]) /\ UNCHANGED <<hireVars, contested, booked>>
OnlyBid           == UNCHANGED <<market, hired, projectIs, contract, feeVerified, contested, booked>>

(***************************************************************************)
(* Invitations and bids.                                                   *)
(***************************************************************************)
InviteProfessional(b) ==
  /\ ~Exists(b)
  /\ bid' = [bid EXCEPT ![b] = [NoBid EXCEPT !.status = "invited"]]
  /\ OnlyBid /\ UNCHANGED session

BeginSubmit(p, b) ==
  /\ hired = Nobody
  /\ ~Exists(b) \/ (role = "specialist" /\ bid[b].status = "invited")
  /\ Serve(p, [at |-> "submit", id |-> b, new |-> ~Exists(b)])
  /\ UNCHANGED <<hireVars, contested, booked>>

\* A new bid meets the unique index; an invited specialist's is updated by id.
SubmitProjectBid(p, price) ==
  LET b == session[p].id IN
  /\ At(p, "submit")
  /\ IF session[p].new
     THEN bid' = IF Exists(b) THEN bid ELSE [bid EXCEPT ![b] = [NoBid EXCEPT !.status = "pending", !.price = price]]
     ELSE SetBid(b, [bid[b] EXCEPT !.status = "pending", !.price = price])
  /\ Done(p) /\ OnlyBid

BeginAcceptInvite(p, b) == bid[b].status = "invited" /\ Read(p, "acceptInvite", b)
BeginShortlist(p, b) ==
  /\ bid[b].status = "pending" \/ (role # "pm" /\ bid[b].status \in {"negotiating", "invited"})
  /\ Read(p, "shortlist", b)

Shortlist(p) ==
  /\ session[p].at \in {"acceptInvite", "shortlist"}
  /\ SetStatus(session[p].id, "shortlisted")
  /\ Done(p) /\ OnlyBid

\* Neither looks at the status.
RejectInvite(b) ==
  /\ Exists(b)
  /\ SetStatus(b, "rejected")
  /\ OnlyBid /\ UNCHANGED session
DeclinePMBid(b) ==
  /\ role = "pm" /\ Exists(b)
  /\ SetStatus(b, "declined")
  /\ OnlyBid /\ UNCHANGED session

(***************************************************************************)
(* Negotiation.                                                            *)
(***************************************************************************)
BeginNegotiate(p, b, side) ==
  /\ Exists(b) /\ bid[b].offered # side /\ bid[b].rounds < Limit
  /\ Serve(p, [at |-> "negotiate", id |-> b, rounds |-> bid[b].rounds, side |-> side])
  /\ UNCHANGED <<hireVars, contested, booked>>

\* Whatever the status is, contracts included; the round is the one read plus one.
NegotiateBidFee(p, price) ==
  LET b == session[p].id IN
  /\ At(p, "negotiate")
  /\ SetBid(b, [bid[b] EXCEPT !.status = "negotiating", !.price = price, !.offered = session[p].side,
                              !.agreed = FALSE, !.rounds = session[p].rounds + 1])
  /\ Done(p) /\ OnlyBid

BeginPropose(p, b, side) ==
  /\ bid[b].status \in {"shortlisted", "negotiating"}
  /\ Serve(p, [at |-> "propose", id |-> b, side |-> side])
  /\ UNCHANGED <<hireVars, contested, booked>>

\* An agreement on the former fee stays.
ProposeFee(p, price) ==
  LET b == session[p].id IN
  /\ At(p, "propose") /\ bid[b].rounds < MaxRounds
  /\ SetBid(b, [bid[b] EXCEPT !.status = "negotiating", !.price = price, !.offered = session[p].side,
                              !.rounds = @ + 1])
  /\ Done(p) /\ OnlyBid

BeginConfirm(p, b, side) ==
  /\ Exists(b) /\ bid[b].offered # side
  /\ Serve(p, [at |-> "confirm", id |-> b,
               shortlists |-> side = "client" /\ bid[b].status \in {"negotiating", "invited"}])
  /\ UNCHANGED <<hireVars, contested, booked>>

ConfirmBidFee(p) ==
  LET b == session[p].id IN
  /\ At(p, "confirm")
  /\ SetBid(b, [bid[b] EXCEPT !.agreed = TRUE, !.status = IF session[p].shortlists THEN "shortlisted" ELSE @])
  /\ Done(p) /\ OnlyBid

(***************************************************************************)
(* The hire.                                                               *)
(***************************************************************************)
Hireable(b) ==
  /\ hired = Nobody /\ \A c \in Bids : bid[c].status \notin Contracted
  /\ bid[b].status \in {"shortlisted", "negotiating", "pending"} /\ bid[b].price > 0

\* Mutant: the project is read without its lock.
BeginAcceptUnlocked(p, b, byPM) ==
  /\ role # "pm" /\ Hireable(b) /\ (byPM => managed)
  /\ Serve(p, [at |-> "hire", id |-> b, byPM |-> byPM, recommended |-> bid[b].recommended])
  /\ UNCHANGED <<hireVars, contested, booked>>

BeginAccept(p, b, byPM) ==
  /\ Unlocked
  /\ role # "pm" /\ Hireable(b) /\ (byPM => managed)
  /\ Serve(p, [at |-> "hire", id |-> b, byPM |-> byPM, recommended |-> bid[b].recommended])
  /\ UNCHANGED <<hireVars, contested, booked>>

\* A PM only recommends; the owner of a managed project hires who is recommended.
AcceptBid(p) ==
  LET s == session[p]  b == s.id IN
  /\ At(p, "hire")
  /\ CASE s.byPM -> SetBid(b, [bid[b] EXCEPT !.recommended = TRUE, !.agreed = TRUE]) /\ UNCHANGED <<hired, projectIs>>
       [] ~s.byPM /\ managed /\ ~s.recommended -> UNCHANGED <<bid, hired, projectIs>>
       [] OTHER ->
            /\ \A c \in Bids : Free(c)
            /\ bid' = [TurnDown(b, "rejected") EXCEPT ![b].status = "contract_pending", ![b].agreed = TRUE]
            /\ hired' = IF role = "specialist" THEN hired ELSE b
            /\ projectIs' = IF role = "notaris" THEN "in_progress" ELSE projectIs
  /\ Done(p)
  /\ UNCHANGED <<market, contract, feeVerified, contested, booked>>

BeginDecline(p, b) ==
  /\ Unlocked
  /\ role # "pm" /\ bid[b].status \in {"pending", "shortlisted"}
  /\ Read(p, "decline", b)

DeclineBid(p) ==
  /\ At(p, "decline")
  /\ SetStatus(session[p].id, "rejected")
  /\ Done(p) /\ OnlyBid

BeginAcceptPM(p, b) ==
  /\ role = "pm" /\ hired = Nobody /\ bid[b].status \in {"shortlisted", "negotiating"}
  /\ Read(p, "acceptPM", b)

\* Not under the lock: the second of two writes the column again.
AcceptPMBid(p) ==
  LET b == session[p].id IN
  /\ At(p, "acceptPM") /\ Unlocked /\ \A c \in Bids : Free(c)
  /\ hired' = b
  /\ bid' = [TurnDown(b, "declined") EXCEPT ![b].status = "contract_pending"]
  /\ Done(p)
  /\ UNCHANGED <<market, projectIs, contract, feeVerified, contested, booked>>

(***************************************************************************)
(* The signatures.                                                         *)
(***************************************************************************)
\* signContractValue: of the first contracted bid, whoever signs.
ContractValue ==
  LET those == {b \in Bids : bid[b].status \in Contracted}
  IN IF those = {} THEN 0 ELSE bid[Min(those)].price

PlanTotal(S) == MapThenSumSet(LAMBDA t : t.value, S)

BeginSign(p, b) ==
  /\ bid[b].status = "contract_pending" /\ ~stagePaid /\ ContractValue > 0
  /\ Serve(p, [at |-> "sign", id |-> b, value |-> ContractValue])
  /\ UNCHANGED <<hireVars, contested, booked>>

\* The signature file is written first and stays; then the stages the transaction
\* sees are deleted and those of the new plan inserted.
ReplacePlan(p) ==
  LET s == session[p] IN
  /\ At(p, "sign") /\ StagesFree
  /\ SetBid(s.id, [bid[s.id] EXCEPT !.signed = TRUE])
  /\ session' = [session EXCEPT ![p] = [at |-> "replaced", id |-> s.id, value |-> s.value, old |-> plan]]
  /\ OnlyBid

\* Mutant: the stages are added up before the row of the bid is taken.
CheckPlanUnlocked(p) ==
  /\ At(p, "replaced")
  /\ IF plan \subseteq session[p].old /\ ~stagePaid THEN To(p, "signed") ELSE Done(p)
  /\ OnlyBid /\ UNCHANGED bid

\* The bid is updated before the stages are added up, so that two signatures of
\* one contract see each other; AssertPlanComplete refuses anything but the value.
CheckPlan(p) ==
  /\ At(p, "replaced") /\ Free(session[p].id)
  /\ IF plan \subseteq session[p].old /\ ~stagePaid THEN To(p, "signed") ELSE Done(p)
  /\ OnlyBid /\ UNCHANGED bid

\* Mutant: the client's signature on the former plan stands.
SignContractKeepsStatus(p) ==
  LET s == session[p] IN
  /\ At(p, "signed")
  /\ plan' = (plan \ s.old) \cup {[by |-> s.id, copy |-> p, value |-> s.value]}
  /\ Done(p)
  /\ UNCHANGED <<market, bid, hired, projectIs, stagePaid, snapshot, feeVerified, contested, booked>>

\* Whoever else signed meanwhile has to sign again.
SignContract(p) ==
  LET s == session[p] IN
  /\ At(p, "signed")
  /\ plan' = (plan \ s.old) \cup {[by |-> s.id, copy |-> p, value |-> s.value]}
  /\ bid' = [bid EXCEPT ![s.id].status = "contract_pending"]
  /\ Done(p)
  /\ UNCHANGED <<market, hired, projectIs, stagePaid, snapshot, feeVerified, contested, booked>>

BeginClientSign(p, b) ==
  /\ bid[b].status \in {"contract_pending", "awaiting_payment"} /\ bid[b].signed
  /\ PlanTotal(plan) = ContractValue /\ plan # {}
  /\ Read(p, "clientSign", b)

\* The document is built from the plan as it is once the row of the bid is taken.
ClientSignContract(p) ==
  LET b == session[p].id IN
  /\ At(p, "clientSign") /\ Unlocked
  /\ SetStatus(b, "awaiting_payment")
  /\ projectIs' = IF projectIs = "in_progress" THEN projectIs ELSE "awaiting_payment"
  /\ snapshot' = plan
  /\ Done(p)
  /\ UNCHANGED <<market, hired, plan, stagePaid, feeVerified, contested, booked>>

\* A stage is paid; a verified one activates an awaiting bid (checkAndActivateBid).
PayStage(activates) ==
  /\ plan # {} /\ Unlocked /\ StagesFree
  /\ stagePaid' = TRUE
  /\ LET awaiting == {b \in Bids : bid[b].status = "awaiting_payment"} IN
     IF activates /\ awaiting # {}
     THEN \E b \in awaiting : SetStatus(b, "accepted") /\ hired' = b
     ELSE UNCHANGED <<bid, hired>>
  /\ UNCHANGED <<market, projectIs, plan, snapshot, feeVerified, session, contested, booked>>

(***************************************************************************)
(* The end of the contract: by the owner or by the professional.           *)
(***************************************************************************)
BeginEnd(p, end) ==
  /\ hired # Nobody
  /\ Serve(p, [at |-> end, active |-> projectIs = "in_progress"])
  /\ UNCHANGED <<hireVars, contested, booked>>

\* The latest contract ends, the role is vacant, unpaid stages are void.
EndContract(p, end) ==
  LET those == {b \in Bids : bid[b].status \in Contracted} IN
  /\ At(p, end) /\ Unlocked /\ StagesFree
  /\ IF those = {} THEN UNCHANGED bid ELSE SetStatus(Max(those), end)
  /\ hired' = Nobody
  /\ plan' = IF stagePaid THEN plan ELSE {}
  /\ projectIs' = IF session[p].active THEN "open" ELSE projectIs
  /\ Done(p)
  /\ UNCHANGED <<market, stagePaid, snapshot, feeVerified, contested, booked>>

TerminateProfessional(p) == EndContract(p, "terminated")
ResignFromProject(p)     == EndContract(p, "resigned")

(***************************************************************************)
(* The fee of the bid.                                                     *)
(***************************************************************************)
BeginBidProof(p, b) ==
  /\ Exists(b) /\ ~contested
  /\ Read(p, "bidProof", b)

StoreBidProof(p) ==
  LET b == session[p].id IN
  /\ At(p, "bidProof")
  /\ bid' = IF bid[b].pay = "paid" \/ bid[b].status \in {"terminated", "resigned"} THEN bid
            ELSE [bid EXCEPT ![b].pay = "verifying"]
  /\ Done(p) /\ OnlyBid

\* Mutant: the payment gets the status of a rejected bid.
RejectBidProofAsBid(b) ==
  /\ bid[b].pay = "verifying" /\ bid[b].status \notin {"terminated", "resigned"}
  /\ SetBid(b, [bid[b] EXCEPT !.pay = "rejected"])
  /\ OnlyBid /\ UNCHANGED session

RejectBidProof(b) ==
  /\ bid[b].pay = "verifying" /\ bid[b].status \notin {"terminated", "resigned"}
  /\ SetBid(b, [bid[b] EXCEPT !.pay = "pending"])
  /\ OnlyBid /\ UNCHANGED session

transitionBidProjectStatus ==
  CASE role = "arsitek" /\ projectIs = "open"             -> "accepted_arsitek"
    [] role = "kontraktor" /\ projectIs = "accepted_arsitek" -> "in_progress"
    [] role = "kontraktor" /\ projectIs # "accepted_arsitek" -> "accepted_kontraktor"
    [] OTHER -> projectIs

AcceptBidProof(b) ==
  /\ bid[b].pay = "verifying" /\ bid[b].status \notin {"terminated", "resigned"}
  /\ Payable(b, bid[b].price)
  /\ SetBid(b, [bid[b] EXCEPT !.pay = "paid", !.status = "active"])
  /\ Book(b, bid[b].price)
  /\ projectIs' = transitionBidProjectStatus
  /\ UNCHANGED <<market, hired, contract, feeVerified, session, contested>>

\* markPaidBid asks for no proof and no status; a PM or an engineer gets the place.
MarkPaidBid(b) ==
  /\ Exists(b) /\ bid[b].pay # "paid" /\ Payable(b, bid[b].price)
  /\ SetBid(b, [bid[b] EXCEPT !.pay = "paid"])
  /\ Book(b, bid[b].price)
  /\ hired' = IF role = "specialist" \/ (role = "pm" /\ hired = Nobody) THEN b ELSE hired
  /\ UNCHANGED <<market, projectIs, contract, feeVerified, session, contested>>

\* markPaidRecommended, for the addendum that recommended an engineer: paid or not.
MarkPaidRecommended(b) ==
  /\ role = "specialist" /\ Exists(b)
  /\ bid[b].price > 0 => Payable(b, bid[b].price)
  /\ SetBid(b, [bid[b] EXCEPT !.pay = "paid"])
  /\ IF bid[b].price > 0 THEN Book(b, bid[b].price) ELSE UNCHANGED booked
  /\ hired' = b
  /\ UNCHANGED <<market, projectIs, contract, feeVerified, session, contested>>

BeginVerifyPayment(p) ==
  /\ role = "arsitek" /\ ~feeVerified /\ ~contested /\ hired # Nobody
  /\ Serve(p, [at |-> "verifyPayment"])
  /\ UNCHANGED <<hireVars, contested, booked>>

\* Mutant: the ledger row is somebody else's work.
VerifyPaymentUnbooked(p) ==
  /\ At(p, "verifyPayment") /\ feeVerified' = TRUE
  /\ LET those == {b \in Bids : bid[b].status = "accepted"} IN
     IF those = {} THEN UNCHANGED <<bid, booked>>
     ELSE \E b \in those : bid' = [bid EXCEPT ![b].pay = "paid"] /\ UNCHANGED booked
  /\ Done(p)
  /\ UNCHANGED <<market, hired, projectIs, contract, contested>>

\* Only an accepted bid is charged; without one the fee counts as verified all the same.
VerifyPayment(p) ==
  LET those == {b \in Bids : bid[b].status = "accepted"} IN
  /\ At(p, "verifyPayment") /\ ~contested
  /\ feeVerified' = TRUE
  /\ IF those = {} THEN UNCHANGED <<bid, booked>>
     ELSE \E b \in those : /\ Payable(b, bid[b].price)
                           /\ SetBid(b, [bid[b] EXCEPT !.pay = "paid"])
                           /\ Book(b, bid[b].price)
  /\ Done(p)
  /\ UNCHANGED <<market, hired, projectIs, contract, contested>>

(***************************************************************************)
(* The parts of the next-state relation.                                   *)
(***************************************************************************)
BidNext ==
  \/ \E b \in Bids : InviteProfessional(b) \/ RejectInvite(b)
  \/ \E p \in Clients, b \in Bids : BeginSubmit(p, b) \/ BeginAcceptInvite(p, b) \/ BeginShortlist(p, b) \/ BeginDecline(p, b)
  \/ \E p \in Clients : (\E price \in Prices : SubmitProjectBid(p, price)) \/ Shortlist(p) \/ DeclineBid(p)

HireNext ==
  \/ \E p \in Clients, b \in Bids : (\E byPM \in BOOLEAN : BeginAccept(p, b, byPM)) \/ BeginAcceptPM(p, b)
  \/ \E p \in Clients : AcceptBid(p) \/ AcceptPMBid(p)
  \/ \E b \in Bids : DeclinePMBid(b)

NegotiateNext ==
  \/ \E p \in Clients, b \in Bids, side \in Sides : BeginNegotiate(p, b, side) \/ BeginPropose(p, b, side) \/ BeginConfirm(p, b, side)
  \/ \E p \in Clients, price \in Prices : NegotiateBidFee(p, price) \/ ProposeFee(p, price)
  \/ \E p \in Clients : ConfirmBidFee(p)

SignNext ==
  \/ \E p \in Clients, b \in Bids : BeginSign(p, b) \/ BeginClientSign(p, b)
  \/ \E p \in Clients : ReplacePlan(p) \/ CheckPlan(p) \/ SignContract(p) \/ ClientSignContract(p)
  \/ \E activates \in BOOLEAN : PayStage(activates)

EndNext ==
  \/ \E p \in Clients, end \in {"terminated", "resigned"} : BeginEnd(p, end)
  \/ \E p \in Clients : TerminateProfessional(p) \/ ResignFromProject(p)

FeeNext ==
  \/ \E p \in Clients : (\E b \in Bids : BeginBidProof(p, b)) \/ StoreBidProof(p) \/ BeginVerifyPayment(p) \/ VerifyPayment(p)
  \/ \E b \in Bids : RejectBidProof(b) \/ AcceptBidProof(b) \/ MarkPaidBid(b) \/ MarkPaidRecommended(b)

HiringInit(r, m, bids, by, is) ==
  /\ role = r /\ managed = m
  /\ bid = bids
  /\ hired = by /\ projectIs = is
  /\ plan = {} /\ stagePaid = FALSE /\ snapshot = {}
  /\ feeVerified = FALSE

(***************************************************************************)
(* Properties.                                                             *)
(***************************************************************************)
HiringTypeOK ==
  /\ role \in Roles /\ managed \in BOOLEAN
  /\ hired \in Bids \cup {Nobody} /\ projectIs \in ProjectIs
  /\ stagePaid \in BOOLEAN /\ feeVerified \in BOOLEAN
  /\ \A t \in plan \cup snapshot : t \in [by : Bids, copy : Clients, value : Prices]
  /\ \A b \in Bids : bid[b] \in [status : BidStatus, pay : PayStatus, price : Prices \cup {0},
                                  offered : Sides \cup {"none"}, agreed : BOOLEAN, recommended : BOOLEAN,
                                  rounds : 0..MaxRounds, signed : BOOLEAN]

\* Two owners, or an owner twice, who accept two bids at a time hire one of them: the
\* column of the role is written by a hire only while it is empty (decisionProject
\* reads it under the lock of the project).
OneHire == [][\A p \in Clients : At(p, "hire") /\ session'[p].at = "idle" /\ hired' # hired => hired = Nobody]_<<session, hired>>

\* The copies of the payment plan that the contract of bid b brought.
Copies(S, b) == {t \in S : t.by = b}

\* However signatures of one contract overlap, the project is left with one payment
\* plan and not the stages of both (SignContractHandler).
OnePlanPerContract == \A b \in Bids : Cardinality(Copies(plan, b)) <= 1

\* The contract both have signed holds the payment plan that is in force while the
\* first payment is awaited (storeContractSnapshotTx).
SignedPlanIsPlan ==
  \A b \in Bids :
    /\ bid[b].status = "awaiting_payment" /\ hired = b
    /\ \A c \in Bids \ {b} : bid[c].status \notin Contracted
    => Copies(plan, b) = Copies(snapshot, b)

\* The fee of a bid counts as paid only with its row in the ledger.
BidPaidIsBooked == \A b \in Bids : bid[b].pay = "paid" /\ bid[b].price > 0 => booked[b] > 0
=============================================================================
