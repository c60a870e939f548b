-------------------------------- MODULE Teams --------------------------------
(***************************************************************************)
(* The specialists under a professional: sub-professionals who are         *)
(* invited, interviewed, recommended and hired into a place of the         *)
(* project, the engineering roles that are requested, authorized and       *)
(* integrated, and the vendors from outside the platform, whose fee is     *)
(* taken from the budget.                                                  *)
(*                                                                         *)
(* Decisions are made on the row a request has read and written by id.     *)
(* The payment of a bid or an addendum, the approval of an addendum and    *)
(* the end of a contract write the rows of the role and the place too,     *)
(* whoever has them; their own rows are in Amendments, Hiring and Exit.    *)
(***************************************************************************)
EXTENDS Gateway

CONSTANTS
  Subs,        \* bound: rows of project_sub_professionals
  Engineers,   \* users who may be asked
  Profiled,    \* those with a profile for the role, who may have the place
  Vendors,     \* bound: external vendors
  Fees,        \* what a vendor may ask
  Vacant       \* the place is empty

ASSUME VendorsAreRefs == Vendors \subseteq References /\ Fees \subseteq Nat
ASSUME VacantIsNobody == Vacant \notin Engineers /\ Profiled \subseteq Engineers

VARIABLES
  sub,         \* project_sub_professionals
  place,       \* the project's column of the sub role
  engBid,      \* status of each engineer's bid, "none" without one
  request,     \* project_addendums of type specialist_request
  needs,       \* requires_structural, requires_mep, requires_interior
  integrated   \* structural_approved_at and its like

engineering == <<request, needs, integrated>>
teamVars    == <<sub, place, engBid, engineering>>

SubStatus  == {"none", "invited", "interviewing", "accepted", "recommended", "active", "removed"}
EngBid     == {"none", "pending", "shortlisted", "recommended", "awaiting_payment", "declined"}
ReqStatus  == {"none", "pending_approval", "approved_unpaid", "authorized", "rejected"}
NoSub      == [status |-> "none", user |-> Vacant]
Used(i)    == sub[i].status # "none"
RowsOf(u)  == {i \in Subs : Used(i) /\ sub[i].user = u}
RoleRows   == {i \in Subs : Used(i)}

Considers(p, s)    == Serve(p, s) /\ UNCHANGED <<teamVars, contested, booked>>
OnlySub        == UNCHANGED <<engBid, engineering, contested, booked>>
OnlyTeam       == OnlySub /\ UNCHANGED session
SetSub(i, s)   == sub' = [sub EXCEPT ![i].status = s]

(***************************************************************************)
(* The place, by the profile of the user; without one nothing happens.     *)
(***************************************************************************)
linkSubSlot(u)   == place' = IF u \in Profiled THEN u ELSE place
unlinkSubSlot(u) == place' = IF place = u THEN Vacant ELSE place

(***************************************************************************)
(* Sub-professionals.                                                      *)
(***************************************************************************)
\* Whether the user has a row is read before the transaction; no index forbids two.
BeginAssign(p, u) ==
  /\ \A i \in RowsOf(u) : sub[i].status = "removed"
  /\ Considers(p, [at |-> "assign", user |-> u, rows |-> RowsOf(u)])

\* A company's own people need no invitation.
AssignSubProfessional(p, company) ==
  LET s == session[p]
      new == [status |-> IF company THEN "accepted" ELSE "invited", user |-> s.user] IN
  /\ At(p, "assign")
  /\ \E i \in Subs :
       /\ IF s.rows = {} THEN ~Used(i) ELSE i \in s.rows
       /\ sub' = [sub EXCEPT ![i] = new]
  /\ IF company THEN linkSubSlot(s.user) ELSE UNCHANGED place
  /\ Done(p) /\ OnlySub

\* interview and recommend ask for no status at all.
Allowed(verb) ==
  CASE verb = "accept"  -> {"invited"}
    [] verb = "decline" -> {"invited", "accepted", "interviewing", "recommended"}
    [] verb = "hire"    -> {"accepted", "recommended"}
    [] OTHER            -> SubStatus \ {"none"}

BeginDecide(p, i, verb) ==
  /\ Used(i) /\ sub[i].status \in Allowed(verb)
  /\ Considers(p, [at |-> verb, id |-> i, user |-> sub[i].user])

AcceptSub(p) ==
  LET s == session[p] IN
  /\ At(p, "accept")
  /\ SetSub(s.id, "accepted") /\ linkSubSlot(s.user)
  /\ Done(p) /\ OnlySub
DeclineSub(p) ==
  LET s == session[p] IN
  /\ At(p, "decline")
  /\ SetSub(s.id, "removed") /\ unlinkSubSlot(s.user)
  /\ Done(p) /\ OnlySub
InterviewSub(p) ==
  /\ At(p, "interview")
  /\ SetSub(session[p].id, "interviewing")
  /\ Done(p) /\ OnlySub /\ UNCHANGED place

\* The bid of a recommended engineer follows.
RecommendSub(p) ==
  LET s == session[p] IN
  /\ At(p, "recommend")
  /\ SetSub(s.id, "recommended")
  /\ engBid' = [engBid EXCEPT ![s.user] = IF @ = "none" THEN @ ELSE "recommended"]
  /\ Done(p)
  /\ UNCHANGED <<place, engineering, contested, booked>>
HireSub(p) ==
  LET s == session[p] IN
  /\ At(p, "hire")
  /\ SetSub(s.id, "active") /\ linkSubSlot(s.user)
  /\ Done(p) /\ OnlySub

\* Removing somebody leaves the place as it is.
RemoveSubProfessional(i) ==
  /\ Used(i)
  /\ SetSub(i, "removed")
  /\ OnlySub /\ UNCHANGED <<place, session>>

\* A shortlisted bidder becomes a sub-professional who is interviewed.
ShortlistSubBid(u) ==
  /\ engBid[u] # "none"
  /\ engBid' = [engBid EXCEPT ![u] = "shortlisted"]
  /\ \E i \in Subs :
       /\ IF RowsOf(u) = {} THEN ~Used(i) ELSE i \in RowsOf(u)
       /\ sub' = [sub EXCEPT ![i] = [status |-> "interviewing", user |-> u]]
  /\ UNCHANGED <<place, engineering, session, contested, booked>>

(***************************************************************************)
(* Other writers of the rows and of the place.                             *)
(***************************************************************************)
\* The one row a query without an order finds, or else a new one.
WriteRow(u, s) ==
  \E i \in Subs :
    /\ IF RoleRows = {} THEN ~Used(i) ELSE i \in RoleRows
    /\ sub' = [sub EXCEPT ![i] = [status |-> s, user |-> u]]

\* The owner marks an addendum paid: its specialist starts, and has the place or,
\* without a profile, empties it.
markPaidSpecialist(u) ==
  /\ WriteRow(u, "active")
  /\ place' = IF u \in Profiled THEN u ELSE Vacant
  /\ OnlyTeam

\* The payment of an addendum is verified: a row that was ever accepted (accepted_at
\* is not kept here) is its specialist's now; without any row one is invited.
acceptSpecialistAddendum(u) ==
  /\ WriteRow(u, IF RoleRows = {} THEN "invited" ELSE "active")
  /\ IF RoleRows = {} THEN UNCHANGED place ELSE linkSubSlot(u)
  /\ OnlyTeam

\* An addendum is approved: every row of the role is its specialist's.
inviteSpecialist(u) ==
  /\ IF RoleRows = {} THEN WriteRow(u, "invited")
     ELSE sub' = [i \in Subs |-> IF Used(i) THEN [status |-> "invited", user |-> u] ELSE sub[i]]
  /\ OnlyTeam /\ UNCHANGED place

\* A paid bid has the place, whoever had it.
PaidBidTakesPlace(u) ==
  /\ engBid[u] # "none"
  /\ place' = u
  /\ OnlyTeam /\ UNCHANGED sub

\* The contract of whoever has the place ends.
clearTerminationRole ==
  /\ place # Vacant
  /\ place' = Vacant
  /\ OnlyTeam /\ UNCHANGED sub

(***************************************************************************)
(* Engineering roles.                                                      *)
(***************************************************************************)
NoRequest == [status |-> "none", for |-> Vacant]

\* The request may name the user or team member it is for.
RequestEngineeringRole(named) ==
  /\ request = NoRequest
  /\ request' = [status |-> "pending_approval", for |-> named]
  /\ UNCHANGED <<sub, place, engBid, needs, integrated, gatewayVars>>

SetRequest(s) ==
  /\ request # NoRequest
  /\ request' = [request EXCEPT !.status = s]

\* Decisions on a request look at no status.
VerifyEngineeringRequest(approved) ==
  /\ SetRequest(CASE ~approved -> "rejected"
                  [] approved /\ request.for # Vacant -> "approved_unpaid"
                  [] OTHER -> "authorized")
  /\ needs' = (needs \/ approved)
  /\ UNCHANGED <<sub, place, engBid, integrated, gatewayVars>>
engineeringHireDecision(s) ==
  /\ SetRequest(s)
  /\ UNCHANGED <<sub, place, engBid, needs, integrated, gatewayVars>>
ApproveEngineeringIntegration ==
  /\ integrated' = TRUE
  /\ UNCHANGED <<sub, place, engBid, request, needs, gatewayVars>>

\* The bid the addendum recommends, if it was hired on the platform, awaits its payment.
AuthorizeSpecialist(u) ==
  /\ SetRequest("authorized")
  /\ engBid' = [engBid EXCEPT ![u] = IF @ = "none" THEN @ ELSE "awaiting_payment"]
  /\ UNCHANGED <<sub, place, needs, integrated, gatewayVars>>
RejectSpecialist ==
  /\ SetRequest("rejected")
  /\ UNCHANGED <<sub, place, engBid, needs, integrated, gatewayVars>>
RejectEngineeringBid(u) ==
  /\ engBid[u] # "none"
  /\ engBid' = [engBid EXCEPT ![u] = "declined"]
  /\ IF request = NoRequest THEN UNCHANGED request ELSE SetRequest("rejected")
  /\ UNCHANGED <<sub, place, needs, integrated, gatewayVars>>
SubmitEngineeringInterview(u) ==
  /\ engBid[u] # "none"
  /\ engBid' = [engBid EXCEPT ![u] = "recommended"]
  /\ UNCHANGED <<sub, place, engineering, gatewayVars>>

(***************************************************************************)
(* ImportExternalVendorHandler: the fee leaves the budget as an            *)
(* adjustment_down, under the lock of the project, so that what is left    *)
(* falls as it does by a payment.  The dispute is looked for before.       *)
(***************************************************************************)
BeginImport(p, v, fee) ==
  /\ booked[v] = 0 /\ (fee > 0 => ~contested)
  /\ Considers(p, [at |-> "import", id |-> v, fee |-> fee])

\* Mutant: the fee is held against the ceiling without what is spent already.
ImportUncovered(p) ==
  LET s == session[p] IN
  /\ At(p, "import")
  /\ s.fee <= Funds
  /\ Book(s.id, s.fee)
  /\ Done(p)
  /\ UNCHANGED <<teamVars, contested>>

ImportExternalVendor(p) ==
  LET s == session[p] IN
  /\ At(p, "import")
  /\ s.fee = 0 \/ Covered(s.id, s.fee)
  /\ Book(s.id, s.fee)
  /\ Done(p)
  /\ UNCHANGED <<teamVars, contested>>

SubNext ==
  \/ \E p \in Clients, u \in Engineers : BeginAssign(p, u)
  \/ \E p \in Clients, i \in Subs, verb \in {"accept", "decline", "interview", "recommend", "hire"} : BeginDecide(p, i, verb)
  \/ \E p \in Clients : \/ \E company \in BOOLEAN : AssignSubProfessional(p, company)
                        \/ AcceptSub(p) \/ DeclineSub(p) \/ InterviewSub(p) \/ RecommendSub(p) \/ HireSub(p)
  \/ \E i \in Subs : RemoveSubProfessional(i)
  \/ \E u \in Engineers : \/ ShortlistSubBid(u) \/ PaidBidTakesPlace(u)
                          \/ markPaidSpecialist(u) \/ acceptSpecialistAddendum(u) \/ inviteSpecialist(u)
  \/ clearTerminationRole

EngineeringNext ==
  \/ \E u \in Engineers : RequestEngineeringRole(u) \/ AuthorizeSpecialist(u) \/ RejectEngineeringBid(u) \/ SubmitEngineeringInterview(u)
  \/ RequestEngineeringRole(Vacant) \/ ApproveEngineeringIntegration \/ RejectSpecialist
  \/ \E approved \in BOOLEAN : VerifyEngineeringRequest(approved)
  \/ \E s \in {"authorized", "rejected"} : engineeringHireDecision(s)

VendorNext ==
  \/ \E p \in Clients, v \in Vendors, fee \in Fees : BeginImport(p, v, fee)
  \/ \E p \in Clients : ImportExternalVendor(p)

TeamInit ==
  /\ sub = [i \in Subs |-> NoSub] /\ place = Vacant
  /\ engBid = [u \in Engineers |-> IF u \in Profiled THEN "pending" ELSE "none"]
  /\ request = NoRequest /\ needs = FALSE /\ integrated = FALSE

(***************************************************************************)
(* Properties.                                                             *)
(***************************************************************************)
TeamTypeOK ==
  /\ sub \in [Subs -> [status : SubStatus, user : Engineers \cup {Vacant}]]
  /\ place \in Engineers \cup {Vacant}
  /\ engBid \in [Engineers -> EngBid]
  /\ request \in [status : ReqStatus, for : Engineers \cup {Vacant}]
  /\ needs \in BOOLEAN /\ integrated \in BOOLEAN
=============================================================================
