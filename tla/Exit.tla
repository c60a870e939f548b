-------------------------------- MODULE Exit --------------------------------
(***************************************************************************)
(* How a project ends: a mutual termination one party asks for and the     *)
(* other answers, its escalation to a dispute, the completion or deletion  *)
(* by the owner, the termination by an administrator.                      *)
(*                                                                         *)
(* A termination that is asked for freezes the workspace by the status of  *)
(* the project; the answer is decided on a status read before and written  *)
(* by id, project and termination in one transaction.                      *)
(***************************************************************************)
EXTENDS Gateway

CONSTANTS
  Deals,      \* bound: mutual terminations of the project
  Parties     \* those who may ask for one

ASSUME OwnerIsParty == "owner" \in Parties

VARIABLES
  workspace,  \* projects.status, as far as the end of the project goes
  deal,       \* project_terminations
  engaged,    \* a professional holds a place, paid or built something
  deleted     \* projects.deleted_at is set

exitVars == <<workspace, deal, engaged, deleted>>

Over       == {"cancelled", "completed"}
Workspaces == Over \cup {"open", "in_progress", "termination_pending"}
DealStatus == {"none", "pending", "accepted", "rejected", "escalated"}
Answers    == {"accepted", "rejected"}
Owner      == "owner"
Decides    == {Owner, "pm"}

\* DbFreezer, before any handler but those of the mutual termination itself.
Frozen     == workspace = "termination_pending"
NoDeal     == [status |-> "none", by |-> Owner]

Reads(p, s) == Serve(p, s) /\ UNCHANGED <<exitVars, contested, booked>>

(***************************************************************************)
(* The mutual termination.                                                 *)
(***************************************************************************)
BeginInitiate(p, who) ==
  /\ workspace \notin Over /\ ~Frozen /\ ~deleted
  /\ Reads(p, [at |-> "initiate", who |-> who])

InitiateMutualTermination(p, d) ==
  /\ At(p, "initiate") /\ deal[d] = NoDeal
  /\ deal' = [deal EXCEPT ![d] = [status |-> "pending", by |-> session[p].who]]
  /\ workspace' = "termination_pending"
  /\ Done(p)
  /\ UNCHANGED <<engaged, deleted, contested, booked>>

\* The owner or the PM answers what somebody else asked for.
BeginRespond(p, d, who, answer) ==
  /\ deal[d].status = "pending" /\ who # deal[d].by
  /\ Reads(p, [at |-> "respond", id |-> d, answer |-> answer])

\* Mutant: a refusal leaves the project as it is.
RespondOnlyAccepts(p) ==
  LET s == session[p] IN
  /\ At(p, "respond")
  /\ deal' = [deal EXCEPT ![s.id].status = s.answer]
  /\ workspace' = IF s.answer = "accepted" THEN "cancelled" ELSE workspace
  /\ Done(p)
  /\ UNCHANGED <<engaged, deleted, contested, booked>>

\* Neither the termination nor the project is read again.
RespondMutualTermination(p) ==
  LET s == session[p] IN
  /\ At(p, "respond")
  /\ deal' = [deal EXCEPT ![s.id].status = s.answer]
  /\ workspace' = IF s.answer = "accepted" THEN "cancelled" ELSE "in_progress"
  /\ Done(p)
  /\ UNCHANGED <<engaged, deleted, contested, booked>>

BeginEscalate(p, d) ==
  /\ deal[d].status \in {"rejected", "escalated"}
  /\ Reads(p, [at |-> "escalate", id |-> d])

MarkEscalated(p) ==
  /\ At(p, "escalate")
  /\ deal' = [deal EXCEPT ![session[p].id].status = "escalated"]
  /\ To(p, "escalated")
  /\ UNCHANGED <<workspace, engaged, deleted, contested, booked>>

\* escalateTerminationDispute: an open dispute is looked for on the pool...
LookForDispute(p) ==
  /\ At(p, "escalated")
  /\ IF contested THEN Done(p) ELSE To(p, "dispute")
  /\ UNCHANGED <<exitVars, contested, booked>>

\* ...and one is opened, whatever was opened in between.
OpenDispute(p) ==
  /\ At(p, "dispute")
  /\ contested' = TRUE
  /\ Done(p)
  /\ UNCHANGED <<exitVars, booked>>

(***************************************************************************)
(* The other ends.                                                         *)
(***************************************************************************)
\* The status is compared again by the UPDATE itself.
AdminForceTerminate ==
  /\ workspace \notin Over
  /\ workspace' = "cancelled"
  /\ UNCHANGED <<deal, engaged, deleted, gatewayVars>>

BeginComplete(p) ==
  /\ workspace \notin Over /\ ~Frozen /\ ~deleted
  /\ Reads(p, [at |-> "complete"])

MarkComplete(p) ==
  /\ At(p, "complete")
  /\ workspace' = "completed"
  /\ Done(p)
  /\ UNCHANGED <<deal, engaged, deleted, contested, booked>>

BeginDestroy(p) ==
  /\ ~engaged /\ ~Frozen /\ ~deleted
  /\ Reads(p, [at |-> "destroy"])

DestroyProject(p) ==
  /\ At(p, "destroy")
  /\ deleted' = TRUE
  /\ Done(p)
  /\ UNCHANGED <<workspace, deal, engaged, contested, booked>>

\* A professional is hired, or a hire activated by its payment.
Engage(activates) ==
  /\ engaged' = TRUE
  /\ workspace' = IF activates THEN "in_progress" ELSE workspace
  /\ UNCHANGED <<deal, deleted, gatewayVars>>

\* The one contract ends, after its stages were settled.
BeginPart(p) ==
  /\ engaged /\ ~Frozen
  /\ Reads(p, [at |-> "part", active |-> workspace = "in_progress"])

Part(p) ==
  /\ At(p, "part")
  /\ workspace' = IF session[p].active THEN "open" ELSE workspace
  /\ engaged' = FALSE
  /\ Done(p)
  /\ UNCHANGED <<deal, deleted, contested, booked>>

\* A dispute ends with the cancellation of the project (cancel_project).
CancelProject ==
  /\ contested /\ contested' = FALSE
  /\ workspace' = "cancelled"
  /\ UNCHANGED <<deal, engaged, deleted, session, booked>>

DealNext ==
  \/ \E p \in Clients, who \in Parties : BeginInitiate(p, who)
  \/ \E p \in Clients, d \in Deals : InitiateMutualTermination(p, d) \/ BeginEscalate(p, d)
  \/ \E p \in Clients, d \in Deals, who \in Decides, answer \in Answers : BeginRespond(p, d, who, answer)
  \/ \E p \in Clients : RespondMutualTermination(p) \/ MarkEscalated(p) \/ LookForDispute(p) \/ OpenDispute(p)

EndingNext ==
  \/ AdminForceTerminate \/ CancelProject
  \/ \E activates \in BOOLEAN : Engage(activates)
  \/ \E p \in Clients : BeginComplete(p) \/ MarkComplete(p) \/ BeginDestroy(p) \/ DestroyProject(p) \/ BeginPart(p) \/ Part(p)

ExitInit ==
  /\ workspace = "open" /\ engaged = FALSE /\ deleted = FALSE
  /\ deal = [d \in Deals |-> NoDeal]

(***************************************************************************)
(* Properties.                                                             *)
(***************************************************************************)
ExitTypeOK ==
  /\ workspace \in Workspaces
  /\ deal \in [Deals -> [status : DealStatus, by : Parties]]
  /\ engaged \in BOOLEAN /\ deleted \in BOOLEAN

\* A workspace is frozen for termination only while somebody can still answer:
\* whatever races with the answer, the freeze has a pending termination behind it
\* (RespondMutualTerminationHandler writes both; DbFreezer reads the status alone).
FreezeHasPending == Frozen => \E d \in Deals : deal[d].status = "pending"
=============================================================================
