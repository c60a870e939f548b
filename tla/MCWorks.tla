------------------------------- MODULE MCWorks -------------------------------
(***************************************************************************)
(* A small instance for TLC of the works of a project and of the people    *)
(* and records around it.  Every behaviour exercises one topic.            *)
(***************************************************************************)
EXTENDS Phases, Accounts, Records

CONSTANTS q1, q2, w1, w2, f1, f2, f3

VARIABLE topic

MCLists == {{"design"}, {"design", "legal"}}
Needs   == [Blank EXCEPT !.needed = {"design", "legal"}, !.status = "completed_build"]
Started == [Blank EXCEPT !.needed = {"design"}, !.listed = {"design"}, !.stamped = {"design"}, !.slf = TRUE]
Nothing == PhaseInit(Blank, {}, "locked")

Init ==
  /\ GatewayInit /\ AccountInit /\ RecordInit
  /\ \/ topic = "milestones" /\ PhaseInit(Blank, DesignMilestones, "locked")
     \/ topic = "approve" /\ PhaseInit(Blank, Milestones, "locked")
     \/ topic = "design" /\ PhaseInit(Blank, Milestones, "locked")
     \/ topic = "plan" /\ \E managed \in BOOLEAN : PhaseInit([Blank EXCEPT !.managed = managed], {}, "locked")
     \/ topic = "brief" /\ PhaseInit(Blank, {}, "locked")
     \/ topic = "handover" /\ PhaseInit(Blank, DesignMilestones, "locked")
     \/ topic = "accept" /\ PhaseInit(Needs, {}, "locked")
     \/ topic = "snags" /\ PhaseInit(Started, {}, "locked")
     \/ topic \in {"identity", "limits", "mail", "people", "bookings", "files", "schedule", "shelf", "workspace"} /\ Nothing

\* Bounds: one milestone with a history of its own, after one that is only
\* approved; one phase submitted at a time, and no construction stage paid.
OneInFocus   == /\ \A m \in DesignMilestones : milestone'[m] \in {Fresh, [Fresh EXCEPT !.approval = "approved", !.done = TRUE]}
                /\ \A m \in DesignMilestones : stage'[m] # "paid"
                /\ \A m \in LegalMilestones : ~milestone'[m].there
OneSubmitted == /\ Cardinality(site'.submitted) <= 1
                /\ \A m \in BuildMilestones : stage'[m] # "paid"

\* Bound: the rows of two kinds at a time.
FewShelves   == Cardinality({k \in Shelves : shelf'[k] # "none"}) <= 2

WorksNext ==
  \/ topic = "approve" /\ ApproveNext
  \/ topic = "milestones" /\ (ApproveNext \/ MilestoneNext) /\ OneInFocus
  \/ topic = "design" /\ DesignNext
  \/ topic = "plan" /\ PlanNext
  \/ topic = "brief" /\ BriefNext
  \/ topic = "handover" /\ PhaseNext /\ OneSubmitted
  \/ topic = "accept" /\ AcceptNext
  \/ topic = "snags" /\ SnagNext

AccountNext ==
  \/ topic = "identity" /\ IdentityNext
  \/ topic = "limits" /\ LimitNext
  \/ topic = "mail" /\ MailNext
  \/ topic = "people" /\ PeopleNext
  \/ topic = "bookings" /\ BookingNext

RecordNext ==
  \/ topic = "files" /\ FileNext
  \/ topic = "schedule" /\ ScheduleNext
  \/ topic = "shelf" /\ ShelfNext /\ FewShelves
  \/ topic = "workspace" /\ WorkspaceNext

Next ==
  /\ \/ WorksNext /\ UNCHANGED <<accountVars, recordVars>>
     \/ AccountNext /\ UNCHANGED <<phaseVars, recordVars>>
     \/ RecordNext /\ UNCHANGED <<phaseVars, accountVars>>
     \/ (\E p \in Clients : Leave(p)) /\ UNCHANGED <<phaseVars, accountVars, recordVars>>
     \/ topic \in {"approve", "people", "shelf"} /\ Contest /\ UNCHANGED <<phaseVars, accountVars, recordVars>>
  /\ UNCHANGED topic

vars == <<gatewayVars, phaseVars, accountVars, recordVars, topic>>

\* The tick of the scheduler comes again and again; clients owe nothing.
Tick(w) == topic = "mail" /\ WorkerStep(w) /\ UNCHANGED <<phaseVars, recordVars, topic>>

Spec == Init /\ [][Next]_vars /\ \A w \in Workers : WF_vars(Tick(w))

TypeOK == PhaseTypeOK /\ AccountTypeOK /\ RecordTypeOK
=============================================================================
