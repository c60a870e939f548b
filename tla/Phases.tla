------------------------------- MODULE Phases -------------------------------
(***************************************************************************)
(* The works of a project: milestones and the payment stages they unlock,  *)
(* the review of the design, planning, brief and permits, the handover of  *)
(* each phase, snags, extensions, and the acceptance by the owner.         *)
(*                                                                         *)
(* A handler that approves reads the stages of the milestone in one        *)
(* statement and sets them to 'pending' by id in another; a payment may    *)
(* commit in between.  Everything decided on the project row (the phases   *)
(* completed, the brief, the deadline) is decided on a row read before the *)
(* transaction.                                                            *)
(***************************************************************************)
EXTENDS Gateway

CONSTANTS
  DesignMilestones, BuildMilestones, LegalMilestones,  \* by phase_context
  HandedOver,   \* bound: the phases handed over
  PhaseLists,   \* bound: the lists of phases an owner writes by hand
  Snags,        \* bound: defects reported
  Extensions,   \* bound: extensions asked for
  MaxDeadline,  \* bound: how far the deadline is moved
  StagePrice    \* the amount of a payment stage

Milestones == DesignMilestones \cup BuildMilestones \cup LegalMilestones

ASSUME MilestonesAreReferences == Milestones \subseteq References
ASSUME AmountsAreNats == StagePrice \in Nat /\ MaxDeadline \in Nat

VARIABLES
  milestone,   \* project_milestones
  document,    \* the document of each milestone in the vault
  stage,       \* the payment stage linked to each milestone
  site,        \* the row of the project, as far as the works go
  snag,        \* project_snag_items
  extension    \* project_timeline_extensions

phaseVars == <<milestone, document, stage, site, snag, extension>>

Phase      == {"design", "construction", "interior", "legal"}
ASSUME PhasesHandedOver == HandedOver \subseteq Phase

Approval   == {"pending", "in_progress", "reviewed", "revision", "approved", ""}
DocStatus  == {"none", "under_review", "verified", "revision_requested"}
StageState == {"locked", "pending", "paid"}
Planning   == {"draft", "proposed", "pm_verified", "approved"}
Brief      == {"draft", "pending_review", "revision_requested", "approved"}
SiteStatus == {"open", "in_progress", "completed_build", "completed", "cancelled"}
SnagStatus == {"none", "open", "in_progress", "resolved", "accepted"}
ExtStatus  == {"none", "proposed", "pm_reviewed", "approved", "rejected"}
Deciders   == {"owner", "pm"}

NoMilestone == [there |-> FALSE, approval |-> "pending", done |-> FALSE, fee |-> FALSE]
Fresh       == [NoMilestone EXCEPT !.there = TRUE]
Exists(m)   == milestone[m].there
PhaseOf(m)  == IF m \in DesignMilestones THEN "design" ELSE IF m \in BuildMilestones THEN "construction" ELSE "legal"

Reads(p, s)   == Serve(p, s) /\ UNCHANGED <<phaseVars, contested, booked>>
Answer(p)     == Done(p) /\ UNCHANGED <<contested, booked>>
Site(change)  == site' = [x \in DOMAIN site |-> IF x \in DOMAIN change THEN change[x] ELSE site[x]]
Stamps(p, change) == Site(change) /\ Answer(p) /\ UNCHANGED <<milestone, document, stage, snag, extension>>
Rewrites(change)  == Site(change) /\ UNCHANGED <<milestone, document, stage, snag, extension, gatewayVars>>

(***************************************************************************)
(* Stages and documents follow their milestones.                           *)
(***************************************************************************)
\* The stages of ms a handler is about to unlock.
LinkedStages(ms) == {m \in ms : Exists(m) /\ stage[m] \in {"locked", "pending"}}

\* UPDATE ... SET status = 'pending' WHERE id: whatever the stage has become.
Unlock(ms) == stage' = [m \in Milestones |-> IF m \in ms THEN "pending" ELSE stage[m]]

Approve(ms) == milestone' = [m \in Milestones |-> IF m \in ms /\ Exists(m) THEN [milestone[m] EXCEPT !.approval = "approved", !.done = TRUE] ELSE milestone[m]]

Filed(row) == IF row.approval = "approved" \/ row.done THEN "verified" ELSE "under_review"

\* The vault follows the milestones ms, as the transaction leaves them.
SyncVault(ms) == document' = [m \in Milestones |-> IF m \in ms /\ Exists(m) THEN Filed(milestone'[m]) ELSE document[m]]

\* The stage is paid, and booked once, under the project lock.
PayStage(m) ==
  /\ stage[m] = "pending" /\ Payable(m, StagePrice)
  /\ stage' = [stage EXCEPT ![m] = "paid"]
  /\ Book(m, StagePrice)
  /\ UNCHANGED <<milestone, document, site, snag, extension, session, contested>>

(***************************************************************************)
(* Milestones.                                                             *)
(***************************************************************************)
UnderReview(m) == PhaseOf(m) \in site.submitted

\* A building permit is verified, or a milestone of the design that stands for it.
Permitted == site.pbg \/ \E n \in DesignMilestones : Exists(n) /\ milestone[n].approval = "approved"

BeginStoreMilestone(p, m, who) ==
  /\ milestone[m] = NoMilestone
  /\ who \in Deciders \/ ~UnderReview(m)
  /\ m \in BuildMilestones => Permitted
  /\ Reads(p, [at |-> "store", id |-> m])

\* Milestone, fee and document are three statements, each committed alone.
StoreMilestone(p) ==
  LET m == session[p].id IN
  /\ At(p, "store") /\ ~Exists(m)
  /\ milestone' = [milestone EXCEPT ![m] = Fresh]
  /\ To(p, "stored")
  /\ UNCHANGED <<document, stage, site, snag, extension, contested, booked>>

RequestFee(p) ==
  /\ At(p, "stored") /\ Exists(session[p].id)
  /\ milestone' = [milestone EXCEPT ![session[p].id].fee = TRUE]
  /\ To(p, "fee")
  /\ UNCHANGED <<document, stage, site, snag, extension, contested, booked>>

syncMilestoneVault(p) ==
  LET m == session[p].id IN
  /\ At(p, "stored") \/ At(p, "fee")
  /\ document' = IF Exists(m) THEN [document EXCEPT ![m] = Filed(milestone[m])] ELSE document
  /\ Answer(p)
  /\ UNCHANGED <<milestone, stage, site, snag, extension>>

BeginUpdateMilestone(p, m, who) ==
  /\ Exists(m)
  /\ who \in Deciders \/ ~UnderReview(m)
  /\ Reads(p, [at |-> "update", id |-> m, who |-> who])

\* A professional may take an approved milestone back; only owner and PM complete it.
UpdateMilestone(p, approval, done) ==
  LET m == session[p].id IN
  /\ At(p, "update")
  /\ session[p].who \in Deciders \/ done = milestone[m].done
  /\ milestone' = IF Exists(m) THEN [milestone EXCEPT ![m].approval = IF approval = "kept" THEN @ ELSE approval, ![m].done = done] ELSE milestone
  /\ SyncVault({m})
  /\ Answer(p)
  /\ UNCHANGED <<stage, site, snag, extension>>

UpdateApproved(p) ==
  /\ At(p, "update") /\ session[p].who \in Deciders
  /\ session' = [session EXCEPT ![p] = [at |-> "approve", ids |-> {@.id}, audit |-> FALSE]]
  /\ UNCHANGED <<phaseVars, contested, booked>>

\* The lead professional reviews what is pending, by the row read before.
BeginLeadReview(p, m) ==
  /\ Exists(m) /\ milestone[m].approval = "pending"
  /\ Reads(p, [at |-> "review", id |-> m])

LeadReview(p) ==
  LET m == session[p].id IN
  /\ At(p, "review")
  /\ milestone' = IF Exists(m) THEN [milestone EXCEPT ![m].approval = "reviewed"] ELSE milestone
  /\ Answer(p)
  /\ UNCHANGED <<document, stage, site, snag, extension>>

BeginApproveMilestone(p, m) ==
  /\ Exists(m)
  /\ Reads(p, [at |-> "approve", ids |-> {m}, audit |-> FALSE])

ReadStages(p) ==
  /\ At(p, "approve")
  /\ session' = [session EXCEPT ![p] = [at |-> "unlock", ids |-> @.ids, audit |-> @.audit, stages |-> LinkedStages(@.ids)]]
  /\ UNCHANGED <<phaseVars, contested, booked>>

ApproveMilestone(p) ==
  /\ At(p, "unlock")
  /\ Approve(session[p].ids) /\ SyncVault(session[p].ids)
  /\ Unlock(session[p].stages)
  /\ Site([approved |-> IF session[p].audit THEN site.approved \cup {"structural"} ELSE site.approved])
  /\ Answer(p)
  /\ UNCHANGED <<snag, extension>>

BeginDestroyMilestone(p, m, who) ==
  /\ Exists(m) /\ milestone[m].approval # "approved" /\ stage[m] # "paid"
  /\ who \in Deciders \/ ~UnderReview(m)
  /\ Reads(p, [at |-> "destroy", id |-> m])

\* Its stage stays, unlinked; its document stays in the vault.
DestroyMilestone(p) ==
  LET m == session[p].id IN
  /\ At(p, "destroy")
  /\ milestone' = [milestone EXCEPT ![m] = [@ EXCEPT !.there = FALSE]]
  /\ Answer(p)
  /\ UNCHANGED <<document, stage, site, snag, extension>>

\* An audit sends a milestone back, or marks it reviewed by its lead; what an
\* owner alone approves gets an empty status.
AuditMilestone(m, approval) ==
  /\ Exists(m)
  /\ milestone' = [milestone EXCEPT ![m].approval = approval]
  /\ Site([approved |-> IF approval = "pending" THEN site.approved ELSE site.approved \cup {"structural"}])
  /\ UNCHANGED <<document, stage, snag, extension, gatewayVars>>

\* What the PM approves in an audit is approved as any milestone is.
BeginAuditApproval(p, m) ==
  /\ Exists(m)
  /\ Reads(p, [at |-> "approve", ids |-> {m}, audit |-> TRUE])

MilestoneNext ==
  \/ \E p \in Clients, m \in Milestones, who \in Deciders \cup {"pro"} :
       \/ BeginStoreMilestone(p, m, who)
       \/ BeginUpdateMilestone(p, m, who)
       \/ BeginDestroyMilestone(p, m, who)
  \/ \E p \in Clients, m \in Milestones : BeginLeadReview(p, m) \/ BeginAuditApproval(p, m)
  \/ \E p \in Clients, approval \in {"revision", "kept"}, done \in BOOLEAN : UpdateMilestone(p, approval, done)
  \/ \E p \in Clients :
       \/ StoreMilestone(p) \/ RequestFee(p) \/ syncMilestoneVault(p)
       \/ UpdateApproved(p) \/ LeadReview(p) \/ DestroyMilestone(p)
  \/ \E m \in Milestones, approval \in {"pending", ""} : AuditMilestone(m, approval)

ApproveNext ==
  \/ \E p \in Clients, m \in Milestones : BeginApproveMilestone(p, m)
  \/ \E p \in Clients : ReadStages(p) \/ ApproveMilestone(p)
  \/ \E m \in Milestones : PayStage(m)

(***************************************************************************)
(* The review of the design.                                               *)
(***************************************************************************)
SubmitDesign ==
  /\ document' = [m \in Milestones |-> IF m \in DesignMilestones /\ document[m] = "revision_requested" THEN "under_review" ELSE document[m]]
  /\ UNCHANGED <<milestone, stage, site, snag, extension, gatewayVars>>

Unapproved(ms) == {m \in ms : Exists(m) /\ milestone[m].approval # "approved"}

\* The milestones and their stages are read...
BeginApproveDesign(p) ==
  LET ms == Unapproved(DesignMilestones) IN
  Reads(p, [at |-> "design", ids |-> ms, stages |-> LinkedStages(ms)])

\* ...and written by id, together with every document of the design.
ApproveDesign(p) ==
  LET ms == session[p].ids IN
  /\ At(p, "design")
  /\ Approve(ms)
  /\ document' = [m \in Milestones |-> IF m \in ms \/ (m \in DesignMilestones /\ document[m] # "none") THEN "verified" ELSE document[m]]
  /\ Unlock(session[p].stages)
  /\ Site([approved |-> site.approved \cup {"design"}])
  /\ Answer(p)
  /\ UNCHANGED <<snag, extension>>

ReviseDesign ==
  /\ document' = [m \in Milestones |-> IF m \in DesignMilestones /\ document[m] # "none" THEN "revision_requested" ELSE document[m]]
  /\ Site([approved |-> site.approved \ {"design"}])
  /\ UNCHANGED <<milestone, stage, snag, extension, gatewayVars>>

(***************************************************************************)
(* Planning, brief, permits: decided on a status read before.              *)
(***************************************************************************)
SubmitPlanning == Rewrites([planning |-> "proposed"])

BeginVerifyPlanning(p)  == site.managed /\ site.planning = "proposed" /\ Reads(p, [at |-> "verifyPlanning"])
VerifyPlanningPM(p)     == At(p, "verifyPlanning") /\ Stamps(p, [planning |-> "pm_verified"])

BeginApprovePlanning(p) ==
  /\ site.planning = "pm_verified" \/ (site.planning = "proposed" /\ ~site.managed)
  /\ Reads(p, [at |-> "approvePlanning"])
ApprovePlanning(p)      == At(p, "approvePlanning") /\ Stamps(p, [planning |-> "approved"])

\* The PM turns down a proposal, the owner what the PM verified, or a proposal
\* of a project without a PM.
BeginRejectPlanning(p) ==
  /\ site.planning \in {"proposed", "pm_verified"}
  /\ Reads(p, [at |-> "rejectPlanning"])
RejectPlanning(p)       == At(p, "rejectPlanning") /\ Stamps(p, [planning |-> "draft"])

LockDesignBrief   == Rewrites([locked |-> site.locked \cup {"design"}])
BeginLockBrief(p) == "construction" \notin site.locked /\ Reads(p, [at |-> "lockBrief"])
LockPhaseBrief(p) == At(p, "lockBrief") /\ Stamps(p, [brief |-> "pending_review"])

BeginApproveBrief(p)        == site.brief = "pending_review" /\ Reads(p, [at |-> "brief"])
ApproveConstructionBrief(p) ==
  /\ At(p, "brief")
  /\ Stamps(p, [brief |-> "approved", locked |-> site.locked \cup {"construction"}])

ReviseConstructionBrief == Rewrites([brief |-> "revision_requested", locked |-> site.locked \ {"construction"}])

BeginPermit(p, kind) ==
  /\ kind = "pbg" => site.brief = "approved"
  /\ Reads(p, [at |-> "permit", kind |-> kind])

\* A permit, once verified, is never taken back.
permitVerification(p) ==
  /\ At(p, "permit")
  /\ Stamps(p, IF session[p].kind = "pbg" THEN [pbg |-> TRUE] ELSE [slf |-> TRUE])

AuthorizePhase(ph, authorized) ==
  Rewrites([authorized |-> IF authorized THEN site.authorized \cup {ph} ELSE site.authorized \ {ph}])

BeginKickoff(p, role)  == role \notin site.kickoff /\ Reads(p, [at |-> "kickoff", role |-> role])
IssueKickoff(p)        == At(p, "kickoff") /\ Stamps(p, [kickoff |-> site.kickoff \cup {session[p].role}])

DesignNext ==
  \/ SubmitDesign \/ ReviseDesign
  \/ \E p \in Clients : BeginApproveDesign(p) \/ ApproveDesign(p)
  \/ \E m \in Milestones : PayStage(m)

PlanNext ==
  \/ SubmitPlanning
  \/ \E p \in Clients :
       \/ BeginVerifyPlanning(p) \/ VerifyPlanningPM(p) \/ BeginApprovePlanning(p) \/ ApprovePlanning(p)
       \/ BeginRejectPlanning(p) \/ RejectPlanning(p) \/ IssueKickoff(p)
       \/ \E role \in {"arsitek", "kontraktor"} : BeginKickoff(p, role)
  \/ \E ph \in {"design", "materials"}, authorized \in BOOLEAN : AuthorizePhase(ph, authorized)

BriefNext ==
  \/ LockDesignBrief \/ ReviseConstructionBrief
  \/ \E p \in Clients :
       \/ BeginLockBrief(p) \/ LockPhaseBrief(p) \/ BeginApproveBrief(p) \/ ApproveConstructionBrief(p)
       \/ permitVerification(p)
       \/ \E kind \in {"pbg", "slf"} : BeginPermit(p, kind)

(***************************************************************************)
(* The handover of a phase.                                                *)
(***************************************************************************)
\* sealIncomplete, before the transaction: what must be done in each phase.
Sealable(ph) ==
  CASE ph = "design" -> \A m \in DesignMilestones : document[m] # "none"
    [] ph = "legal"  -> \A m \in LegalMilestones : Exists(m) => milestone[m].approval # "revision"
    [] OTHER         -> \A m \in Milestones : Exists(m) /\ PhaseOf(m) = ph => milestone[m].done /\ milestone[m].approval = "approved"

BeginSeal(p, ph) == Sealable(ph) /\ Reads(p, [at |-> "seal", phase |-> ph])
SealPhase(p)     == At(p, "seal") /\ Stamps(p, [submitted |-> site.submitted \cup {session[p].phase}])

PhaseHandoverRevision(ph) == Rewrites([submitted |-> site.submitted \ {ph}])

\* The phases completed so far are read with the project...
BeginPhaseApprove(p, ph) == Reads(p, [at |-> "phase", phase |-> ph, listed |-> site.listed])

\* ...the stages inside the transaction: those of the milestones approved with
\* the design, and the first locked stage of the role the phase belongs to...
ReadPhase(p) ==
  LET s      == session[p]
      ids    == IF s.phase = "design" THEN Unapproved(DesignMilestones) ELSE {}
      locked == {m \in Milestones : PhaseOf(m) = s.phase /\ stage[m] = "locked"}
      first  == IF locked = {} THEN {} ELSE {Min(locked)}
  IN
  /\ At(p, "phase")
  /\ session' = [session EXCEPT ![p] = [at |-> "verifyPhase", phase |-> s.phase, listed |-> s.listed, ids |-> ids, stages |-> LinkedStages(ids) \cup first]]
  /\ UNCHANGED <<phaseVars, contested, booked>>

\* ...and the list is written whole, without what was completed meanwhile.
verifyPhaseTx(p) ==
  LET s == session[p] IN
  /\ At(p, "verifyPhase")
  /\ Approve(s.ids)
  /\ document' = [m \in Milestones |-> IF s.phase = "design" /\ m \in DesignMilestones /\ document[m] # "none" THEN "verified" ELSE document[m]]
  /\ Unlock(s.stages)
  /\ Site([stamped   |-> site.stamped \cup {s.phase},
           locked    |-> site.locked \cup {s.phase},
           approved  |-> site.approved \cup {s.phase},
           submitted |-> IF s.phase = "legal" THEN site.submitted \ {"legal"} ELSE site.submitted,
           listed    |-> s.listed \cup {s.phase}])
  /\ Answer(p)
  /\ UNCHANGED <<snag, extension>>

BeginVerifyLegal(p) ==
  LET locked == {m \in LegalMilestones : stage[m] = "locked"} IN
  /\ "legal" \in site.submitted
  /\ Reads(p, [at |-> "verifyLegal", stages |-> IF locked = {} THEN {} ELSE {Min(locked)}])

\* The legal phase is appended by the UPDATE itself.
VerifyLegal(p) ==
  LET legal == {"legal"} IN
  /\ At(p, "verifyLegal")
  /\ Unlock(session[p].stages)
  /\ Site([stamped |-> site.stamped \cup legal, locked |-> site.locked \cup legal, approved |-> site.approved \cup legal,
           submitted |-> site.submitted \ legal, listed |-> site.listed \cup legal])
  /\ Answer(p)
  /\ UNCHANGED <<milestone, document, snag, extension>>

\* The hire of the contractor completes the design, once.
implicitVerifyDesign ==
  LET design == {"design"} IN
  /\ "design" \notin site.approved
  /\ Rewrites([stamped |-> site.stamped \cup design, locked |-> site.locked \cup design, approved |-> site.approved \cup design,
               listed |-> site.listed \cup design])

(***************************************************************************)
(* Snags, extensions and the acceptance.                                   *)
(***************************************************************************)
SetSnag(n, status) == snag' = [snag EXCEPT ![n] = status] /\ UNCHANGED <<milestone, document, stage, site, extension>>

StoreSnagItem(n)          == snag[n] = "none" /\ SetSnag(n, "open") /\ UNCHANGED gatewayVars
\* Whatever the status was, an accepted snag included.
UpdateSnagItem(n, status) == snag[n] # "none" /\ SetSnag(n, status) /\ UNCHANGED gatewayVars
BeginAcceptSnag(p, n)     == snag[n] = "resolved" /\ Reads(p, [at |-> "snag", id |-> n])
AcceptSnag(p)             == At(p, "snag") /\ SetSnag(session[p].id, "accepted") /\ Answer(p)

InitiateWalkthrough == Rewrites([status |-> "completed_build"])

BeginOwnerAccept(p) ==
  Reads(p, [at |-> "accept", needed |-> site.needed, listed |-> site.listed, slf |-> site.slf])

CountSnags(p) ==
  /\ At(p, "accept") /\ \A n \in Snags : snag[n] \in {"none", "accepted"}
  /\ To(p, "finalize")
  /\ UNCHANGED <<phaseVars, contested, booked>>

Finalize(p) == Stamps(p, [status |-> "completed", accepted |-> TRUE])

\* Mutant: only the number of the phases is compared.
FinalizeByCount(p) ==
  LET s == session[p] IN
  /\ At(p, "finalize")
  /\ site.newBuild => s.slf
  /\ Cardinality(s.needed) = Cardinality(s.listed)
  /\ Finalize(p)

handoverFinalize(p) ==
  LET s == session[p] IN
  /\ At(p, "finalize")
  /\ site.newBuild => s.slf
  /\ s.needed = s.listed
  /\ Finalize(p)

\* Whoever works on the project writes the phases it needs; the owner also
\* its status and the phases completed.
UpdateNeeded(list) == Rewrites([needed |-> list])
UpdateListed(list) == Rewrites([listed |-> list, claimed |-> site.claimed \cup list])
UpdateStatus(status) == Rewrites([status |-> status])

StoreExtension(e) ==
  /\ extension[e] = "none"
  /\ extension' = [extension EXCEPT ![e] = "proposed"]
  /\ UNCHANGED <<milestone, document, stage, site, snag, gatewayVars>>

\* Neither looks at the status of the extension.
ReviewExtension(e, status) ==
  /\ extension[e] # "none"
  /\ extension' = [extension EXCEPT ![e] = status]
  /\ UNCHANGED <<milestone, document, stage, site, snag, gatewayVars>>

BeginDecideExtension(p, e) ==
  /\ extension[e] # "none"
  /\ Reads(p, [at |-> "extend", id |-> e, deadline |-> site.deadline])

ExtensionDecision(p, status) ==
  LET s == session[p] IN
  /\ At(p, "extend") /\ s.deadline < MaxDeadline
  /\ extension' = [extension EXCEPT ![s.id] = status]
  /\ Site([deadline |-> IF status = "approved" THEN s.deadline + 1 ELSE site.deadline])
  /\ Answer(p)
  /\ UNCHANGED <<milestone, document, stage, snag>>

PhaseNext ==
  \/ \E p \in Clients, ph \in HandedOver : BeginSeal(p, ph) \/ BeginPhaseApprove(p, ph)
  \/ \E ph \in HandedOver : PhaseHandoverRevision(ph)
  \/ \E p \in Clients : SealPhase(p) \/ ReadPhase(p) \/ verifyPhaseTx(p) \/ BeginVerifyLegal(p) \/ VerifyLegal(p)
  \/ implicitVerifyDesign
  \/ \E m \in Milestones : PayStage(m)

AcceptNext ==
  \/ \E p \in Clients : BeginOwnerAccept(p) \/ CountSnags(p) \/ handoverFinalize(p)
  \/ \E p \in Clients, ph \in {"design", "legal"} : BeginPhaseApprove(p, ph)
  \/ \E p \in Clients : ReadPhase(p) \/ verifyPhaseTx(p) \/ permitVerification(p) \/ BeginPermit(p, "slf")
  \/ InitiateWalkthrough
  \/ \E list \in PhaseLists : UpdateNeeded(list) \/ UpdateListed(list)

SnagNext ==
  \/ \E status \in SiteStatus \ {"completed_build"} : UpdateStatus(status)
  \/ \E n \in Snags : StoreSnagItem(n) \/ (\E status \in {"in_progress", "resolved"} : UpdateSnagItem(n, status))
  \/ \E p \in Clients, n \in Snags : BeginAcceptSnag(p, n)
  \/ \E p \in Clients : AcceptSnag(p) \/ BeginOwnerAccept(p) \/ CountSnags(p) \/ handoverFinalize(p)
  \/ \E e \in Extensions : StoreExtension(e) \/ (\E status \in {"pm_reviewed", "rejected"} : ReviewExtension(e, status))
  \/ \E p \in Clients, e \in Extensions : BeginDecideExtension(p, e)
  \/ \E p \in Clients, status \in {"approved", "rejected"} : ExtensionDecision(p, status)

Blank == [status |-> "in_progress", planning |-> "draft", brief |-> "draft", managed |-> TRUE, newBuild |-> TRUE,
          pbg |-> FALSE, slf |-> FALSE, submitted |-> {}, locked |-> {}, stamped |-> {}, approved |-> {}, authorized |-> {}, kickoff |-> {},
          listed |-> {}, needed |-> {}, claimed |-> {}, accepted |-> FALSE, deadline |-> 0]

\* The project row, the milestones there are and the status of their stages.
PhaseInit(row, ms, status) ==
  /\ site = row
  /\ milestone = [m \in Milestones |-> IF m \in ms THEN Fresh ELSE NoMilestone]
  /\ document = [m \in Milestones |-> IF m \in ms THEN "under_review" ELSE "none"]
  /\ stage = [m \in Milestones |-> status]
  /\ snag = [n \in Snags |-> "none"]
  /\ extension = [e \in Extensions |-> "none"]

(***************************************************************************)
(* Properties.                                                             *)
(***************************************************************************)
PhaseTypeOK ==
  /\ milestone \in [Milestones -> [there : BOOLEAN, approval : Approval, done : BOOLEAN, fee : BOOLEAN]]
  /\ document \in [Milestones -> DocStatus] /\ stage \in [Milestones -> StageState]
  /\ site.status \in SiteStatus /\ site.planning \in Planning /\ site.brief \in Brief
  /\ site.submitted \cup site.locked \cup site.stamped \subseteq Phase
  /\ site.deadline \in 0..MaxDeadline
  /\ snag \in [Snags -> SnagStatus] /\ extension \in [Extensions -> ExtStatus]

\* The owner accepts a building only when each phase it needed was verified, or
\* claimed by the owner, and its certificate of occupancy is there.  The list
\* of completed phases the decision compares is stale, and phases approved at
\* the same time overwrite it (OwnerAcceptProjectHandler, verifyPhaseTx).
AcceptedHasPhases ==
  [][site'.accepted # site.accepted =>
       \E p \in Clients :
         /\ At(p, "finalize") /\ session[p].needed \subseteq site.stamped \cup site.claimed
         /\ site.newBuild => site.slf]_<<session, site>>
=============================================================================
