----------------------------- MODULE WorksProofs -----------------------------
(***************************************************************************)
(* For every number of clients, milestones, mails, replicas and files:     *)
(* types, an accepted building has its phases, a bounded number of         *)
(* attempts passes the limiter, and a live row loses its file only to a    *)
(* request about that very row.                                            *)
(*                                                                         *)
(* WorksInv is what every step preserves.  Its parts are three components  *)
(* that never meet in one behaviour but share the ledger and the requests; *)
(* each has lemmas that its own steps keep its part and leave those of the *)
(* others alone.                                                           *)
(***************************************************************************)
EXTENDS MCWorks, LedgerSumProofs

WorkTopics    == {"milestones", "approve", "design", "plan", "brief", "handover", "accept", "snags"}
AccountTopics == {"identity", "limits", "mail", "people", "bookings"}
RecordTopics  == {"files", "schedule", "shelf", "workspace"}

(***************************************************************************)
(* The works: the row of the project, and what a request has read of it.   *)
(***************************************************************************)
Fields == {"status", "planning", "brief", "managed", "newBuild", "pbg", "slf", "submitted", "locked", "stamped", "approved",
           "authorized", "kickoff", "listed", "needed", "claimed", "accepted", "deadline"}

\* The phases somebody answers for.
Answered == site.stamped \cup site.claimed

\* What a request has read of the project: the phases it listed are answered
\* for to this day, and a certificate it saw is still there.
PhaseSession(s) ==
  /\ "at" \in DOMAIN s
  /\ s.at \in {"seal", "phase", "verifyPhase"} => s.phase \in Phase
  /\ s.at \in {"phase", "verifyPhase", "accept", "finalize"} => s.listed \subseteq Answered
  /\ s.at \in {"accept", "finalize"} => {"needed", "listed", "slf"} \subseteq DOMAIN s /\ (s.slf => site.slf)
  /\ s.at = "extend" => s.deadline \in 0..MaxDeadline

\* The row of the project; whatever is listed as done, somebody answers for.
PhaseRows ==
  /\ PhaseTypeOK
  /\ DOMAIN site = Fields
  /\ site.listed \subseteq Answered

(***************************************************************************)
(* The accounts.                                                           *)
(***************************************************************************)
RoleNames == {"user", "pm"}

\* What a request has read of an account: a login mints with a password that
\* was once the right one.
AccountSession(s) ==
  /\ "at" \in DOMAIN s
  /\ s.at = "mint" => s.password \in 1..account.password
  /\ s.at = "suspend" => s.next \in BOOLEAN
  /\ s.at \in {"grant", "role"} => "role" \in DOMAIN s /\ s.role \in RoleNames
  /\ s.at = "invite" => s.status \in {"invited", "requested"}
  /\ s.at = "respond" => s.status \in {"confirmed", "cancelled", "completed"}

\* What a replica has in hand it read as queued; what it is about to mark, the
\* provider has taken.
Tour(w) ==
  /\ (worker[w].at = "rest") = (worker[w].left = {})
  /\ \A m \in worker[w].left : mail[m].queued
  /\ worker[w].at = "mark" => mail[MailOf(w)].taken

\* An account, its tokens and the code to reset its password.
IdentityRows ==
  /\ account \in [there : BOOLEAN, password : 1..MaxPassword, suspended : BOOLEAN, role : RoleNames, roles : SUBSET RoleNames]
  /\ token \in Seq(Nat) /\ Len(token) <= MaxTokens /\ \A i \in 1..Len(token) : token[i] \in 1..account.password
  /\ reset \in 0..MaxPassword

\* The outbox: a mail marked as sent was queued and the provider has taken it.
OutboxRows ==
  /\ faults \in 0..MaxFaults
  /\ mail \in [Mails -> [queued : BOOLEAN, taken : BOOLEAN, sent : BOOLEAN, error : BOOLEAN]]
  /\ \A m \in Mails : mail[m].sent => mail[m].queued /\ mail[m].taken
  /\ worker \in [Workers -> [at : {"rest", "send", "mark"}, left : SUBSET Mails]]
  /\ \A w \in Workers : Tour(w)

\* Devices, profiles, members and bookings.
PeopleRows ==
  /\ device \in BOOLEAN
  /\ profile \in {"none", "unverified", "pending", "verified", "rejected"}
  /\ member \in [Members -> {"none", "invited", "requested", "active", "removed"}]
  /\ booking \in [Bookings -> {"none", "pending", "confirmed", "cancelled", "completed"}]

AccountRows == IdentityRows /\ OutboxRows /\ PeopleRows

\* The requests past the count: each of the others inserts once at most.
Inside(point) == Cardinality({p \in Clients : At(p, point)})

\* The two counters checked before they are raised: what is there, and the
\* requests between the check and the insert, stay below the bound together.
Windows ==
  /\ hits \in Nat /\ proposal \in Nat
  /\ IF topic = "limits" THEN hits + Inside("hit") < MaxHits + Cardinality(Clients) ELSE hits = 0
  /\ IF topic = "people" THEN proposal + Inside("assign") <= Cardinality(Clients) ELSE proposal = 0

(***************************************************************************)
(* The records.                                                            *)
(***************************************************************************)
RowStatus == {"none", "uploaded", "verified", "shown", "deleted"}
Inserted  == Cardinality({r \in Rows : row[r] # NoRow})
Paths     == Files \cup {NoFile}
Holding   == {"insert", "update", "remove", "old"}   \* a request that has a path in hand
Past      == {"delete", "new"}                       \* one that has removed the file

\* What a request has in hand: a row, a path, and what it will insert.
RecordSession(s) ==
  /\ "at" \in DOMAIN s
  /\ s.at \in Holding \cup Past => {"id", "file"} \subseteq DOMAIN s /\ s.id \in Rows
  /\ s.at \in Holding => s.file \in Paths
  /\ s.at = "insert" => s.version \in 0..Inserted + 1 /\ s.status \in {"uploaded", "shown"}

\* A row of a file; its version is at most the number of rows.
RowType == [status : RowStatus, version : 0..Inserted, file : Paths]

\* The rows and the vault; schedules and days lost; and the small rows.
FileRows ==
  /\ row \in [Rows -> RowType]
  /\ vault \in [stored : SUBSET Files, there : SUBSET Files] /\ vault.there \subseteq vault.stored

PlanRows ==
  /\ schedule \in [Stations -> [there : BOOLEAN, end : Nat, original : Nat, shifted : Nat]]
  /\ delays \in [Stations -> Nat]
  /\ \A ph \in Stations : schedule[ph].shifted <= Lost /\ (~schedule[ph].there => schedule[ph] = NoPhase)

SpaceRows ==
  /\ shelf \in [Shelves -> {"none", "kept", "edited", "inactive"}]
  /\ DOMAIN workspace = {"link", "links", "board", "favorite", "talk", "folder", "inside"}
  /\ workspace.link \in Nat /\ workspace.links \in Nat /\ workspace.link <= workspace.links
  /\ workspace.inside => workspace.folder

RecordRows == FileRows /\ PlanRows /\ SpaceRows

(***************************************************************************)
(* A file is held by the row that names it and by every request that has   *)
(* its path in hand, for that row.  However stale the path, what is held   *)
(* was stored once, and is held for one row only.                          *)
(***************************************************************************)
Holds(i, f) ==
  \/ Live(i) /\ row[i].file = f
  \/ \E p \in Clients : session[p].at \in Holding /\ session[p].id = i /\ session[p].file = f

HeldStored == \A i \in Rows, f \in Paths : Holds(i, f) => f \in vault.stored
HeldOnce   == \A i, j \in Rows, f \in Paths : Holds(i, f) /\ Holds(j, f) => i = j
FilesHeld  == HeldStored /\ HeldOnce

\* One topic is under way at a time, so only its requests are.
Sessions ==
  /\ session = [p \in Clients |-> session[p]]
  /\ topic \in WorkTopics => \A p \in Clients : PhaseSession(session[p])
  /\ topic \in AccountTopics => \A p \in Clients : AccountSession(session[p])
  /\ topic \in RecordTopics => \A p \in Clients : RecordSession(session[p])

\* The inductive invariant.  Outside of the topic of files no row is there.
WorksInv ==
  /\ topic \in WorkTopics \cup AccountTopics \cup RecordTopics
  /\ booked \in [References -> Nat] /\ contested \in BOOLEAN
  /\ Sessions
  /\ PhaseRows /\ AccountRows /\ RecordRows
  /\ Windows
  /\ IF topic = "files" THEN FilesHeld ELSE \A r \in Rows : row[r] = NoRow

(***************************************************************************)
(* Frames.                                                                 *)
(***************************************************************************)
LEMMA PhaseRowsStill == ASSUME WorksInv, UNCHANGED phaseVars PROVE PhaseRows'
BY DEF WorksInv, PhaseRows, PhaseTypeOK, phaseVars, Answered

LEMMA IdentityStill == ASSUME WorksInv, UNCHANGED identity PROVE IdentityRows'
BY DEF WorksInv, AccountRows, IdentityRows, identity

LEMMA OutboxStill == ASSUME WorksInv, UNCHANGED outbox PROVE OutboxRows'
BY DEF WorksInv, AccountRows, OutboxRows, outbox, Tour, MailOf

LEMMA PeopleStill == ASSUME WorksInv, UNCHANGED <<device, profile, member, booking>> PROVE PeopleRows'
BY DEF WorksInv, AccountRows, PeopleRows

LEMMA AccountRowsStill == ASSUME WorksInv, UNCHANGED accountVars PROVE AccountRows'
<1>1. UNCHANGED identity /\ UNCHANGED outbox /\ UNCHANGED <<device, profile, member, booking>>
  BY DEF accountVars, identity, outbox
<1>2. QED
  BY <1>1, IdentityStill, OutboxStill, PeopleStill DEF AccountRows

LEMMA LostIsSum == Lost = SumOver(delays, Stations)
BY DEF Lost, SumOver

LEMMA LostStill == ASSUME UNCHANGED delays PROVE Lost' = Lost
<1>1. (Lost = SumOver(delays, Stations))'
  BY LostIsSum, PTL
<1>2. QED
  BY <1>1, LostIsSum

LEMMA InsertedStill == ASSUME UNCHANGED row PROVE Inserted' = Inserted
BY DEF Inserted

LEMMA FileRowsStill == ASSUME WorksInv, UNCHANGED <<row, vault>> PROVE FileRows'
BY InsertedStill DEF WorksInv, RecordRows, FileRows, RowType

LEMMA PlanRowsStill == ASSUME WorksInv, UNCHANGED <<schedule, delays>> PROVE PlanRows'
BY LostStill DEF WorksInv, RecordRows, PlanRows

LEMMA SpaceRowsStill == ASSUME WorksInv, UNCHANGED <<shelf, workspace>> PROVE SpaceRows'
BY DEF WorksInv, RecordRows, SpaceRows

LEMMA RecordRowsStill == ASSUME WorksInv, UNCHANGED recordVars PROVE RecordRows'
BY FileRowsStill, PlanRowsStill, SpaceRowsStill DEF recordVars, RecordRows

LEMMA WindowsStill ==
  ASSUME WorksInv, topic \notin {"limits", "people"}, UNCHANGED <<hits, proposal, topic>> PROVE Windows'
BY DEF WorksInv, Windows

LEMMA RowsApart ==
  ASSUME WorksInv, topic # "files", UNCHANGED <<row, topic>>
  PROVE  IF topic' = "files" THEN FilesHeld' ELSE \A r \in Rows : row'[r] = NoRow
BY DEF WorksInv

\* What a step of the works leaves alone.
PhaseKeeps ==
  /\ topic \in WorkTopics /\ UNCHANGED <<accountVars, recordVars, topic>>
  /\ booked' \in [References -> Nat] /\ contested' \in BOOLEAN

\* What is answered for stays answered for, and a certificate is never taken back.
SiteGrows == Answered \subseteq Answered' /\ (site.slf => site'.slf)

LEMMA PhaseSessionKept == ASSUME NEW t, PhaseSession(t), SiteGrows PROVE PhaseSession(t)'
BY DEF PhaseSession, SiteGrows

LEMMA PhaseApart ==
  ASSUME WorksInv, PhaseKeeps, Sessions', PhaseRows' PROVE WorksInv'
<1>1. topic' = topic /\ topic \notin {"limits", "people", "files"}
  BY DEF PhaseKeeps, WorkTopics
<1>2. hits' = hits /\ proposal' = proposal /\ row' = row
  BY DEF PhaseKeeps, accountVars, recordVars
<1>3. AccountRows' /\ RecordRows' /\ Windows'
  BY <1>1, <1>2, AccountRowsStill, RecordRowsStill, WindowsStill DEF PhaseKeeps
<1>4. IF topic' = "files" THEN FilesHeld' ELSE \A r \in Rows : row'[r] = NoRow
  BY <1>1, <1>2, RowsApart
<1>5. topic' \in WorkTopics \cup AccountTopics \cup RecordTopics /\ booked' \in [References -> Nat] /\ contested' \in BOOLEAN
  BY <1>1 DEF PhaseKeeps, WorksInv
<1>6. QED
  BY <1>3, <1>4, <1>5 DEF WorksInv

LEMMA PhaseStep ==
  ASSUME WorksInv, PhaseKeeps, NEW p \in Clients, NEW s, session' = [session EXCEPT ![p] = s], PhaseSession(s),
         SiteGrows, PhaseRows'
  PROVE  WorksInv'
<1>1. topic' = topic /\ topic \in WorkTopics /\ topic \notin AccountTopics /\ topic \notin RecordTopics
  BY DEF PhaseKeeps, WorkTopics, AccountTopics, RecordTopics
<1>2. ASSUME NEW q \in Clients PROVE PhaseSession(session[q])'
  <2>1. PICK t : t = IF q = p THEN s ELSE session[q]
    OBVIOUS
  <2>2. PhaseSession(t)
    BY <1>1, <2>1 DEF WorksInv, Sessions
  <2>3. PhaseSession(t)'
    BY <2>2, PhaseSessionKept
  <2>4. session'[q] = t
    BY <2>1 DEF WorksInv, Sessions
  <2>5. QED
    BY <2>3, <2>4 DEF PhaseSession
<1>3. session' = [q \in Clients |-> session'[q]]
  BY DEF WorksInv, Sessions
<1>4. Sessions'
  BY <1>1, <1>2, <1>3 DEF Sessions
<1>5. QED
  BY <1>4, PhaseApart

LEMMA PhaseStepAlone ==
  ASSUME WorksInv, PhaseKeeps, UNCHANGED session, SiteGrows, PhaseRows' PROVE WorksInv'
<1>1. topic' = topic /\ topic \in WorkTopics /\ topic \notin AccountTopics /\ topic \notin RecordTopics
  BY DEF PhaseKeeps, WorkTopics, AccountTopics, RecordTopics
<1>2. ASSUME NEW q \in Clients PROVE PhaseSession(session[q])'
  <2>1. PICK t : t = session[q]
    OBVIOUS
  <2>2. PhaseSession(t)
    BY <1>1, <2>1 DEF WorksInv, Sessions
  <2>3. PhaseSession(t)'
    BY <2>2, PhaseSessionKept
  <2>4. session'[q] = t
    BY <2>1
  <2>5. QED
    BY <2>3, <2>4 DEF PhaseSession
<1>3. Sessions'
  BY <1>1, <1>2 DEF Sessions, WorksInv
<1>4. QED
  BY <1>3, PhaseApart

\* The last step of a request.
LEMMA PhaseDone ==
  ASSUME WorksInv, PhaseKeeps, NEW p \in Clients, Done(p), SiteGrows, PhaseRows'
  PROVE  WorksInv'
<1>1. PICK s : s = Idle
  OBVIOUS
<1>2. session' = [session EXCEPT ![p] = s] /\ PhaseSession(s)
  BY <1>1 DEF Done, Idle, PhaseSession
<1>3. QED
  BY <1>2, PhaseStep

LEMMA SiteStill == UNCHANGED site => SiteGrows
BY DEF SiteGrows, Answered

\* A request that only reads.
LEMMA PhaseReads ==
  ASSUME WorksInv, topic \in WorkTopics, UNCHANGED <<accountVars, recordVars, topic>>, NEW p \in Clients, NEW s,
         session' = [session EXCEPT ![p] = s], UNCHANGED <<phaseVars, contested, booked>>, PhaseSession(s)
  PROVE  WorksInv'
<1>1. PhaseKeeps /\ site' = site
  BY DEF PhaseKeeps, WorksInv, phaseVars
<1>2. QED
  BY <1>1, SiteStill, PhaseRowsStill, PhaseStep

LEMMA PhaseFacts ==
  ASSUME WorksInv, topic \in WorkTopics, NEW p \in Clients
  PROVE  PhaseSession(session[p]) /\ PhaseRows
BY DEF WorksInv, Sessions

\* To another point, with what the request holds already.
LEMMA PhaseMoves ==
  ASSUME WorksInv, topic \in WorkTopics, NEW p \in Clients, NEW point, To(p, point), point \notin {"seal", "phase", "verifyPhase", "extend"},
         point \in {"accept", "finalize"} => At(p, "accept")
  PROVE  \E s : session' = [session EXCEPT ![p] = s] /\ PhaseSession(s)
<1>1. PICK t : t = session[p]
  OBVIOUS
<1>2. PhaseSession(t)
  BY <1>1, PhaseFacts
<1>3. PICK s : s = [t EXCEPT !.at = point]
  OBVIOUS
<1>4. s.at = point /\ DOMAIN s = DOMAIN t
  BY <1>2, <1>3 DEF PhaseSession
<1>5. point \in {"accept", "finalize"} => s.listed = t.listed /\ s.slf = t.slf
  BY <1>1, <1>2, <1>3 DEF PhaseSession, At
<1>6. PhaseSession(s)
  BY <1>1, <1>2, <1>4, <1>5 DEF PhaseSession, At
<1>7. session' = [session EXCEPT ![p] = s]
  BY <1>1, <1>3 DEF To
<1>8. QED
  BY <1>6, <1>7

(***************************************************************************)
(* The works: what a step writes.                                          *)
(***************************************************************************)
MilestoneRow == [there : BOOLEAN, approval : Approval, done : BOOLEAN, fee : BOOLEAN]

SiteMoves ==
  /\ DOMAIN site' = Fields
  /\ site'.status \in SiteStatus /\ site'.planning \in Planning /\ site'.brief \in Brief
  /\ site'.submitted \cup site'.locked \cup site'.stamped \subseteq Phase
  /\ site'.deadline \in 0..MaxDeadline
  /\ site'.listed \subseteq site'.stamped \cup site'.claimed
  /\ SiteGrows

LEMMA SiteUnmoved == ASSUME WorksInv, UNCHANGED site PROVE SiteMoves
BY SiteStill DEF WorksInv, PhaseRows, PhaseTypeOK, SiteMoves, Answered

LEMMA PhaseRowsWritten ==
  ASSUME WorksInv, SiteMoves, milestone' \in [Milestones -> MilestoneRow], document' \in [Milestones -> DocStatus],
         stage' \in [Milestones -> StageState], UNCHANGED <<snag, extension>>
  PROVE  PhaseRows' /\ SiteGrows
BY DEF WorksInv, SiteMoves, PhaseRows, PhaseTypeOK, MilestoneRow, Answered

\* The fields a step writes, and those it leaves alone.
LEMMA SiteWritten ==
  ASSUME WorksInv, NEW change, Site(change), DOMAIN change \subseteq Fields
  PROVE  /\ DOMAIN site' = Fields
         /\ \A x \in DOMAIN change : site'[x] = change[x]
         /\ \A x \in Fields \ DOMAIN change : site'[x] = site[x]
BY DEF WorksInv, PhaseRows, Site

LEMMA SiteFacts ==
  ASSUME WorksInv
  PROVE  /\ site.status \in SiteStatus /\ site.planning \in Planning /\ site.brief \in Brief
         /\ site.submitted \cup site.locked \cup site.stamped \subseteq Phase
         /\ site.deadline \in 0..MaxDeadline
         /\ site.listed \subseteq site.stamped \cup site.claimed
BY DEF WorksInv, PhaseRows, PhaseTypeOK, Answered

LEMMA ApprovedWritten ==
  ASSUME WorksInv, NEW set, Site([approved |-> set]) PROVE SiteMoves /\ site'.accepted = site.accepted
BY SiteWritten, SiteFacts DEF SiteMoves, SiteGrows, Answered, Fields

LEMMA PlanningWritten ==
  ASSUME WorksInv, NEW to \in Planning, Site([planning |-> to]) PROVE SiteMoves /\ site'.accepted = site.accepted
BY SiteWritten, SiteFacts DEF SiteMoves, SiteGrows, Answered, Fields

\* The acceptance is decided in handoverFinalize alone.
Accepts == site'.accepted # site.accepted => \E p \in Clients : handoverFinalize(p)

\* The last step of a request that writes.
LEMMA PhaseAnswers ==
  ASSUME WorksInv, topic \in WorkTopics, UNCHANGED <<accountVars, recordVars, topic>>, NEW p \in Clients, Answer(p),
         SiteMoves, milestone' \in [Milestones -> MilestoneRow], document' \in [Milestones -> DocStatus],
         stage' \in [Milestones -> StageState], UNCHANGED <<snag, extension>>
  PROVE  WorksInv'
<1>1. PhaseKeeps /\ Done(p)
  BY DEF PhaseKeeps, Answer, WorksInv
<1>2. QED
  BY <1>1, PhaseRowsWritten, PhaseDone

\* A request of one statement.
LEMMA PhaseWrites ==
  ASSUME WorksInv, topic \in WorkTopics, UNCHANGED <<accountVars, recordVars, topic>>, UNCHANGED gatewayVars,
         SiteMoves, milestone' \in [Milestones -> MilestoneRow], document' \in [Milestones -> DocStatus],
         stage' \in [Milestones -> StageState], UNCHANGED <<snag, extension>>
  PROVE  WorksInv'
<1>1. PhaseKeeps /\ session' = session
  BY DEF PhaseKeeps, gatewayVars, WorksInv
<1>2. QED
  BY <1>1, PhaseRowsWritten, PhaseStepAlone

LEMMA WorkRows ==
  ASSUME WorksInv
  PROVE  /\ milestone \in [Milestones -> MilestoneRow] /\ document \in [Milestones -> DocStatus]
         /\ stage \in [Milestones -> StageState] /\ snag \in [Snags -> SnagStatus] /\ extension \in [Extensions -> ExtStatus]
BY DEF WorksInv, PhaseRows, PhaseTypeOK, MilestoneRow

LEMMA RowApproved ==
  ASSUME NEW r \in MilestoneRow PROVE [r EXCEPT !.approval = "approved", !.done = TRUE] \in MilestoneRow
BY DEF MilestoneRow, Approval

LEMMA ApproveTyped ==
  ASSUME WorksInv, NEW ms, Approve(ms) PROVE milestone' \in [Milestones -> MilestoneRow]
<1>1. ASSUME NEW m \in Milestones PROVE milestone'[m] \in MilestoneRow
  <2>1. milestone[m] \in MilestoneRow
    BY WorkRows
  <2>2. [milestone[m] EXCEPT !.approval = "approved", !.done = TRUE] \in MilestoneRow
    BY <2>1, RowApproved
  <2>3. QED
    BY <2>1, <2>2 DEF Approve
<1>2. QED
  BY <1>1 DEF Approve

LEMMA FiledTyped == \A r : Filed(r) \in DocStatus
BY DEF Filed, DocStatus

LEMMA SyncTyped ==
  ASSUME WorksInv, NEW ms, SyncVault(ms) PROVE document' \in [Milestones -> DocStatus]
<1>1. ASSUME NEW m \in Milestones PROVE document'[m] \in DocStatus
  BY FiledTyped, WorkRows DEF SyncVault
<1>2. QED
  BY <1>1 DEF SyncVault

LEMMA UnlockTyped ==
  ASSUME WorksInv, NEW ms, Unlock(ms) PROVE stage' \in [Milestones -> StageState]
BY WorkRows DEF Unlock, StageState

(***************************************************************************)
(* Milestones.                                                             *)
(***************************************************************************)
LEMMA MilestoneReads ==
  ASSUME WorksInv, topic \in WorkTopics, UNCHANGED <<accountVars, recordVars, topic>>, NEW p \in Clients, NEW m, NEW who,
         \/ BeginStoreMilestone(p, m, who) \/ BeginUpdateMilestone(p, m, who) \/ BeginDestroyMilestone(p, m, who)
         \/ BeginLeadReview(p, m) \/ BeginAuditApproval(p, m) \/ BeginApproveMilestone(p, m)
         \/ UpdateApproved(p) \/ ReadStages(p)
  PROVE  WorksInv' /\ Accepts
<1>1. UNCHANGED <<phaseVars, contested, booked>>
  BY DEF BeginStoreMilestone, BeginUpdateMilestone, BeginDestroyMilestone, BeginLeadReview, BeginAuditApproval, BeginApproveMilestone,
         UpdateApproved, ReadStages, Reads
<1>2. CASE UpdateApproved(p) \/ ReadStages(p)
  <2>1. PICK t : t = session[p]
    OBVIOUS
  <2>2. PICK s : s = IF UpdateApproved(p) THEN [at |-> "approve", ids |-> {t.id}, audit |-> FALSE]
                     ELSE [at |-> "unlock", ids |-> t.ids, audit |-> t.audit, stages |-> LinkedStages(t.ids)]
    OBVIOUS
  <2>3. session' = [session EXCEPT ![p] = s]
    BY <1>2, <2>1, <2>2 DEF UpdateApproved, ReadStages
  <2>4. PhaseSession(s)
    BY <2>2 DEF PhaseSession
  <2>5. QED
    BY <1>1, <2>3, <2>4, PhaseReads DEF Accepts, phaseVars
<1>3. CASE ~(UpdateApproved(p) \/ ReadStages(p))
  <2>1. \E s : Serve(p, s) /\ PhaseSession(s)
    BY <1>3 DEF BeginStoreMilestone, BeginUpdateMilestone, BeginDestroyMilestone, BeginLeadReview, BeginAuditApproval,
                BeginApproveMilestone, Reads, PhaseSession
  <2>2. QED
    BY <1>1, <2>1, PhaseReads DEF Accepts, phaseVars, Serve
<1>4. QED
  BY <1>2, <1>3

LEMMA MilestoneWritten ==
  ASSUME WorksInv, NEW m, NEW r \in MilestoneRow, milestone' = [milestone EXCEPT ![m] = r]
  PROVE  milestone' \in [Milestones -> MilestoneRow]
BY WorkRows

LEMMA MilestoneMoves ==
  ASSUME WorksInv, topic \in WorkTopics, UNCHANGED <<accountVars, recordVars, topic>>, NEW p \in Clients,
         StoreMilestone(p) \/ RequestFee(p)
  PROVE  WorksInv' /\ Accepts
<1>1. UNCHANGED <<document, stage, site, snag, extension, contested, booked>> /\ \E point \in {"stored", "fee"} : To(p, point)
  BY DEF StoreMilestone, RequestFee
<1>2. milestone' \in [Milestones -> MilestoneRow]
  <2>1. CASE StoreMilestone(p)
    <3>1. Fresh \in MilestoneRow
      BY DEF Fresh, NoMilestone, MilestoneRow, Approval
    <3>2. QED
      BY <2>1, <3>1, MilestoneWritten DEF StoreMilestone
  <2>2. CASE RequestFee(p)
    <3>1. PICK m, r : m = session[p].id /\ r = [milestone[m] EXCEPT !.fee = TRUE]
      OBVIOUS
    <3>2. milestone' = [milestone EXCEPT ![m] = r]
      BY <2>2, <3>1 DEF RequestFee
    <3>3. m \in Milestones => milestone[m] \in MilestoneRow
      BY WorkRows
    <3>4. m \in Milestones => r \in MilestoneRow
      BY <3>1, <3>3 DEF MilestoneRow
    <3>5. QED
      BY <3>2, <3>4, WorkRows
  <2>3. QED
    BY <2>1, <2>2
<1>3. PhaseKeeps /\ SiteGrows /\ PhaseRows'
  BY <1>1, <1>2, WorkRows, SiteUnmoved, PhaseRowsWritten DEF PhaseKeeps, WorksInv
<1>4. \E s : session' = [session EXCEPT ![p] = s] /\ PhaseSession(s)
  BY <1>1, PhaseMoves
<1>5. QED
  BY <1>1, <1>3, <1>4, PhaseStep DEF Accepts

LEMMA MilestoneAnswers ==
  ASSUME WorksInv, topic \in WorkTopics, UNCHANGED <<accountVars, recordVars, topic>>, NEW p \in Clients,
         \/ syncMilestoneVault(p) \/ LeadReview(p) \/ DestroyMilestone(p) \/ ApproveMilestone(p)
         \/ \E approval \in {"revision", "kept"}, done \in BOOLEAN : UpdateMilestone(p, approval, done)
  PROVE  WorksInv' /\ Accepts
<1>1. Answer(p) /\ UNCHANGED <<snag, extension>>
  BY DEF syncMilestoneVault, LeadReview, DestroyMilestone, ApproveMilestone, UpdateMilestone
<1>2. SiteMoves /\ site'.accepted = site.accepted
  <2>1. CASE ApproveMilestone(p)
    BY <2>1, ApprovedWritten DEF ApproveMilestone
  <2>2. CASE ~ApproveMilestone(p)
    <3>1. site' = site
      BY <2>2 DEF syncMilestoneVault, LeadReview, DestroyMilestone, UpdateMilestone
    <3>2. QED
      BY <3>1, SiteUnmoved
  <2>3. QED
    BY <2>1, <2>2
<1>3. /\ milestone' \in [Milestones -> MilestoneRow] /\ document' \in [Milestones -> DocStatus]
      /\ stage' \in [Milestones -> StageState]
  <2>1. CASE syncMilestoneVault(p)
    BY <2>1, WorkRows, FiledTyped DEF syncMilestoneVault
  <2>2. CASE LeadReview(p) \/ DestroyMilestone(p)
    <3>1. milestone' \in [Milestones -> MilestoneRow]
      <4>1. CASE LeadReview(p)
        <5>1. PICK m, r : m = session[p].id /\ r = [milestone[m] EXCEPT !.approval = "reviewed"]
          OBVIOUS
        <5>2. milestone' = milestone \/ milestone' = [milestone EXCEPT ![m] = r]
          <6>1. milestone' = IF Exists(session[p].id) THEN [milestone EXCEPT ![session[p].id].approval = "reviewed"] ELSE milestone
            BY <4>1 DEF LeadReview
          <6>2. milestone' = milestone \/ milestone' = [milestone EXCEPT ![session[p].id].approval = "reviewed"]
            BY <6>1
          <6>3. QED
            BY <5>1, <6>2
        <5>3. m \in Milestones => milestone[m] \in MilestoneRow
          BY WorkRows
        <5>4. m \in Milestones => r \in MilestoneRow
          BY <5>1, <5>3 DEF MilestoneRow, Approval
        <5>5. QED
          BY <5>2, <5>4, WorkRows
      <4>2. CASE DestroyMilestone(p)
        <5> DEFINE m == session[p].id
                   r == [milestone[m] EXCEPT !.there = FALSE]
        <5>1. m \in Milestones => r \in MilestoneRow
          <6>1. m \in Milestones => milestone[m] \in MilestoneRow
            BY WorkRows
          <6> HIDE DEF m
          <6>2. QED
            BY <6>1 DEF MilestoneRow
        <5>2. milestone' = [milestone EXCEPT ![m] = r]
          BY <4>2 DEF DestroyMilestone
        <5> HIDE DEF m, r
        <5>3. QED
          BY <5>1, <5>2, WorkRows
      <4>3. QED
        BY <2>2, <4>1, <4>2
    <3>2. UNCHANGED <<document, stage>>
      BY <2>2 DEF LeadReview, DestroyMilestone
    <3>3. QED
      BY <3>1, <3>2, WorkRows
  <2>3. CASE ApproveMilestone(p)
    BY <2>3, ApproveTyped, SyncTyped, UnlockTyped DEF ApproveMilestone
  <2>4. ASSUME NEW approval \in {"revision", "kept"}, NEW done \in BOOLEAN, UpdateMilestone(p, approval, done)
        PROVE  /\ milestone' \in [Milestones -> MilestoneRow] /\ document' \in [Milestones -> DocStatus]
               /\ stage' \in [Milestones -> StageState]
    <3>1. document' \in [Milestones -> DocStatus] /\ stage' = stage
      BY <2>4, SyncTyped DEF UpdateMilestone
    <3>2. milestone' \in [Milestones -> MilestoneRow]
      <4> DEFINE m == session[p].id
                 to == IF approval = "kept" THEN milestone[m].approval ELSE approval
      <4>1. m \in Milestones => to \in Approval
        BY WorkRows DEF MilestoneRow, Approval
      <4>2. milestone' = IF Exists(m) THEN [milestone EXCEPT ![m].approval = to, ![m].done = done] ELSE milestone
        BY <2>4 DEF UpdateMilestone
      <4> HIDE DEF to, m
      <4>3. QED
        BY <4>1, <4>2, WorkRows DEF MilestoneRow
    <3>3. QED
      BY <3>1, <3>2, WorkRows
  <2>5. QED
    BY <2>1, <2>2, <2>3, <2>4
<1>4. QED
  BY <1>1, <1>2, <1>3, PhaseAnswers DEF Accepts

LEMMA AuditStep ==
  ASSUME WorksInv, topic \in WorkTopics, UNCHANGED <<accountVars, recordVars, topic>>, NEW m \in Milestones,
         NEW approval \in {"pending", ""}, AuditMilestone(m, approval)
  PROVE  WorksInv' /\ Accepts
<1>1. SiteMoves /\ site'.accepted = site.accepted
  BY ApprovedWritten DEF AuditMilestone
<1>2. milestone' \in [Milestones -> MilestoneRow]
  BY WorkRows DEF AuditMilestone, MilestoneRow, Approval
<1>3. QED
  BY <1>1, <1>2, WorkRows, PhaseWrites DEF AuditMilestone, Accepts

LEMMA BookWritten ==
  ASSUME WorksInv, NEW r \in References, NEW amount \in Nat, Book(r, amount)
  PROVE  booked' \in [References -> Nat]
BY DEF WorksInv, Book

LEMMA PayStageStep ==
  ASSUME WorksInv, topic \in WorkTopics, UNCHANGED <<accountVars, recordVars, topic>>, NEW m \in Milestones, PayStage(m)
  PROVE  WorksInv' /\ Accepts
<1>1. booked' \in [References -> Nat] /\ contested' \in BOOLEAN
  BY BookWritten, MilestonesAreReferences, AmountsAreNats DEF PayStage, WorksInv
<1>2. stage' \in [Milestones -> StageState]
  BY WorkRows DEF PayStage, StageState
<1>3. PhaseKeeps /\ SiteGrows /\ PhaseRows' /\ session' = session
  BY <1>1, <1>2, WorkRows, SiteUnmoved, PhaseRowsWritten DEF PhaseKeeps, PayStage
<1>4. QED
  BY <1>3, PhaseStepAlone DEF Accepts, PayStage

LEMMA MilestonesStep ==
  ASSUME WorksInv, topic \in WorkTopics, UNCHANGED <<accountVars, recordVars, topic>>, MilestoneNext \/ ApproveNext
  PROVE  WorksInv' /\ Accepts
<1>1. \/ \E p \in Clients, m \in Milestones, who \in Deciders \cup {"pro"} :
           \/ BeginStoreMilestone(p, m, who) \/ BeginUpdateMilestone(p, m, who) \/ BeginDestroyMilestone(p, m, who)
      \/ \E p \in Clients, m \in Milestones :
           BeginLeadReview(p, m) \/ BeginAuditApproval(p, m) \/ BeginApproveMilestone(p, m)
      \/ \E p \in Clients : UpdateApproved(p) \/ ReadStages(p)
      \/ \E p \in Clients : StoreMilestone(p) \/ RequestFee(p)
      \/ \E p \in Clients :
           \/ syncMilestoneVault(p) \/ LeadReview(p) \/ DestroyMilestone(p) \/ ApproveMilestone(p)
           \/ \E approval \in {"revision", "kept"}, done \in BOOLEAN : UpdateMilestone(p, approval, done)
      \/ \E m \in Milestones, approval \in {"pending", ""} : AuditMilestone(m, approval)
      \/ \E m \in Milestones : PayStage(m)
  BY DEF MilestoneNext, ApproveNext
<1>2. QED
  BY <1>1, MilestoneReads, MilestoneMoves, MilestoneAnswers, AuditStep, PayStageStep

(***************************************************************************)
(* The review of the design.                                               *)
(***************************************************************************)
LEMMA DesignWrites ==
  ASSUME WorksInv, topic \in WorkTopics, UNCHANGED <<accountVars, recordVars, topic>>, SubmitDesign \/ ReviseDesign
  PROVE  WorksInv' /\ Accepts
<1>1. SiteMoves /\ site'.accepted = site.accepted
  BY SiteUnmoved, ApprovedWritten DEF SubmitDesign, ReviseDesign
<1>2. document' \in [Milestones -> DocStatus]
  BY WorkRows DEF SubmitDesign, ReviseDesign, DocStatus
<1>3. UNCHANGED <<milestone, stage, snag, extension, gatewayVars>>
  BY DEF SubmitDesign, ReviseDesign
<1>4. QED
  BY <1>1, <1>2, <1>3, WorkRows, PhaseWrites DEF Accepts

LEMMA DesignReads ==
  ASSUME WorksInv, topic \in WorkTopics, UNCHANGED <<accountVars, recordVars, topic>>, NEW p \in Clients, BeginApproveDesign(p)
  PROVE  WorksInv' /\ Accepts
<1>1. \E s : Serve(p, s) /\ PhaseSession(s)
  BY DEF BeginApproveDesign, Reads, PhaseSession
<1>2. UNCHANGED <<phaseVars, contested, booked>>
  BY DEF BeginApproveDesign, Reads
<1>3. QED
  BY <1>1, <1>2, PhaseReads DEF Accepts, phaseVars, Serve

LEMMA DesignAnswers ==
  ASSUME WorksInv, topic \in WorkTopics, UNCHANGED <<accountVars, recordVars, topic>>, NEW p \in Clients, ApproveDesign(p)
  PROVE  WorksInv' /\ Accepts
<1>1. SiteMoves /\ site'.accepted = site.accepted
  BY ApprovedWritten DEF ApproveDesign
<1>2. document' \in [Milestones -> DocStatus]
  BY WorkRows DEF ApproveDesign, DocStatus
<1>3. milestone' \in [Milestones -> MilestoneRow] /\ stage' \in [Milestones -> StageState]
  BY ApproveTyped, UnlockTyped DEF ApproveDesign
<1>4. Answer(p) /\ UNCHANGED <<snag, extension>>
  BY DEF ApproveDesign
<1>5. QED
  BY <1>1, <1>2, <1>3, <1>4, PhaseAnswers DEF Accepts

(***************************************************************************)
(* Planning, brief, permits, and the other requests that write the row of  *)
(* the project alone.                                                      *)
(***************************************************************************)
LEMMA PhaseStamps ==
  ASSUME WorksInv, topic \in WorkTopics, UNCHANGED <<accountVars, recordVars, topic>>, NEW p \in Clients, NEW change,
         Stamps(p, change), SiteMoves
  PROVE  WorksInv'
<1>1. Answer(p) /\ UNCHANGED <<milestone, document, stage, snag, extension>>
  BY DEF Stamps
<1>2. QED
  BY <1>1, WorkRows, PhaseAnswers

LEMMA PhaseRewrites ==
  ASSUME WorksInv, topic \in WorkTopics, UNCHANGED <<accountVars, recordVars, topic>>, NEW change,
         Rewrites(change), SiteMoves
  PROVE  WorksInv'
<1>1. UNCHANGED <<milestone, document, stage, snag, extension, gatewayVars>>
  BY DEF Rewrites
<1>2. QED
  BY <1>1, WorkRows, PhaseWrites

LEMMA PlanReads ==
  ASSUME WorksInv, topic \in WorkTopics, UNCHANGED <<accountVars, recordVars, topic>>, NEW p \in Clients, NEW word,
         \/ BeginVerifyPlanning(p) \/ BeginApprovePlanning(p) \/ BeginRejectPlanning(p) \/ BeginKickoff(p, word)
         \/ BeginLockBrief(p) \/ BeginApproveBrief(p) \/ BeginPermit(p, word)
  PROVE  WorksInv' /\ Accepts
<1>1. \E s : Serve(p, s) /\ PhaseSession(s)
  BY DEF BeginVerifyPlanning, BeginApprovePlanning, BeginRejectPlanning, BeginKickoff, BeginLockBrief, BeginApproveBrief, BeginPermit,
         Reads, PhaseSession
<1>2. UNCHANGED <<phaseVars, contested, booked>>
  BY DEF BeginVerifyPlanning, BeginApprovePlanning, BeginRejectPlanning, BeginKickoff, BeginLockBrief, BeginApproveBrief, BeginPermit, Reads
<1>3. QED
  BY <1>1, <1>2, PhaseReads DEF Accepts, phaseVars, Serve

LEMMA PlanStamps ==
  ASSUME WorksInv, topic \in WorkTopics, UNCHANGED <<accountVars, recordVars, topic>>, NEW p \in Clients,
         VerifyPlanningPM(p) \/ ApprovePlanning(p) \/ RejectPlanning(p) \/ IssueKickoff(p) \/ LockPhaseBrief(p)
         \/ ApproveConstructionBrief(p) \/ permitVerification(p)
  PROVE  WorksInv' /\ Accepts
<1>1. \E change : Stamps(p, change)
  BY DEF VerifyPlanningPM, ApprovePlanning, RejectPlanning, IssueKickoff, LockPhaseBrief, ApproveConstructionBrief, permitVerification
<1>2. SiteMoves /\ site'.accepted = site.accepted
  <2>1. CASE VerifyPlanningPM(p) \/ ApprovePlanning(p) \/ RejectPlanning(p)
    BY <2>1, PlanningWritten DEF VerifyPlanningPM, ApprovePlanning, RejectPlanning, Stamps, Planning
  <2>2. CASE IssueKickoff(p)
    BY <2>2, SiteWritten, SiteFacts DEF IssueKickoff, Stamps, SiteMoves, SiteGrows, Answered, Fields
  <2>3. CASE LockPhaseBrief(p)
    BY <2>3, SiteWritten, SiteFacts DEF LockPhaseBrief, Stamps, SiteMoves, SiteGrows, Answered, Fields, Brief
  <2>4. CASE ApproveConstructionBrief(p)
    BY <2>4, SiteWritten, SiteFacts DEF ApproveConstructionBrief, Stamps, SiteMoves, SiteGrows, Answered, Fields, Brief, Phase
  <2>5. CASE permitVerification(p) /\ session[p].kind = "pbg"
    BY <2>5, SiteWritten, SiteFacts DEF permitVerification, Stamps, SiteMoves, SiteGrows, Answered, Fields
  <2>6. CASE permitVerification(p) /\ session[p].kind # "pbg"
    BY <2>6, SiteWritten, SiteFacts DEF permitVerification, Stamps, SiteMoves, SiteGrows, Answered, Fields
  <2>7. QED
    BY <2>1, <2>2, <2>3, <2>4, <2>5, <2>6
<1>3. QED
  BY <1>1, <1>2, PhaseStamps DEF Accepts

LEMMA PlanRewrites ==
  ASSUME WorksInv, topic \in WorkTopics, UNCHANGED <<accountVars, recordVars, topic>>,
         \/ SubmitPlanning \/ LockDesignBrief \/ ReviseConstructionBrief \/ InitiateWalkthrough
         \/ \E ph \in {"design", "materials"}, authorized \in BOOLEAN : AuthorizePhase(ph, authorized)
         \/ \E ph \in HandedOver : PhaseHandoverRevision(ph)
         \/ \E status \in SiteStatus : UpdateStatus(status)
         \/ \E list \in PhaseLists : UpdateNeeded(list) \/ UpdateListed(list)
  PROVE  WorksInv' /\ Accepts
<1>1. \E change : Rewrites(change)
  BY DEF SubmitPlanning, LockDesignBrief, ReviseConstructionBrief, InitiateWalkthrough, AuthorizePhase, PhaseHandoverRevision,
         UpdateStatus, UpdateNeeded, UpdateListed
<1>2. SiteMoves /\ site'.accepted = site.accepted
  <2>1. CASE SubmitPlanning
    BY <2>1, PlanningWritten DEF SubmitPlanning, Rewrites, Planning
  <2>2. CASE LockDesignBrief
    BY <2>2, SiteWritten, SiteFacts DEF LockDesignBrief, Rewrites, SiteMoves, SiteGrows, Answered, Fields, Phase
  <2>3. CASE ReviseConstructionBrief
    BY <2>3, SiteWritten, SiteFacts DEF ReviseConstructionBrief, Rewrites, SiteMoves, SiteGrows, Answered, Fields, Brief
  <2>4. CASE InitiateWalkthrough
    BY <2>4, SiteWritten, SiteFacts DEF InitiateWalkthrough, Rewrites, SiteMoves, SiteGrows, Answered, Fields, SiteStatus
  <2>5. ASSUME NEW ph, NEW authorized, AuthorizePhase(ph, authorized) PROVE SiteMoves /\ site'.accepted = site.accepted
    BY <2>5, SiteWritten, SiteFacts DEF AuthorizePhase, Rewrites, SiteMoves, SiteGrows, Answered, Fields
  <2>6. ASSUME NEW ph \in HandedOver, PhaseHandoverRevision(ph) PROVE SiteMoves /\ site'.accepted = site.accepted
    BY <2>6, SiteWritten, SiteFacts DEF PhaseHandoverRevision, Rewrites, SiteMoves, SiteGrows, Answered, Fields
  <2>7. ASSUME NEW status \in SiteStatus, UpdateStatus(status) PROVE SiteMoves /\ site'.accepted = site.accepted
    BY <2>7, SiteWritten, SiteFacts DEF UpdateStatus, Rewrites, SiteMoves, SiteGrows, Answered, Fields
  <2>8. ASSUME NEW list, UpdateNeeded(list) PROVE SiteMoves /\ site'.accepted = site.accepted
    BY <2>8, SiteWritten, SiteFacts DEF UpdateNeeded, Rewrites, SiteMoves, SiteGrows, Answered, Fields
  <2>9. ASSUME NEW list, UpdateListed(list) PROVE SiteMoves /\ site'.accepted = site.accepted
    BY <2>9, SiteWritten, SiteFacts DEF UpdateListed, Rewrites, SiteMoves, SiteGrows, Answered, Fields
  <2>10. QED
    BY <2>1, <2>2, <2>3, <2>4, <2>5, <2>6, <2>7, <2>8, <2>9
<1>3. QED
  BY <1>1, <1>2, PhaseRewrites DEF Accepts

(***************************************************************************)
(* The handover of a phase.                                                *)
(***************************************************************************)
LEMMA HandoverReads ==
  ASSUME WorksInv, topic \in WorkTopics, UNCHANGED <<accountVars, recordVars, topic>>, NEW p \in Clients, NEW ph \in Phase,
         BeginSeal(p, ph) \/ BeginPhaseApprove(p, ph) \/ BeginVerifyLegal(p)
  PROVE  WorksInv' /\ Accepts
<1>1. \E s : Serve(p, s) /\ PhaseSession(s)
  BY SiteFacts DEF BeginSeal, BeginPhaseApprove, BeginVerifyLegal, Reads, PhaseSession, Answered
<1>2. UNCHANGED <<phaseVars, contested, booked>>
  BY DEF BeginSeal, BeginPhaseApprove, BeginVerifyLegal, Reads
<1>3. QED
  BY <1>1, <1>2, PhaseReads DEF Accepts, phaseVars, Serve

LEMMA ReadPhaseStep ==
  ASSUME WorksInv, topic \in WorkTopics, UNCHANGED <<accountVars, recordVars, topic>>, NEW p \in Clients, ReadPhase(p)
  PROVE  WorksInv' /\ Accepts
<1>1. PICK t : t = session[p]
  OBVIOUS
<1>2. t.phase \in Phase /\ t.listed \subseteq Answered
  BY <1>1, PhaseFacts DEF ReadPhase, At, PhaseSession
<1>3. \E ids, stages : session' = [session EXCEPT ![p] = [at |-> "verifyPhase", phase |-> t.phase, listed |-> t.listed,
                                                          ids |-> ids, stages |-> stages]]
  BY <1>1 DEF ReadPhase
<1>4. PICK ids, stages : session' = [session EXCEPT ![p] = [at |-> "verifyPhase", phase |-> t.phase, listed |-> t.listed,
                                                            ids |-> ids, stages |-> stages]]
  BY <1>3
<1>5. PICK s : s = [at |-> "verifyPhase", phase |-> t.phase, listed |-> t.listed, ids |-> ids, stages |-> stages]
  OBVIOUS
<1>6. PhaseSession(s) /\ session' = [session EXCEPT ![p] = s]
  BY <1>2, <1>4, <1>5 DEF PhaseSession
<1>7. UNCHANGED <<phaseVars, contested, booked>>
  BY DEF ReadPhase
<1>8. QED
  BY <1>6, <1>7, PhaseReads DEF Accepts, phaseVars

LEMMA SealStep ==
  ASSUME WorksInv, topic \in WorkTopics, UNCHANGED <<accountVars, recordVars, topic>>, NEW p \in Clients, SealPhase(p)
  PROVE  WorksInv' /\ Accepts
<1>1. session[p].phase \in Phase
  BY PhaseFacts DEF SealPhase, At, PhaseSession
<1>2. SiteMoves /\ site'.accepted = site.accepted
  BY <1>1, SiteWritten, SiteFacts DEF SealPhase, Stamps, SiteMoves, SiteGrows, Answered, Fields
<1>3. \E change : Stamps(p, change)
  BY DEF SealPhase
<1>4. QED
  BY <1>2, <1>3, PhaseStamps DEF Accepts

LEMMA VerifyPhaseStep ==
  ASSUME WorksInv, topic \in WorkTopics, UNCHANGED <<accountVars, recordVars, topic>>, NEW p \in Clients,
         verifyPhaseTx(p) \/ VerifyLegal(p)
  PROVE  WorksInv' /\ Accepts
<1>1. Answer(p) /\ UNCHANGED <<snag, extension>> /\ \E ms : Unlock(ms)
  BY DEF verifyPhaseTx, VerifyLegal
<1>2. CASE verifyPhaseTx(p)
  <2>1. session[p].phase \in Phase /\ session[p].listed \subseteq Answered
    BY <1>2, PhaseFacts DEF verifyPhaseTx, At, PhaseSession
  <2> DEFINE ph == session[p].phase
             change == [stamped   |-> site.stamped \cup {ph},
                        locked    |-> site.locked \cup {ph},
                        approved  |-> site.approved \cup {ph},
                        submitted |-> IF ph = "legal" THEN site.submitted \ {"legal"} ELSE site.submitted,
                        listed    |-> session[p].listed \cup {ph}]
  <2>2. Site(change)
    BY <1>2 DEF verifyPhaseTx
  <2>3. /\ DOMAIN site' = Fields /\ site'.stamped = site.stamped \cup {ph} /\ site'.locked = site.locked \cup {ph}
        /\ site'.submitted = (IF ph = "legal" THEN site.submitted \ {"legal"} ELSE site.submitted)
        /\ site'.listed = session[p].listed \cup {ph}
    BY <2>2, SiteWritten DEF Fields
  <2>4. \A x \in {"status", "planning", "brief", "deadline", "claimed", "slf", "accepted"} : site'[x] = site[x]
    BY <2>2, SiteWritten DEF Fields
  <2>5. SiteMoves /\ site'.accepted = site.accepted
    BY <2>1, <2>3, <2>4, SiteFacts DEF SiteMoves, SiteGrows, Answered
  <2>6. milestone' \in [Milestones -> MilestoneRow]
    BY <1>2, ApproveTyped DEF verifyPhaseTx
  <2>7. document' \in [Milestones -> DocStatus]
    BY <1>2, WorkRows DEF verifyPhaseTx, DocStatus
  <2>8. QED
    BY <1>1, <2>5, <2>6, <2>7, UnlockTyped, PhaseAnswers DEF Accepts
<1>3. CASE VerifyLegal(p)
  <2> DEFINE legal == {"legal"}
             change == [stamped |-> site.stamped \cup legal, locked |-> site.locked \cup legal, approved |-> site.approved \cup legal,
                        submitted |-> site.submitted \ legal, listed |-> site.listed \cup legal]
  <2>1. Site(change)
    BY <1>3 DEF VerifyLegal
  <2>2. /\ DOMAIN site' = Fields /\ site'.stamped = site.stamped \cup legal /\ site'.locked = site.locked \cup legal
        /\ site'.submitted = site.submitted \ legal /\ site'.listed = site.listed \cup legal
    BY <2>1, SiteWritten DEF Fields
  <2>3. \A x \in {"status", "planning", "brief", "deadline", "claimed", "slf", "accepted"} : site'[x] = site[x]
    BY <2>1, SiteWritten DEF Fields
  <2>4. SiteMoves /\ site'.accepted = site.accepted
    BY <2>2, <2>3, SiteFacts DEF SiteMoves, SiteGrows, Answered, Phase
  <2>5. UNCHANGED <<milestone, document>>
    BY <1>3 DEF VerifyLegal
  <2>6. QED
    BY <1>1, <2>4, <2>5, WorkRows, UnlockTyped, PhaseAnswers DEF Accepts
<1>4. QED
  BY <1>2, <1>3

LEMMA ImplicitStep ==
  ASSUME WorksInv, topic \in WorkTopics, UNCHANGED <<accountVars, recordVars, topic>>, implicitVerifyDesign
  PROVE  WorksInv' /\ Accepts
<1> DEFINE design == {"design"}
           change == [stamped |-> site.stamped \cup design, locked |-> site.locked \cup design, approved |-> site.approved \cup design,
                      listed |-> site.listed \cup design]
<1>1. Rewrites(change)
  BY DEF implicitVerifyDesign
<1>2. Site(change)
  BY <1>1 DEF Rewrites
<1>3. /\ DOMAIN site' = Fields /\ site'.stamped = site.stamped \cup design /\ site'.locked = site.locked \cup design
      /\ site'.listed = site.listed \cup design
  BY <1>2, SiteWritten DEF Fields
<1>4. \A x \in {"status", "planning", "brief", "submitted", "deadline", "claimed", "slf", "accepted"} : site'[x] = site[x]
  BY <1>2, SiteWritten DEF Fields
<1>5. SiteMoves /\ site'.accepted = site.accepted
  BY <1>3, <1>4, SiteFacts DEF SiteMoves, SiteGrows, Answered, Phase
<1> HIDE DEF change
<1>6. QED
  BY <1>1, <1>5, PhaseRewrites DEF Accepts

(***************************************************************************)
(* Snags, extensions and the acceptance.                                   *)
(***************************************************************************)
LEMMA AcceptReads ==
  ASSUME WorksInv, topic \in WorkTopics, UNCHANGED <<accountVars, recordVars, topic>>, NEW p \in Clients, NEW n,
         BeginOwnerAccept(p) \/ BeginAcceptSnag(p, n) \/ BeginDecideExtension(p, n)
  PROVE  WorksInv' /\ Accepts
<1>1. \E s : Serve(p, s) /\ PhaseSession(s)
  BY SiteFacts DEF BeginOwnerAccept, BeginAcceptSnag, BeginDecideExtension, Reads, PhaseSession, Answered
<1>2. UNCHANGED <<phaseVars, contested, booked>>
  BY DEF BeginOwnerAccept, BeginAcceptSnag, BeginDecideExtension, Reads
<1>3. QED
  BY <1>1, <1>2, PhaseReads DEF Accepts, phaseVars, Serve

LEMMA CountStep ==
  ASSUME WorksInv, topic \in WorkTopics, UNCHANGED <<accountVars, recordVars, topic>>, NEW p \in Clients, CountSnags(p)
  PROVE  WorksInv' /\ Accepts
<1>1. To(p, "finalize") /\ At(p, "accept") /\ UNCHANGED <<phaseVars, contested, booked>>
  BY DEF CountSnags
<1>2. \E s : session' = [session EXCEPT ![p] = s] /\ PhaseSession(s)
  BY <1>1, PhaseMoves
<1>3. QED
  BY <1>1, <1>2, PhaseReads DEF Accepts, phaseVars

LEMMA FinalizeStep ==
  ASSUME WorksInv, topic \in WorkTopics, UNCHANGED <<accountVars, recordVars, topic>>, NEW p \in Clients, handoverFinalize(p)
  PROVE  WorksInv' /\ Accepts
<1>1. \E change : Stamps(p, change)
  BY DEF handoverFinalize, Finalize
<1>2. SiteMoves
  BY SiteWritten, SiteFacts DEF handoverFinalize, Finalize, Stamps, SiteMoves, SiteGrows, Answered, Fields, SiteStatus
<1>3. QED
  BY <1>1, <1>2, PhaseStamps DEF Accepts

LEMMA SnagWritten ==
  ASSUME WorksInv, NEW n, NEW status \in SnagStatus, SetSnag(n, status)
  PROVE  PhaseRows' /\ UNCHANGED site
BY DEF WorksInv, PhaseRows, PhaseTypeOK, SetSnag, Answered

LEMMA SnagStep ==
  ASSUME WorksInv, topic \in WorkTopics, UNCHANGED <<accountVars, recordVars, topic>>,
         \/ \E n \in Snags : StoreSnagItem(n) \/ \E status \in {"in_progress", "resolved"} : UpdateSnagItem(n, status)
         \/ \E p \in Clients : AcceptSnag(p)
  PROVE  WorksInv' /\ Accepts
<1>1. PhaseRows' /\ UNCHANGED site
  BY SnagWritten DEF StoreSnagItem, UpdateSnagItem, AcceptSnag, SnagStatus
<1>2. UNCHANGED <<contested, booked>> /\ (session' = session \/ \E p \in Clients : Done(p))
  BY DEF StoreSnagItem, UpdateSnagItem, AcceptSnag, Answer, gatewayVars
<1>3. PhaseKeeps /\ SiteGrows
  BY <1>1, <1>2, SiteStill DEF PhaseKeeps, WorksInv
<1>4. QED
  BY <1>1, <1>2, <1>3, PhaseStepAlone, PhaseDone DEF Accepts

LEMMA ExtensionWrites ==
  ASSUME WorksInv, topic \in WorkTopics, UNCHANGED <<accountVars, recordVars, topic>>, NEW e \in Extensions,
         StoreExtension(e) \/ \E status \in {"pm_reviewed", "rejected"} : ReviewExtension(e, status)
  PROVE  WorksInv' /\ Accepts
<1>1. UNCHANGED <<milestone, document, stage, site, snag, gatewayVars>>
  BY DEF StoreExtension, ReviewExtension
<1>2. extension' \in [Extensions -> ExtStatus]
  BY WorkRows DEF StoreExtension, ReviewExtension, ExtStatus
<1>3. PhaseRows'
  BY <1>1, <1>2 DEF WorksInv, PhaseRows, PhaseTypeOK, Answered
<1>4. PhaseKeeps /\ SiteGrows /\ session' = session
  BY <1>1, SiteStill DEF PhaseKeeps, WorksInv, gatewayVars
<1>5. QED
  BY <1>1, <1>3, <1>4, PhaseStepAlone DEF Accepts

LEMMA ExtensionAnswers ==
  ASSUME WorksInv, topic \in WorkTopics, UNCHANGED <<accountVars, recordVars, topic>>, NEW p \in Clients,
         NEW status \in {"approved", "rejected"}, ExtensionDecision(p, status)
  PROVE  WorksInv' /\ Accepts
<1>1. PICK d : d = session[p].deadline
  OBVIOUS
<1>2. d \in 0..MaxDeadline /\ d < MaxDeadline
  BY <1>1, PhaseFacts DEF ExtensionDecision, At, PhaseSession
<1>3. PICK to : to = IF status = "approved" THEN d + 1 ELSE site.deadline
  OBVIOUS
<1>4. to \in 0..MaxDeadline
  BY <1>2, <1>3, SiteFacts, AmountsAreNats
<1>5. Site([deadline |-> to])
  BY <1>1, <1>3 DEF ExtensionDecision
<1>6. SiteMoves /\ site'.accepted = site.accepted
  BY <1>4, <1>5, SiteWritten, SiteFacts DEF SiteMoves, SiteGrows, Answered, Fields
<1>7. extension' \in [Extensions -> ExtStatus] /\ Answer(p) /\ UNCHANGED <<milestone, document, stage, snag>>
  BY WorkRows DEF ExtensionDecision, ExtStatus
<1>8. PhaseRows' /\ SiteGrows
  BY <1>6, <1>7 DEF WorksInv, SiteMoves, PhaseRows, PhaseTypeOK, Answered
<1>9. PhaseKeeps /\ Done(p)
  BY <1>7 DEF PhaseKeeps, Answer, WorksInv
<1>10. QED
  BY <1>6, <1>8, <1>9, PhaseDone DEF Accepts

LEMMA WorksStep ==
  ASSUME WorksInv, WorksNext, UNCHANGED <<accountVars, recordVars, topic>>
  PROVE  WorksInv' /\ Accepts
<1>1. topic \in WorkTopics
  BY DEF WorksNext, WorkTopics
<1>2. CASE MilestoneNext \/ ApproveNext
  BY <1>1, <1>2, MilestonesStep
<1>3. CASE DesignNext
  BY <1>1, <1>3, DesignWrites, DesignReads, DesignAnswers, PayStageStep DEF DesignNext
<1>4. CASE PlanNext
  BY <1>1, <1>4, PlanReads, PlanStamps, PlanRewrites DEF PlanNext
<1>5. CASE BriefNext
  BY <1>1, <1>5, PlanReads, PlanStamps, PlanRewrites DEF BriefNext
<1>6. CASE PhaseNext
  <2>1. "legal" \in Phase
    BY DEF Phase
  <2>2. QED
    BY <1>1, <1>6, <2>1, PhasesHandedOver, HandoverReads, SealStep, ReadPhaseStep, VerifyPhaseStep, ImplicitStep, PlanRewrites, PayStageStep
       DEF PhaseNext
<1>7. CASE AcceptNext
  <2>1. {"design", "legal"} \subseteq Phase
    BY DEF Phase
  <2>2. QED
    BY <1>1, <1>7, <2>1, AcceptReads, CountStep, FinalizeStep, HandoverReads, ReadPhaseStep, VerifyPhaseStep, PlanStamps, PlanReads, PlanRewrites
       DEF AcceptNext
<1>8. CASE SnagNext
  BY <1>1, <1>8, PlanRewrites, SnagStep, AcceptReads, CountStep, FinalizeStep, ExtensionWrites, ExtensionAnswers DEF SnagNext
<1>9. QED
  BY <1>2, <1>3, <1>4, <1>5, <1>6, <1>7, <1>8 DEF WorksNext

(***************************************************************************)
(* The accounts.                                                           *)
(***************************************************************************)
AccountKeeps ==
  /\ topic \in AccountTopics /\ UNCHANGED <<phaseVars, recordVars, topic>>
  /\ UNCHANGED <<contested, booked>>

LEMMA AccountSessionKept ==
  ASSUME NEW t, AccountSession(t), IdentityRows, IdentityRows', account.password <= account'.password PROVE AccountSession(t)'
BY AccountBounds DEF AccountSession, IdentityRows

LEMMA AccountApart ==
  ASSUME WorksInv, AccountKeeps, Sessions', AccountRows', Windows' PROVE WorksInv'
<1>1. topic' = topic /\ topic # "files"
  BY DEF AccountKeeps, AccountTopics
<1>2. row' = row
  BY DEF AccountKeeps, recordVars
<1>3. PhaseRows' /\ RecordRows'
  BY PhaseRowsStill, RecordRowsStill DEF AccountKeeps
<1>4. IF topic' = "files" THEN FilesHeld' ELSE \A r \in Rows : row'[r] = NoRow
  BY <1>1, <1>2, RowsApart
<1>5. topic' \in WorkTopics \cup AccountTopics \cup RecordTopics /\ booked' \in [References -> Nat] /\ contested' \in BOOLEAN
  BY <1>1 DEF AccountKeeps, WorksInv
<1>6. QED
  BY <1>3, <1>4, <1>5 DEF WorksInv

LEMMA AccountStep ==
  ASSUME WorksInv, AccountKeeps, NEW p \in Clients, NEW s, session' = [session EXCEPT ![p] = s], AccountSession(s),
         account.password <= account'.password, AccountRows', Windows'
  PROVE  WorksInv'
<1>1. topic' = topic /\ topic \in AccountTopics /\ topic \notin WorkTopics /\ topic \notin RecordTopics
  BY DEF AccountKeeps, WorkTopics, AccountTopics, RecordTopics
<1>2. ASSUME NEW q \in Clients PROVE AccountSession(session[q])'
  <2>1. PICK t : t = IF q = p THEN s ELSE session[q]
    OBVIOUS
  <2>2. AccountSession(t)
    BY <1>1, <2>1 DEF WorksInv, Sessions
  <2>3. AccountSession(t)'
    BY <2>2, AccountSessionKept DEF WorksInv, AccountRows
  <2>4. session'[q] = t
    BY <2>1 DEF WorksInv, Sessions
  <2>5. QED
    BY <2>3, <2>4 DEF AccountSession
<1>3. session' = [q \in Clients |-> session'[q]]
  BY DEF WorksInv, Sessions
<1>4. Sessions'
  BY <1>1, <1>2, <1>3 DEF Sessions
<1>5. QED
  BY <1>4, AccountApart

LEMMA AccountStepAlone ==
  ASSUME WorksInv, AccountKeeps, UNCHANGED session, account.password <= account'.password, AccountRows', Windows'
  PROVE  WorksInv'
<1>1. topic' = topic /\ topic \in AccountTopics /\ topic \notin WorkTopics /\ topic \notin RecordTopics
  BY DEF AccountKeeps, WorkTopics, AccountTopics, RecordTopics
<1>2. ASSUME NEW q \in Clients PROVE AccountSession(session[q])'
  <2>1. PICK t : t = session[q]
    OBVIOUS
  <2>2. AccountSession(t)
    BY <1>1, <2>1 DEF WorksInv, Sessions
  <2>3. AccountSession(t)'
    BY <2>2, AccountSessionKept DEF WorksInv, AccountRows
  <2>4. session'[q] = t
    BY <2>1
  <2>5. QED
    BY <2>3, <2>4 DEF AccountSession
<1>3. Sessions'
  BY <1>1, <1>2 DEF Sessions, WorksInv
<1>4. QED
  BY <1>3, AccountApart

LEMMA AccountFacts ==
  ASSUME WorksInv, topic \in AccountTopics, NEW p \in Clients
  PROVE  AccountSession(session[p])
BY DEF WorksInv, Sessions

LEMMA IdleIsAccount == AccountSession(Idle)
BY DEF Idle, AccountSession

\* To another point, with what the request holds already.
LEMMA AccountMoves ==
  ASSUME WorksInv, topic \in AccountTopics, NEW p \in Clients, NEW point, To(p, point),
         point \in {"code", "tokens"} \/ (point = "role" /\ At(p, "grant"))
  PROVE  \E s : session' = [session EXCEPT ![p] = s] /\ AccountSession(s)
<1>1. PICK t : t = session[p]
  OBVIOUS
<1>2. AccountSession(t)
  BY <1>1, AccountFacts
<1>3. PICK s : s = [t EXCEPT !.at = point]
  OBVIOUS
<1>4. s.at = point /\ DOMAIN s = DOMAIN t
  BY <1>2, <1>3 DEF AccountSession
<1>5. point = "role" => s.role = t.role
  BY <1>1, <1>2, <1>3 DEF AccountSession, At
<1>6. AccountSession(s)
  BY <1>1, <1>2, <1>4, <1>5 DEF AccountSession, At
<1>7. session' = [session EXCEPT ![p] = s]
  BY <1>1, <1>3 DEF To
<1>8. QED
  BY <1>6, <1>7

(***************************************************************************)
(* Registration, login, password, suspension.                              *)
(***************************************************************************)
Personal == UNCHANGED <<hits, outbox, people>>

LEMMA PersonalRows ==
  ASSUME WorksInv, topic \in AccountTopics \ {"limits", "people"}, UNCHANGED topic, Personal, IdentityRows'
  PROVE  AccountRows' /\ Windows'
<1>1. UNCHANGED outbox /\ UNCHANGED <<device, profile, member, booking>> /\ UNCHANGED <<hits, proposal>>
  BY DEF Personal, people
<1>2. QED
  BY <1>1, OutboxStill, PeopleStill, WindowsStill DEF AccountRows

LEMMA PersonMeans == ASSUME NEW rest, Person(rest) PROVE Personal
BY DEF Person, Personal

LEMMA IdentityFacts ==
  ASSUME WorksInv
  PROVE  /\ account \in [there : BOOLEAN, password : 1..MaxPassword, suspended : BOOLEAN, role : RoleNames, roles : SUBSET RoleNames]
         /\ token \in Seq(Nat) /\ Len(token) \in Nat /\ Len(token) <= MaxTokens /\ \A i \in 1..Len(token) : token[i] \in 1..account.password
         /\ reset \in 0..MaxPassword
BY DEF WorksInv, AccountRows, IdentityRows

\* The password and the tokens: a password only changes for the next one.
LEMMA AccountWritten ==
  ASSUME WorksInv, UNCHANGED <<token, reset>>,
         account' \in [there : BOOLEAN, password : 1..MaxPassword, suspended : BOOLEAN, role : RoleNames, roles : SUBSET RoleNames],
         account.password <= account'.password
  PROVE  IdentityRows'
<1>1. account.password \in Nat /\ account'.password \in Nat
  BY IdentityFacts, AccountBounds
<1>2. 1..account.password \subseteq 1..account'.password
  BY <1>1
<1>3. QED
  BY <1>2, IdentityFacts DEF IdentityRows

LEMMA TokenWritten ==
  ASSUME WorksInv, UNCHANGED <<account, reset>>, NEW w \in 1..account.password,
         \/ Len(token) < MaxTokens /\ token' = Append(token, w)
         \/ token # <<>> /\ token' = Tail(token)
         \/ token' = <<>>
  PROVE  IdentityRows'
<1>1. account.password \in Nat /\ MaxTokens \in Nat
  BY IdentityFacts, AccountBounds
<1>2. token' \in Seq(Nat) /\ Len(token') <= MaxTokens /\ \A i \in 1..Len(token') : token'[i] \in 1..account.password
  <2>1. CASE Len(token) < MaxTokens /\ token' = Append(token, w)
    BY <1>1, <2>1, IdentityFacts
  <2>2. CASE token # <<>> /\ token' = Tail(token)
    BY <1>1, <2>2, IdentityFacts
  <2>3. CASE token' = <<>>
    BY <1>1, <2>3
  <2>4. QED
    BY <2>1, <2>2, <2>3
<1>3. QED
  BY <1>2, IdentityFacts DEF IdentityRows

\* What every step of an account does to the row of the account, its tokens and its code.
IdentityWritten == IdentityRows' /\ account.password <= account'.password

LEMMA IdentityUnwritten == ASSUME WorksInv, UNCHANGED identity PROVE IdentityWritten
<1>1. account' = account /\ account.password \in Nat
  BY IdentityFacts, AccountBounds DEF identity
<1>2. QED
  BY <1>1, IdentityStill DEF IdentityWritten

LEMMA IdentityStep ==
  ASSUME WorksInv, AccountKeeps, topic \notin {"limits", "people"}, Personal, IdentityWritten,
         session' = session \/ \E p \in Clients : \E s : session' = [session EXCEPT ![p] = s] /\ AccountSession(s)
  PROVE  WorksInv'
<1>1. AccountRows' /\ Windows'
  BY PersonalRows DEF AccountKeeps, IdentityWritten
<1>2. account.password <= account'.password
  BY DEF IdentityWritten
<1>3. QED
  BY <1>1, <1>2, AccountStep, AccountStepAlone

LEMMA LogoutStep ==
  ASSUME WorksInv, topic = "identity", UNCHANGED <<phaseVars, recordVars, topic>>, Logout PROVE WorksInv'
<1>1. UNCHANGED <<account, reset>> /\ UNCHANGED <<session, contested, booked>> /\ Personal
  BY DEF Logout, Person, Personal, gatewayVars
<1>2. account.password \in 1..account.password /\ account.password <= account'.password
  BY <1>1, IdentityFacts, AccountBounds
<1>3. IdentityWritten
  BY <1>1, <1>2, TokenWritten DEF Logout, IdentityWritten
<1>4. QED
  BY <1>1, <1>3, IdentityStep DEF AccountKeeps, AccountTopics

\* Requests that read, or begin with a write.
LEMMA IdentityBegins ==
  ASSUME WorksInv, topic = "identity", UNCHANGED <<phaseVars, recordVars, topic>>, NEW p \in Clients,
         \/ Register(p) \/ BeginLogin(p) \/ BeginForgot(p) \/ BeginReset(p) \/ BeginSuspend(p)
         \/ \E role \in RoleNames : AdminUpdateUserRole(p, role)
  PROVE  WorksInv'
<1>1. UNCHANGED <<contested, booked>> /\ Personal
  <2>1. CASE BeginLogin(p) \/ BeginReset(p) \/ BeginSuspend(p)
    BY <2>1 DEF BeginLogin, BeginReset, BeginSuspend, Looks, Personal, accountVars, outbox, people
  <2>2. CASE Register(p) \/ BeginForgot(p) \/ \E role \in RoleNames : AdminUpdateUserRole(p, role)
    BY <2>2 DEF Register, BeginForgot, AdminUpdateUserRole, Person, Personal
  <2>3. QED
    BY <2>1, <2>2
<1>2. account.password \in 1..account.password /\ account.password \in Nat
  BY IdentityFacts, AccountBounds
<1>3. \E s : Serve(p, s) /\ AccountSession(s)
  <2>1. CASE Register(p) \/ BeginLogin(p)
    BY <1>2, <2>1 DEF Register, BeginLogin, Looks, AccountSession
  <2>2. CASE BeginForgot(p) \/ BeginReset(p)
    BY <2>2 DEF BeginForgot, BeginReset, Looks, AccountSession
  <2>3. CASE BeginSuspend(p)
    <3>1. PICK b : b = ~account.suspended
      OBVIOUS
    <3>2. b \in BOOLEAN
      BY <3>1
    <3>3. AccountSession([at |-> "suspend", next |-> b])
      BY <3>2 DEF AccountSession
    <3>4. QED
      BY <2>3, <3>1, <3>3 DEF BeginSuspend, Looks
  <2>4. ASSUME NEW role \in RoleNames, AdminUpdateUserRole(p, role) PROVE \E s : Serve(p, s) /\ AccountSession(s)
    BY <2>4 DEF AdminUpdateUserRole, AccountSession
  <2>5. QED
    BY <2>1, <2>2, <2>3, <2>4
<1>4. IdentityWritten
  <2>1. CASE Register(p)
    <3>1. account' = [account EXCEPT !.there = TRUE] /\ UNCHANGED <<token, reset>>
      BY <2>1 DEF Register, Person
    <3>2. /\ account' \in [there : BOOLEAN, password : 1..MaxPassword, suspended : BOOLEAN, role : RoleNames, roles : SUBSET RoleNames]
          /\ account'.password = account.password
      BY <3>1, IdentityFacts
    <3>3. QED
      BY <1>2, <3>1, <3>2, AccountWritten DEF IdentityWritten
  <2>2. CASE BeginForgot(p)
    <3>1. reset' = 0 /\ UNCHANGED <<account, token>>
      BY <2>2 DEF BeginForgot, Person
    <3>2. QED
      BY <1>2, <3>1, IdentityFacts, AccountBounds DEF IdentityWritten, IdentityRows
  <2>3. CASE BeginLogin(p) \/ BeginReset(p) \/ BeginSuspend(p)
    BY <2>3, IdentityUnwritten DEF BeginLogin, BeginReset, BeginSuspend, Looks, accountVars, identity
  <2>4. ASSUME NEW role \in RoleNames, AdminUpdateUserRole(p, role) PROVE IdentityWritten
    <3>1. account' = [account EXCEPT !.roles = {}] /\ UNCHANGED <<token, reset>>
      BY <2>4 DEF AdminUpdateUserRole, Person
    <3>2. /\ account' \in [there : BOOLEAN, password : 1..MaxPassword, suspended : BOOLEAN, role : RoleNames, roles : SUBSET RoleNames]
          /\ account'.password = account.password
      BY <3>1, IdentityFacts
    <3>3. QED
      BY <1>2, <3>1, <3>2, AccountWritten DEF IdentityWritten
  <2>5. QED
    BY <2>1, <2>2, <2>3, <2>4
<1>5. QED
  BY <1>1, <1>3, <1>4, IdentityStep DEF AccountKeeps, AccountTopics, Serve

LEMMA IdentityWrites ==
  ASSUME WorksInv, topic = "identity", UNCHANGED <<phaseVars, recordVars, topic>>, NEW p \in Clients,
         \/ mintSanctumToken(p) \/ ForgotPassword(p) \/ ResetPassword(p) \/ DropCode(p) \/ RevokeTokens(p)
         \/ AdminSuspendUser(p) \/ GrantRole(p) \/ SetRole(p)
  PROVE  WorksInv'
<1>1. UNCHANGED <<contested, booked>> /\ Personal /\ account.password \in Nat
  BY IdentityFacts, AccountBounds
     DEF mintSanctumToken, ForgotPassword, ResetPassword, DropCode, RevokeTokens, AdminSuspendUser, GrantRole, SetRole,
         Replies, Moves, Person, Personal
<1>2. \/ Done(p) \/ \E point \in {"code", "tokens"} : To(p, point)
      \/ To(p, "role") /\ At(p, "grant")
  BY DEF mintSanctumToken, ForgotPassword, ResetPassword, DropCode, RevokeTokens, AdminSuspendUser, GrantRole, SetRole, Replies, Moves
<1>3. \E s : session' = [session EXCEPT ![p] = s] /\ AccountSession(s)
  <2>1. CASE Done(p)
    <3>1. PICK s : s = Idle
      OBVIOUS
    <3>2. QED
      BY <2>1, <3>1, IdleIsAccount DEF Done
  <2>2. CASE ~Done(p)
    BY <1>2, <2>2, AccountMoves DEF AccountTopics
  <2>3. QED
    BY <2>1, <2>2
<1>4. PICK t : t = session[p]
  OBVIOUS
<1>5. AccountSession(t)
  BY <1>4, AccountFacts DEF AccountTopics
<1>6. IdentityWritten
  <2>1. CASE mintSanctumToken(p)
    <3>1. t.password \in 1..account.password
      BY <1>4, <1>5, <2>1 DEF mintSanctumToken, At, AccountSession
    <3>2. UNCHANGED <<account, reset>> /\ Len(token) < MaxTokens /\ token' = Append(token, t.password)
      BY <1>4, <2>1 DEF mintSanctumToken, Person
    <3>3. QED
      BY <1>1, <3>1, <3>2, TokenWritten DEF IdentityWritten
  <2>2. CASE ForgotPassword(p) \/ DropCode(p)
    <3>1. reset' \in 0..MaxPassword /\ UNCHANGED <<account, token>>
      BY <2>2, IdentityFacts, AccountBounds DEF ForgotPassword, DropCode, Person
    <3>2. QED
      BY <1>1, <3>1, IdentityFacts DEF IdentityWritten, IdentityRows
  <2>3. CASE ResetPassword(p)
    <3>1. account' = [account EXCEPT !.password = @ + 1] /\ account.password < MaxPassword /\ UNCHANGED <<token, reset>>
      BY <2>3 DEF ResetPassword, Person
    <3>2. account.password + 1 \in 1..MaxPassword
      BY <1>1, <3>1, AccountBounds
    <3>3. account' \in [there : BOOLEAN, password : 1..MaxPassword, suspended : BOOLEAN, role : RoleNames, roles : SUBSET RoleNames]
      BY <3>1, <3>2, IdentityFacts
    <3>4. account'.password = account.password + 1
      BY <3>1, IdentityFacts
    <3>5. QED
      BY <1>1, <3>1, <3>3, <3>4, AccountWritten DEF IdentityWritten
  <2>4. CASE RevokeTokens(p)
    <3>1. UNCHANGED <<account, reset>> /\ token' = <<>> /\ account.password \in 1..account.password
      BY <1>1, <2>4, IdentityFacts, AccountBounds DEF RevokeTokens, Person
    <3>2. QED
      BY <1>1, <3>1, TokenWritten DEF IdentityWritten
  <2>5. CASE AdminSuspendUser(p)
    <3>1. t.next \in BOOLEAN
      BY <1>4, <1>5, <2>5 DEF AdminSuspendUser, At, AccountSession
    <3>2. account' = [account EXCEPT !.suspended = t.next] /\ UNCHANGED <<token, reset>>
      BY <1>4, <2>5 DEF AdminSuspendUser, Person
    <3>3. account' \in [there : BOOLEAN, password : 1..MaxPassword, suspended : BOOLEAN, role : RoleNames, roles : SUBSET RoleNames]
      BY <3>1, <3>2, IdentityFacts
    <3>4. account'.password = account.password
      BY <3>2, IdentityFacts
    <3>5. QED
      BY <1>1, <3>2, <3>3, <3>4, AccountWritten DEF IdentityWritten
  <2>6. CASE GrantRole(p)
    <3>1. t.role \in RoleNames
      BY <1>4, <1>5, <2>6 DEF GrantRole, At, AccountSession
    <3>2. account' = [account EXCEPT !.roles = @ \cup {t.role}] /\ UNCHANGED <<token, reset>>
      BY <1>4, <2>6 DEF GrantRole, Person
    <3>3. account' \in [there : BOOLEAN, password : 1..MaxPassword, suspended : BOOLEAN, role : RoleNames, roles : SUBSET RoleNames]
      BY <3>1, <3>2, IdentityFacts
    <3>4. account'.password = account.password
      BY <3>2, IdentityFacts
    <3>5. QED
      BY <1>1, <3>2, <3>3, <3>4, AccountWritten DEF IdentityWritten
  <2>7. CASE SetRole(p)
    <3>1. t.role \in RoleNames
      BY <1>4, <1>5, <2>7 DEF SetRole, At, AccountSession
    <3>2. account' = [account EXCEPT !.role = t.role] /\ UNCHANGED <<token, reset>>
      BY <1>4, <2>7 DEF SetRole, Person
    <3>3. account' \in [there : BOOLEAN, password : 1..MaxPassword, suspended : BOOLEAN, role : RoleNames, roles : SUBSET RoleNames]
      BY <3>1, <3>2, IdentityFacts
    <3>4. account'.password = account.password
      BY <3>2, IdentityFacts
    <3>5. QED
      BY <1>1, <3>2, <3>3, <3>4, AccountWritten DEF IdentityWritten
  <2>8. QED
    BY <2>1, <2>2, <2>3, <2>4, <2>5, <2>6, <2>7
<1>7. QED
  BY <1>1, <1>3, <1>6, IdentityStep DEF AccountKeeps, AccountTopics

LEMMA IdentityNextStep ==
  ASSUME WorksInv, topic = "identity", UNCHANGED <<phaseVars, recordVars, topic>>, IdentityNext PROVE WorksInv'
BY LogoutStep, IdentityBegins, IdentityWrites DEF IdentityNext, RoleNames

(***************************************************************************)
(* The requests past a count.                                              *)
(***************************************************************************)
LEMMA InsideCounts ==
  ASSUME NEW point
  PROVE  Inside(point) \in Nat /\ Cardinality(Clients) \in Nat /\ Inside(point) <= Cardinality(Clients)
<1>1. {p \in Clients : At(p, point)} \subseteq Clients
  OBVIOUS
<1>2. QED
  BY <1>1, FinitelyMany, FS_Subset, FS_CardinalityType DEF Inside

\* Somebody not past the count leaves room for one.
LEMMA InsideRoom ==
  ASSUME NEW point, NEW p \in Clients, ~At(p, point) PROVE Inside(point) + 1 <= Cardinality(Clients)
<1> DEFINE those == {q \in Clients : At(q, point)}
<1>1. those \subseteq Clients \ {p} /\ IsFiniteSet(Clients \ {p})
  BY FinitelyMany, FS_RemoveElement
<1>2. Cardinality(Clients \ {p}) = Cardinality(Clients) - 1
  BY FinitelyMany, FS_RemoveElement
<1>3. Cardinality(those) <= Cardinality(Clients \ {p})
  BY <1>1, FS_Subset
<1>4. QED
  BY <1>2, <1>3, InsideCounts DEF Inside

LEMMA InsideMoves ==
  ASSUME WorksInv, NEW point, NEW p \in Clients, NEW s, session' = [session EXCEPT ![p] = s]
  PROVE  /\ ~At(p, point) /\ s.at = point => Inside(point)' = Inside(point) + 1
         /\ At(p, point) /\ s.at # point => Inside(point)' = Inside(point) - 1
         /\ ~At(p, point) /\ s.at # point => Inside(point)' = Inside(point)
<1> DEFINE those == {q \in Clients : At(q, point)}
           then  == {q \in Clients : session'[q].at = point}
<1>1. Inside(point) = Cardinality(those) /\ Inside(point)' = Cardinality(then)
  BY DEF Inside, At
<1>2. session'[p] = s /\ \A q \in Clients \ {p} : session'[q] = session[q]
  BY DEF WorksInv, Sessions
<1>3. IsFiniteSet(those)
  BY FinitelyMany, FS_Subset
<1>4. CASE ~At(p, point) /\ s.at = point
  <2>1. then = those \cup {p} /\ p \notin those
    BY <1>2, <1>4 DEF At
  <2>2. QED
    BY <1>1, <1>3, <1>4, <2>1, FS_AddElement
<1>5. CASE At(p, point) /\ s.at # point
  <2>1. then = those \ {p} /\ p \in those
    BY <1>2, <1>5 DEF At
  <2>2. QED
    BY <1>1, <1>3, <1>5, <2>1, FS_RemoveElement
<1>6. CASE ~At(p, point) /\ s.at # point
  <2>1. then = those
    BY <1>2, <1>6 DEF At
  <2>2. QED
    BY <1>1, <1>6, <2>1
<1>7. QED
  BY <1>4, <1>5, <1>6

LEMMA InsideStill == ASSUME NEW point, UNCHANGED session PROVE Inside(point)' = Inside(point)
BY DEF Inside, At

(***************************************************************************)
(* The limiter.                                                            *)
(***************************************************************************)
LEMMA LimitRows ==
  ASSUME WorksInv, UNCHANGED <<identity, outbox, people>>
  PROVE  AccountRows' /\ account.password <= account'.password
<1>1. UNCHANGED identity /\ UNCHANGED outbox /\ UNCHANGED <<device, profile, member, booking>> /\ account' = account
  BY DEF people, identity
<1>2. account.password \in Nat
  BY IdentityFacts, AccountBounds
<1>3. QED
  BY <1>1, <1>2, IdentityStill, OutboxStill, PeopleStill DEF AccountRows

LEMMA LimitWindow ==
  ASSUME WorksInv, topic = "limits"
  PROVE  /\ hits \in Nat /\ proposal = 0 /\ hits + Inside("hit") < MaxHits + Cardinality(Clients)
         /\ Inside("hit") \in Nat /\ Cardinality(Clients) \in Nat /\ MaxHits \in Nat
BY InsideCounts, AccountBounds DEF WorksInv, Windows

LEMMA LimitNextStep ==
  ASSUME WorksInv, topic = "limits", UNCHANGED <<phaseVars, recordVars, topic>>, LimitNext PROVE WorksInv'
<1>1. CASE PassTime
  <2>1. UNCHANGED <<session, contested, booked>> /\ UNCHANGED <<identity, outbox, people>> /\ hits' = hits - 1 /\ hits > 0 /\ proposal' = proposal
    BY <1>1 DEF PassTime, gatewayVars, people
  <2>2. Inside("hit")' = Inside("hit")
    BY <2>1, InsideStill
  <2>3. Windows'
    BY <2>1, <2>2, LimitWindow DEF Windows
  <2>4. QED
    BY <2>1, <2>3, LimitRows, AccountStepAlone DEF AccountKeeps, AccountTopics
<1>2. ASSUME NEW p \in Clients, Allow(p) PROVE WorksInv'
  <2>1. PICK s : s = [at |-> "hit"]
    OBVIOUS
  <2>2. s.at = "hit" /\ AccountSession(s)
    BY <2>1 DEF AccountSession
  <2>3. /\ At(p, "idle") /\ session' = [session EXCEPT ![p] = s] /\ hits < MaxHits /\ hits' = hits /\ proposal' = proposal
        /\ UNCHANGED <<contested, booked>>
    BY <1>2, <2>1 DEF Allow, Looks, Serve, accountVars
  <2>4. UNCHANGED <<identity, outbox, people>>
    BY <1>2 DEF Allow, Looks, accountVars, identity, outbox, people
  <2>5. ~At(p, "hit")
    BY <2>3 DEF At
  <2>6. Inside("hit")' = Inside("hit") + 1 /\ Inside("hit") + 1 <= Cardinality(Clients)
    BY <2>2, <2>3, <2>5, InsideMoves, InsideRoom
  <2>7. hits' \in Nat /\ proposal' = 0 /\ hits' + Inside("hit")' < MaxHits + Cardinality(Clients)
    BY <2>3, <2>6, LimitWindow
  <2>8. Windows'
    BY <2>7 DEF Windows
  <2>9. QED
    BY <2>2, <2>3, <2>4, <2>8, LimitRows, AccountStep DEF AccountKeeps, AccountTopics
<1>3. ASSUME NEW p \in Clients, Hit(p) PROVE WorksInv'
  <2>1. PICK s : s = Idle
    OBVIOUS
  <2>2. s.at # "hit" /\ AccountSession(s)
    BY <2>1, IdleIsAccount DEF Idle
  <2>3. At(p, "hit") /\ session' = [session EXCEPT ![p] = s] /\ hits' = hits + 1 /\ UNCHANGED <<contested, booked>>
    BY <1>3, <2>1 DEF Hit, Replies, Done
  <2>4. UNCHANGED <<identity, outbox, people>> /\ proposal' = proposal
    BY <1>3 DEF Hit, people
  <2>5. Inside("hit")' = Inside("hit") - 1
    BY <2>2, <2>3, InsideMoves
  <2>6. hits' \in Nat /\ proposal' = 0 /\ hits' + Inside("hit")' < MaxHits + Cardinality(Clients)
    BY <2>3, <2>4, <2>5, LimitWindow
  <2>7. Windows'
    BY <2>6 DEF Windows
  <2>8. QED
    BY <2>2, <2>3, <2>4, <2>7, LimitRows, AccountStep DEF AccountKeeps, AccountTopics
<1>4. QED
  BY <1>1, <1>2, <1>3 DEF LimitNext

(***************************************************************************)
(* The outbox.                                                             *)
(***************************************************************************)
LEMMA MinIn == ASSUME NEW S \in SUBSET Nat, S # {} PROVE Min(S) \in S /\ \A t \in S : Min(S) <= t
<1>1. PICK s \in S : \A t \in S : <<t, s>> \notin OpToRel(<, Nat)
  BY NatLessThanWellFounded, WFMin
<1>2. ASSUME NEW t \in S PROVE s <= t
  <2>1. ~(t < s)
    BY <1>1 DEF OpToRel
  <2>2. QED
    BY <2>1
<1>3. QED
  BY <1>2 DEF Min

LEMMA OutboxFacts ==
  ASSUME WorksInv
  PROVE  /\ faults \in 0..MaxFaults
         /\ mail \in [Mails -> [queued : BOOLEAN, taken : BOOLEAN, sent : BOOLEAN, error : BOOLEAN]]
         /\ \A m \in Mails : mail[m].sent => mail[m].queued /\ mail[m].taken
         /\ worker \in [Workers -> [at : {"rest", "send", "mark"}, left : SUBSET Mails]]
         /\ \A w \in Workers : Tour(w)
BY DEF WorksInv, AccountRows, OutboxRows

\* A replica that sends or marks has a mail in hand.
LEMMA InHand ==
  ASSUME WorksInv, NEW w \in Workers, worker[w].at # "rest"
  PROVE  MailOf(w) \in worker[w].left /\ MailOf(w) \in Mails /\ mail[MailOf(w)].queued
<1>1. worker[w].left # {} /\ worker[w].left \in SUBSET Mails /\ \A m \in worker[w].left : mail[m].queued
  BY OutboxFacts DEF Tour
<1>2. MailOf(w) \in worker[w].left
  BY <1>1, MailsAreNats, MinIn DEF MailOf
<1>3. QED
  BY <1>1, <1>2

LEMMA OldestIn ==
  ASSUME NEW S \in SUBSET Mails, S # {} PROVE Oldest(S) # {} /\ Oldest(S) \subseteq S
<1>1. Min(S) \in S /\ \A t \in S : Min(S) <= t /\ t \in Nat
  BY MailsAreNats, MinIn
<1>2. {n \in S : n < Min(S)} = {}
  BY <1>1
<1>3. Cardinality({n \in S : n < Min(S)}) = 0
  BY <1>2, FS_EmptySet
<1>4. 0 < Batch
  BY FewAreRefused, FS_CardinalityType
<1>5. Min(S) \in Oldest(S)
  BY <1>1, <1>3, <1>4 DEF Oldest
<1>6. QED
  BY <1>5 DEF Oldest

\* Mails only make progress, and each replica keeps what it has in hand.
MailsGrow == \A m \in Mails : (mail[m].queued => mail'[m].queued) /\ (mail[m].taken => mail'[m].taken)

LEMMA TourKept ==
  ASSUME WorksInv, NEW w \in Workers, worker'[w] = worker[w], MailsGrow PROVE Tour(w)'
<1>1. Tour(w) /\ worker[w].left \in SUBSET Mails
  BY OutboxFacts
<1>2. worker[w].at = "mark" => Min(worker[w].left) \in Mails
  BY InHand DEF MailOf
<1>3. QED
  BY <1>1, <1>2 DEF Tour, MailOf, MailsGrow

LEMMA OutboxWritten ==
  ASSUME WorksInv, topic = "mail", UNCHANGED <<phaseVars, recordVars, topic>>, UNCHANGED <<identity, hits, people, gatewayVars>>,
         NEW w \in Workers, NEW r \in [at : {"rest", "send", "mark"}, left : SUBSET Mails],
         worker' = [worker EXCEPT ![w] = r], (r.at = "rest") = (r.left = {}), \A m \in r.left : mail'[m].queued,
         r.at = "mark" => mail'[Min(r.left)].taken,
         faults' \in 0..MaxFaults, mail' \in [Mails -> [queued : BOOLEAN, taken : BOOLEAN, sent : BOOLEAN, error : BOOLEAN]],
         \A m \in Mails : mail'[m].sent => mail'[m].queued /\ mail'[m].taken, MailsGrow
  PROVE  WorksInv'
<1>1. worker' \in [Workers -> [at : {"rest", "send", "mark"}, left : SUBSET Mails]] /\ worker'[w] = r
  BY OutboxFacts
<1>2. ASSUME NEW v \in Workers PROVE Tour(v)'
  <2>1. CASE v = w
    BY <1>1, <2>1 DEF Tour, MailOf
  <2>2. CASE v # w
    BY <2>2, OutboxFacts, TourKept
  <2>3. QED
    BY <2>1, <2>2
<1>3. OutboxRows'
  BY <1>1, <1>2 DEF OutboxRows
<1>4. /\ UNCHANGED identity /\ UNCHANGED <<device, profile, member, booking>> /\ UNCHANGED <<hits, proposal>>
      /\ UNCHANGED <<session, contested, booked>> /\ account' = account
  BY DEF identity, people, gatewayVars
<1>5. AccountRows' /\ Windows' /\ account.password <= account'.password
  BY <1>3, <1>4, IdentityStill, PeopleStill, WindowsStill, IdentityFacts, AccountBounds DEF AccountRows
<1>6. QED
  BY <1>4, <1>5, AccountStepAlone DEF AccountKeeps, AccountTopics

\* The next mail, or the end of the tick.
LEMMA SkipRow ==
  ASSUME WorksInv, NEW w \in Workers, worker[w].at # "rest", Skip(w)
  PROVE  \E r \in [at : {"rest", "send", "mark"}, left : SUBSET Mails] :
           /\ worker' = [worker EXCEPT ![w] = r]
           /\ (r.at = "rest") = (r.left = {}) /\ r.at # "mark" /\ \A m \in r.left : mail[m].queued /\ m \in Mails
<1> DEFINE left == worker[w].left
           rest == left \ {Min(left)}
<1>1. left \in SUBSET Mails /\ Min(left) \in left /\ \A m \in left : mail[m].queued
  BY InHand, OutboxFacts DEF MailOf, Tour
<1>2. worker' = [worker EXCEPT ![w] = IF Cardinality(left) = 1 THEN Resting ELSE [at |-> "send", left |-> rest]]
  BY DEF Skip
<1>3. Cardinality(left) # 1 => rest # {}
  <2>1. rest = {} => left = {Min(left)}
    BY <1>1
  <2>2. QED
    BY <2>1, FS_Singleton
<1>4. PICK r : r = IF Cardinality(left) = 1 THEN [at |-> "rest", left |-> {}] ELSE [at |-> "send", left |-> rest]
  OBVIOUS
<1>5. worker' = [worker EXCEPT ![w] = r]
  BY <1>2, <1>4 DEF Resting
<1>6. r \in [at : {"rest", "send", "mark"}, left : SUBSET Mails] /\ (r.at = "rest") = (r.left = {}) /\ r.at # "mark"
  BY <1>1, <1>3, <1>4
<1>7. \A m \in r.left : m \in left
  BY <1>4
<1>8. QED
  BY <1>1, <1>5, <1>6, <1>7

\* One mail is written.
LEMMA MailWritten ==
  ASSUME WorksInv, NEW m \in Mails, NEW r \in [queued : BOOLEAN, taken : BOOLEAN, sent : BOOLEAN, error : BOOLEAN], mail' = [mail EXCEPT ![m] = r]
  PROVE  /\ mail' \in [Mails -> [queued : BOOLEAN, taken : BOOLEAN, sent : BOOLEAN, error : BOOLEAN]]
         /\ mail'[m] = r /\ \A n \in Mails : n # m => mail'[n] = mail[n]
BY OutboxFacts

LEMMA EnqueueStep ==
  ASSUME WorksInv, topic = "mail", UNCHANGED <<phaseVars, recordVars, topic>>, NEW m \in Mails, enqueueMail(m) PROVE WorksInv'
<1>1. UNCHANGED <<identity, hits, people, gatewayVars>> /\ UNCHANGED <<worker, faults>> /\ mail' = [mail EXCEPT ![m].queued = TRUE]
  BY DEF enqueueMail, Mailing
<1>2. /\ mail' \in [Mails -> [queued : BOOLEAN, taken : BOOLEAN, sent : BOOLEAN, error : BOOLEAN]]
      /\ \A n \in Mails : mail'[n].taken = mail[n].taken /\ mail'[n].sent = mail[n].sent /\ (mail[n].queued => mail'[n].queued)
  <2>1. PICK r : r = [mail[m] EXCEPT !.queued = TRUE]
    OBVIOUS
  <2>2. mail[m] \in [queued : BOOLEAN, taken : BOOLEAN, sent : BOOLEAN, error : BOOLEAN]
    BY OutboxFacts
  <2>3. r \in [queued : BOOLEAN, taken : BOOLEAN, sent : BOOLEAN, error : BOOLEAN] /\ r.queued /\ r.taken = mail[m].taken /\ r.sent = mail[m].sent
    BY <2>1, <2>2
  <2>4. mail' = [mail EXCEPT ![m] = r]
    BY <1>1, <2>1
  <2>5. QED
    BY <2>3, <2>4, MailWritten
<1>3. \A n \in Mails : mail'[n].sent => mail'[n].queued /\ mail'[n].taken
  BY <1>2, OutboxFacts
<1>4. MailsGrow
  BY <1>2 DEF MailsGrow
<1>5. \A w \in Workers : Tour(w)'
  BY <1>1, <1>4, TourKept
<1>6. OutboxRows'
  BY <1>1, <1>2, <1>3, <1>5, OutboxFacts DEF OutboxRows
<1>7. /\ UNCHANGED identity /\ UNCHANGED <<device, profile, member, booking>> /\ UNCHANGED <<hits, proposal>>
      /\ UNCHANGED <<session, contested, booked>> /\ account' = account
  BY <1>1 DEF identity, people, gatewayVars
<1>8. AccountRows' /\ Windows' /\ account.password <= account'.password
  BY <1>6, <1>7, IdentityStill, PeopleStill, WindowsStill, IdentityFacts, AccountBounds DEF AccountRows
<1>9. QED
  BY <1>7, <1>8, AccountStepAlone DEF AccountKeeps, AccountTopics

LEMMA SendStep ==
  ASSUME WorksInv, topic = "mail", UNCHANGED <<phaseVars, recordVars, topic>>, NEW w \in Workers, SendQueuedMail(w) PROVE WorksInv'
<1>1. UNCHANGED <<identity, hits, people, gatewayVars>> /\ UNCHANGED <<mail, faults>> /\ Unsent # {}
  BY DEF SendQueuedMail, Mailing
<1>2. Oldest(Unsent) # {} /\ Oldest(Unsent) \subseteq Unsent /\ Unsent \in SUBSET Mails
  BY <1>1, OldestIn DEF Unsent
<1>3. \A m \in Oldest(Unsent) : mail'[m].queued
  BY <1>1, <1>2 DEF Unsent
<1>4. PICK r : r = [at |-> "send", left |-> Oldest(Unsent)]
  OBVIOUS
<1>5. /\ r \in [at : {"rest", "send", "mark"}, left : SUBSET Mails] /\ r.at = "send" /\ r.left = Oldest(Unsent)
      /\ worker' = [worker EXCEPT ![w] = r]
  BY <1>2, <1>4 DEF SendQueuedMail
<1>6. MailsGrow
  BY <1>1 DEF MailsGrow
<1>7. QED
  BY <1>1, <1>2, <1>3, <1>5, <1>6, OutboxFacts, OutboxWritten

LEMMA DeliverStep ==
  ASSUME WorksInv, topic = "mail", UNCHANGED <<phaseVars, recordVars, topic>>, NEW w \in Workers, Deliver(w) PROVE WorksInv'
<1>1. UNCHANGED <<identity, hits, people, gatewayVars>> /\ UNCHANGED faults /\ worker[w].at = "send"
  BY DEF Deliver, Mailing
<1>2. PICK m \in Mails : m = MailOf(w) /\ m \in worker[w].left /\ mail[m].queued
  BY <1>1, InHand
<1>3. mail' = [mail EXCEPT ![m].taken = TRUE]
  BY <1>2 DEF Deliver
<1>4. /\ mail' \in [Mails -> [queued : BOOLEAN, taken : BOOLEAN, sent : BOOLEAN, error : BOOLEAN]]
      /\ \A n \in Mails : mail'[n].queued = mail[n].queued /\ mail'[n].sent = mail[n].sent /\ (mail[n].taken => mail'[n].taken)
      /\ mail'[m].taken
  <2>1. PICK r : r = [mail[m] EXCEPT !.taken = TRUE]
    OBVIOUS
  <2>2. mail[m] \in [queued : BOOLEAN, taken : BOOLEAN, sent : BOOLEAN, error : BOOLEAN]
    BY OutboxFacts
  <2>3. r \in [queued : BOOLEAN, taken : BOOLEAN, sent : BOOLEAN, error : BOOLEAN] /\ r.taken /\ r.queued = mail[m].queued /\ r.sent = mail[m].sent
    BY <2>1, <2>2
  <2>4. mail' = [mail EXCEPT ![m] = r]
    BY <1>3, <2>1
  <2>5. QED
    BY <2>3, <2>4, MailWritten
<1>5. (\A n \in Mails : mail'[n].sent => mail'[n].queued /\ mail'[n].taken) /\ MailsGrow
  BY <1>4, OutboxFacts DEF MailsGrow
<1>6. PICK r : r = [worker[w] EXCEPT !.at = "mark"]
  OBVIOUS
<1>7. /\ r \in [at : {"rest", "send", "mark"}, left : SUBSET Mails] /\ r.at = "mark" /\ r.left = worker[w].left
      /\ worker' = [worker EXCEPT ![w] = r]
  BY <1>6, OutboxFacts DEF Deliver
<1>8. (r.at = "rest") = (r.left = {}) /\ \A n \in r.left : n \in Mails /\ mail'[n].queued
  BY <1>1, <1>4, <1>7, OutboxFacts DEF Tour
<1>9. mail'[Min(r.left)].taken
  BY <1>2, <1>4, <1>7 DEF MailOf
<1>10. QED
  BY <1>1, <1>4, <1>5, <1>7, <1>8, <1>9, OutboxFacts, OutboxWritten

\* A mail is marked, or its error noted, and the replica goes on.
LEMMA NotedStep ==
  ASSUME WorksInv, topic = "mail", UNCHANGED <<phaseVars, recordVars, topic>>, NEW w \in Workers,
         MarkSent(w) \/ Refuse(w) \/ FailSending(w)
  PROVE  WorksInv'
<1>1. UNCHANGED <<identity, hits, people, gatewayVars>> /\ Skip(w) /\ worker[w].at # "rest"
  BY OutboxFacts DEF MarkSent, Refuse, FailSending, Mailing
<1>2. faults' \in 0..MaxFaults
  <2>1. CASE FailSending(w)
    BY <2>1, OutboxFacts, AccountBounds DEF FailSending
  <2>2. CASE MarkSent(w) \/ Refuse(w)
    BY <2>2, OutboxFacts DEF MarkSent, Refuse, Mailing
  <2>3. QED
    BY <2>1, <2>2
<1>3. PICK m \in Mails : m = MailOf(w) /\ mail[m].queued
  BY <1>1, InHand
<1>4. /\ mail' \in [Mails -> [queued : BOOLEAN, taken : BOOLEAN, sent : BOOLEAN, error : BOOLEAN]]
      /\ \A n \in Mails : mail'[n].queued = mail[n].queued /\ mail'[n].taken = mail[n].taken
      /\ \A n \in Mails : mail'[n].sent => mail'[n].queued /\ mail'[n].taken
  <2>1. CASE MarkSent(w)
    <3>1. mail' = [mail EXCEPT ![m].sent = TRUE, ![m].error = FALSE] /\ worker[w].at = "mark"
      BY <1>3, <2>1 DEF MarkSent
    <3>2. mail[m].taken
      BY <1>3, <3>1, OutboxFacts DEF Tour
    <3>3. /\ mail' \in [Mails -> [queued : BOOLEAN, taken : BOOLEAN, sent : BOOLEAN, error : BOOLEAN]]
          /\ \A n \in Mails : mail'[n].queued = mail[n].queued /\ mail'[n].taken = mail[n].taken /\ (n # m => mail'[n].sent = mail[n].sent)
      <4>1. PICK r : r = [mail[m] EXCEPT !.sent = TRUE, !.error = FALSE]
        OBVIOUS
      <4>2. mail[m] \in [queued : BOOLEAN, taken : BOOLEAN, sent : BOOLEAN, error : BOOLEAN]
        BY OutboxFacts
      <4>3. r \in [queued : BOOLEAN, taken : BOOLEAN, sent : BOOLEAN, error : BOOLEAN] /\ r.taken = mail[m].taken /\ r.queued = mail[m].queued
        BY <4>1, <4>2
      <4>4. mail' = [mail EXCEPT ![m] = r]
        BY <3>1, <4>1
      <4>5. QED
        BY <4>3, <4>4, MailWritten
    <3>4. QED
      BY <1>3, <3>2, <3>3, OutboxFacts
  <2>2. CASE Refuse(w) \/ FailSending(w)
    <3>1. mail' = [mail EXCEPT ![m].error = TRUE]
      BY <1>3, <2>2 DEF Refuse, FailSending
    <3>2. /\ mail' \in [Mails -> [queued : BOOLEAN, taken : BOOLEAN, sent : BOOLEAN, error : BOOLEAN]]
          /\ \A n \in Mails : mail'[n].queued = mail[n].queued /\ mail'[n].taken = mail[n].taken /\ mail'[n].sent = mail[n].sent
      <4>1. PICK r : r = [mail[m] EXCEPT !.error = TRUE]
        OBVIOUS
      <4>2. mail[m] \in [queued : BOOLEAN, taken : BOOLEAN, sent : BOOLEAN, error : BOOLEAN]
        BY OutboxFacts
      <4>3. r \in [queued : BOOLEAN, taken : BOOLEAN, sent : BOOLEAN, error : BOOLEAN] /\ r.taken = mail[m].taken /\ r.queued = mail[m].queued /\ r.sent = mail[m].sent
        BY <4>1, <4>2
      <4>4. mail' = [mail EXCEPT ![m] = r]
        BY <3>1, <4>1
      <4>5. QED
        BY <4>3, <4>4, MailWritten
    <3>3. QED
      BY <3>2, OutboxFacts
  <2>3. QED
    BY <2>1, <2>2
<1>5. MailsGrow
  BY <1>4 DEF MailsGrow
<1>6. PICK r \in [at : {"rest", "send", "mark"}, left : SUBSET Mails] :
        /\ worker' = [worker EXCEPT ![w] = r]
        /\ (r.at = "rest") = (r.left = {}) /\ r.at # "mark" /\ \A n \in r.left : mail[n].queued /\ n \in Mails
  BY <1>1, SkipRow
<1>7. \A n \in r.left : mail'[n].queued
  BY <1>4, <1>6
<1>8. QED
  BY <1>1, <1>2, <1>4, <1>5, <1>6, <1>7, OutboxWritten

LEMMA CrashStep ==
  ASSUME WorksInv, topic = "mail", UNCHANGED <<phaseVars, recordVars, topic>>, NEW w \in Workers, CrashWorker(w) PROVE WorksInv'
<1>1. UNCHANGED <<identity, hits, people, gatewayVars>> /\ UNCHANGED mail
  BY DEF CrashWorker, Mailing
<1>2. faults' \in 0..MaxFaults /\ MailsGrow
  BY <1>1, OutboxFacts, AccountBounds DEF CrashWorker, MailsGrow
<1>3. PICK r : r = [at |-> "rest", left |-> {}]
  OBVIOUS
<1>4. r \in [at : {"rest", "send", "mark"}, left : SUBSET Mails] /\ r.at = "rest" /\ r.left = {} /\ worker' = [worker EXCEPT ![w] = r]
  BY <1>3 DEF CrashWorker, Resting
<1>5. QED
  BY <1>1, <1>2, <1>4, OutboxFacts, OutboxWritten

LEMMA MailNextStep ==
  ASSUME WorksInv, topic = "mail", UNCHANGED <<phaseVars, recordVars, topic>>, MailNext PROVE WorksInv'
BY EnqueueStep, SendStep, DeliverStep, NotedStep, CrashStep DEF MailNext, WorkerStep

(***************************************************************************)
(* Devices, firms and consultations.                                       *)
(***************************************************************************)
LEMMA PeopleFacts ==
  ASSUME WorksInv
  PROVE  /\ device \in BOOLEAN
         /\ profile \in {"none", "unverified", "pending", "verified", "rejected"}
         /\ member \in [Members -> {"none", "invited", "requested", "active", "removed"}]
         /\ booking \in [Bookings -> {"none", "pending", "confirmed", "cancelled", "completed"}]
BY DEF WorksInv, AccountRows, PeopleRows

\* A step that touches no account: the rows of the people, and a request that holds nothing new.
LEMMA PeopleWritten ==
  ASSUME WorksInv, AccountKeeps, UNCHANGED <<identity, hits, outbox>>, PeopleRows', Windows',
         session' = session \/ \E p \in Clients : \E s : session' = [session EXCEPT ![p] = s] /\ AccountSession(s)
  PROVE  WorksInv'
<1>1. UNCHANGED identity /\ UNCHANGED outbox /\ account' = account
  BY DEF identity
<1>2. AccountRows' /\ account.password <= account'.password
  BY <1>1, IdentityStill, OutboxStill, IdentityFacts, AccountBounds DEF AccountRows
<1>3. QED
  BY <1>2, AccountStep, AccountStepAlone

LEMMA PeopleWindow ==
  ASSUME WorksInv, topic = "people"
  PROVE  /\ hits = 0 /\ proposal \in Nat /\ proposal + Inside("assign") <= Cardinality(Clients)
         /\ Inside("assign") \in Nat /\ Cardinality(Clients) \in Nat
BY InsideCounts DEF WorksInv, Windows

\* The window of proposals, when a request comes or goes.
LEMMA PeopleWindows ==
  ASSUME WorksInv, topic = "people", UNCHANGED topic, UNCHANGED hits, NEW p \in Clients, NEW s, session' = [session EXCEPT ![p] = s],
         \/ proposal' = proposal /\ s.at # "assign"
         \/ proposal' = proposal /\ s.at = "assign" /\ proposal = 0 /\ ~At(p, "assign")
         \/ proposal' = proposal + 1 /\ s.at # "assign" /\ At(p, "assign")
  PROVE  Windows'
<1>0. /\ hits = 0 /\ proposal \in Nat /\ proposal + Inside("assign") <= Cardinality(Clients)
      /\ Inside("assign") \in Nat /\ Cardinality(Clients) \in Nat
  BY PeopleWindow
<1>1. proposal' \in Nat /\ proposal' + Inside("assign")' <= Cardinality(Clients)
  <2>1. CASE proposal' = proposal /\ s.at # "assign"
    <3>1. Inside("assign")' = Inside("assign") \/ Inside("assign")' = Inside("assign") - 1
      BY <2>1, InsideMoves
    <3>2. QED
      BY <1>0, <2>1, <3>1
  <2>2. CASE proposal' = proposal /\ s.at = "assign" /\ proposal = 0 /\ ~At(p, "assign")
    <3>1. Inside("assign")' = Inside("assign") + 1 /\ Inside("assign") + 1 <= Cardinality(Clients)
      BY <2>2, InsideMoves, InsideRoom
    <3>2. QED
      BY <1>0, <2>2, <3>1
  <2>3. CASE proposal' = proposal + 1 /\ s.at # "assign" /\ At(p, "assign")
    <3>1. Inside("assign")' = Inside("assign") - 1
      BY <2>3, InsideMoves
    <3>2. QED
      BY <1>0, <2>3, <3>1
  <2>4. QED
    BY <2>1, <2>2, <2>3
<1>2. QED
  BY <1>0, <1>1 DEF Windows

LEMMA PeopleWindowsStill ==
  ASSUME WorksInv, topic \in {"people", "bookings"}, UNCHANGED <<topic, session, hits, proposal>> PROVE Windows'
BY InsideStill DEF WorksInv, Windows

LEMMA PeopleReads ==
  ASSUME WorksInv, topic \in {"people", "bookings"}, UNCHANGED <<phaseVars, recordVars, topic>>, NEW p \in Clients, NEW s, Looks(p, s),
         AccountSession(s), s.at = "assign" => topic = "people" /\ proposal = 0
  PROVE  WorksInv'
<1>1. /\ session' = [session EXCEPT ![p] = s] /\ ~At(p, "assign") /\ UNCHANGED <<contested, booked>>
      /\ UNCHANGED <<device, profile, member, booking>> /\ UNCHANGED <<hits, proposal>>
  BY DEF Looks, Serve, At, accountVars
<1>2. UNCHANGED <<identity, hits, outbox>>
  BY DEF Looks, accountVars, identity, outbox
<1>3. Windows'
  <2>1. CASE topic = "people"
    BY <1>1, <2>1, PeopleWindows
  <2>2. CASE topic = "bookings"
    BY <1>1, <2>2, WindowsStill
  <2>3. QED
    BY <2>1, <2>2
<1>4. PeopleRows'
  BY <1>1, PeopleStill
<1>5. AccountKeeps
  BY <1>1 DEF AccountKeeps, AccountTopics
<1>6. QED
  BY <1>1, <1>2, <1>3, <1>4, <1>5, PeopleWritten

LEMMA PeopleBegins ==
  ASSUME WorksInv, topic \in {"people", "bookings"}, UNCHANGED <<phaseVars, recordVars, topic>>, NEW p \in Clients,
         \/ BeginSubscribe(p) \/ (topic = "people" /\ BeginQuickAssign(p)) \/ BeginConsult(p)
         \/ \E status \in {"invited", "requested"} : BeginInvite(p, status)
         \/ \E m \in Members : BeginCancel(p, m)
         \/ \E b \in Bookings, status \in {"confirmed", "cancelled", "completed"} : BeginRespond(p, b, status)
  PROVE  WorksInv'
<1>1. \E s : Looks(p, s) /\ AccountSession(s) /\ (s.at = "assign" => topic = "people" /\ proposal = 0)
  <2>1. CASE BeginSubscribe(p)
    BY <2>1 DEF BeginSubscribe, AccountSession
  <2>2. CASE topic = "people" /\ BeginQuickAssign(p)
    BY <2>2 DEF BeginQuickAssign, AccountSession
  <2>3. CASE BeginConsult(p)
    BY <2>3 DEF BeginConsult, AccountSession
  <2>4. ASSUME NEW status \in {"invited", "requested"}, BeginInvite(p, status)
        PROVE  \E s : Looks(p, s) /\ AccountSession(s) /\ (s.at = "assign" => topic = "people" /\ proposal = 0)
    BY <2>4 DEF BeginInvite, AccountSession
  <2>5. ASSUME NEW m \in Members, BeginCancel(p, m)
        PROVE  \E s : Looks(p, s) /\ AccountSession(s) /\ (s.at = "assign" => topic = "people" /\ proposal = 0)
    BY <2>5 DEF BeginCancel, AccountSession
  <2>6. ASSUME NEW b \in Bookings, NEW status \in {"confirmed", "cancelled", "completed"}, BeginRespond(p, b, status)
        PROVE  \E s : Looks(p, s) /\ AccountSession(s) /\ (s.at = "assign" => topic = "people" /\ proposal = 0)
    BY <2>6 DEF BeginRespond, AccountSession
  <2>7. QED
    BY <2>1, <2>2, <2>3, <2>4, <2>5, <2>6
<1>2. QED
  BY <1>1, PeopleReads

\* The last step of a request; a proposal is made in such a step.
LEMMA PeopleDone ==
  ASSUME WorksInv, topic \in {"people", "bookings"}, UNCHANGED <<phaseVars, recordVars, topic>>, NEW p \in Clients, Replies(p),
         UNCHANGED <<identity, hits, outbox>>, PeopleRows',
         proposal' = proposal \/ (topic = "people" /\ proposal' = proposal + 1 /\ At(p, "assign"))
  PROVE  WorksInv'
<1>1. PICK s : s = Idle
  OBVIOUS
<1>2. session' = [session EXCEPT ![p] = s] /\ s.at # "assign" /\ AccountSession(s) /\ UNCHANGED <<contested, booked>>
  BY <1>1, IdleIsAccount DEF Replies, Done, Idle
<1>3. UNCHANGED hits
  OBVIOUS
<1>4. Windows'
  <2>1. CASE topic = "people"
    BY <1>2, <1>3, <2>1, PeopleWindows
  <2>2. CASE topic = "bookings"
    BY <1>3, <2>2, WindowsStill
  <2>3. QED
    BY <2>1, <2>2
<1>5. AccountKeeps
  BY <1>2 DEF AccountKeeps, AccountTopics
<1>6. QED
  BY <1>2, <1>4, <1>5, PeopleWritten

\* A request of one statement.
LEMMA PeopleAlone ==
  ASSUME WorksInv, topic \in {"people", "bookings"}, UNCHANGED <<phaseVars, recordVars, topic>>, UNCHANGED gatewayVars,
         UNCHANGED <<identity, hits, outbox>>, UNCHANGED proposal, PeopleRows'
  PROVE  WorksInv'
<1>1. UNCHANGED <<session, contested, booked>> /\ UNCHANGED hits
  BY DEF gatewayVars
<1>2. Windows'
  BY <1>1, PeopleWindowsStill
<1>3. AccountKeeps
  BY <1>1 DEF AccountKeeps, AccountTopics
<1>4. QED
  BY <1>1, <1>2, <1>3, PeopleWritten

LEMMA MemberWritten ==
  ASSUME WorksInv, NEW m, NEW status \in {"none", "invited", "requested", "active", "removed"}, SetMember(m, status)
  PROVE  PeopleRows' /\ UNCHANGED <<identity, hits, outbox>> /\ UNCHANGED proposal
BY PeopleFacts DEF SetMember, Peoples, PeopleRows

LEMMA BookingWritten ==
  ASSUME WorksInv, NEW b, NEW status \in {"none", "pending", "confirmed", "cancelled", "completed"}, SetBooking(b, status)
  PROVE  PeopleRows' /\ UNCHANGED <<identity, hits, outbox>> /\ UNCHANGED proposal
BY PeopleFacts DEF SetBooking, Peoples, PeopleRows

LEMMA PeopleAnswers ==
  ASSUME WorksInv, topic \in {"people", "bookings"}, UNCHANGED <<phaseVars, recordVars, topic>>, NEW p \in Clients,
         \/ PushSubscribe(p) \/ (topic = "people" /\ QuickAssign(p)) \/ FirmMembersCancel(p) \/ RespondConsultation(p)
         \/ \E m \in Members : FirmMembersInvite(p, m)
         \/ \E b \in Bookings : StoreConsultation(p, b)
  PROVE  WorksInv'
<1>1. PICK t : t = session[p]
  OBVIOUS
<1>2. AccountSession(t)
  BY <1>1, AccountFacts DEF AccountTopics
<1>3. Replies(p)
  BY DEF PushSubscribe, QuickAssign, FirmMembersCancel, RespondConsultation, FirmMembersInvite, StoreConsultation
<1>4. CASE PushSubscribe(p)
  <2>1. device' \in BOOLEAN /\ UNCHANGED <<profile, member, booking>> /\ UNCHANGED proposal /\ UNCHANGED <<identity, hits, outbox>>
    BY <1>4 DEF PushSubscribe, Peoples
  <2>2. PeopleRows'
    BY <2>1, PeopleFacts DEF PeopleRows
  <2>3. QED
    BY <1>3, <2>1, <2>2, PeopleDone
<1>5. CASE topic = "people" /\ QuickAssign(p)
  <2>1. /\ UNCHANGED <<device, profile, member, booking>> /\ UNCHANGED <<identity, hits, outbox>>
        /\ proposal' = proposal + 1 /\ At(p, "assign")
    BY <1>5 DEF QuickAssign, Peoples
  <2>2. PeopleRows'
    BY <2>1, PeopleStill
  <2>3. QED
    BY <1>3, <1>5, <2>1, <2>2, PeopleDone
<1>6. CASE FirmMembersCancel(p) \/ \E m \in Members : FirmMembersInvite(p, m)
  <2>1. \E m, status : SetMember(m, status) /\ status \in {"none", "invited", "requested", "active", "removed"}
    <3>1. CASE FirmMembersCancel(p)
      BY <3>1 DEF FirmMembersCancel
    <3>2. ASSUME NEW m \in Members, FirmMembersInvite(p, m)
          PROVE  \E n, status : SetMember(n, status) /\ status \in {"none", "invited", "requested", "active", "removed"}
      <4>1. t.status \in {"invited", "requested"}
        BY <1>1, <1>2, <3>2 DEF FirmMembersInvite, At, AccountSession
      <4>2. SetMember(m, t.status)
        BY <1>1, <3>2 DEF FirmMembersInvite
      <4>3. QED
        BY <4>1, <4>2
    <3>3. QED
      BY <1>6, <3>1, <3>2
  <2>2. PeopleRows' /\ UNCHANGED <<identity, hits, outbox>> /\ UNCHANGED proposal
    BY <2>1, MemberWritten
  <2>3. QED
    BY <1>3, <2>2, PeopleDone
<1>7. CASE RespondConsultation(p) \/ \E b \in Bookings : StoreConsultation(p, b)
  <2>1. \E b, status : SetBooking(b, status) /\ status \in {"none", "pending", "confirmed", "cancelled", "completed"}
    <3>1. CASE RespondConsultation(p)
      <4>1. t.status \in {"confirmed", "cancelled", "completed"}
        BY <1>1, <1>2, <3>1 DEF RespondConsultation, At, AccountSession
      <4>2. SetBooking(t.id, t.status)
        BY <1>1, <3>1 DEF RespondConsultation
      <4>3. QED
        BY <4>1, <4>2
    <3>2. CASE \E b \in Bookings : StoreConsultation(p, b)
      BY <3>2 DEF StoreConsultation
    <3>3. QED
      BY <1>7, <3>1, <3>2
  <2>2. PeopleRows' /\ UNCHANGED <<identity, hits, outbox>> /\ UNCHANGED proposal
    BY <2>1, BookingWritten
  <2>3. QED
    BY <1>3, <2>2, PeopleDone
<1>8. QED
  BY <1>4, <1>5, <1>6, <1>7

LEMMA PeopleWrites ==
  ASSUME WorksInv, topic \in {"people", "bookings"}, UNCHANGED <<phaseVars, recordVars, topic>>,
         \/ PushUnsubscribe \/ ensureProfile \/ maybeVerify
         \/ \E status \in {"pending", "verified", "rejected"} : AdminUpdateProfessionalStatus(status)
         \/ \E m \in Members, accept \in BOOLEAN : FirmMembersRespond(m, accept)
  PROVE  WorksInv'
<1>1. UNCHANGED gatewayVars /\ UNCHANGED <<identity, hits, outbox>> /\ UNCHANGED proposal /\ PeopleRows'
  <2>1. CASE PushUnsubscribe
    BY <2>1, PeopleFacts DEF PushUnsubscribe, Peoples, PeopleRows
  <2>2. CASE ensureProfile \/ maybeVerify \/ \E status \in {"pending", "verified", "rejected"} : AdminUpdateProfessionalStatus(status)
    <3>1. profile' \in {"none", "unverified", "pending", "verified", "rejected"} /\ UNCHANGED <<device, member, booking>>
      BY <2>2 DEF ensureProfile, maybeVerify, AdminUpdateProfessionalStatus, Peoples
    <3>2. PeopleRows'
      BY <3>1, PeopleFacts DEF PeopleRows
    <3>3. QED
      BY <2>2, <3>2 DEF ensureProfile, maybeVerify, AdminUpdateProfessionalStatus, Peoples
  <2>3. ASSUME NEW m \in Members, NEW accept \in BOOLEAN, FirmMembersRespond(m, accept)
        PROVE  UNCHANGED gatewayVars /\ UNCHANGED <<identity, hits, outbox>> /\ UNCHANGED proposal /\ PeopleRows'
    BY <2>3, MemberWritten DEF FirmMembersRespond
  <2>4. QED
    BY <2>1, <2>2, <2>3
<1>2. QED
  BY <1>1, PeopleAlone

LEMMA PeopleNextStep ==
  ASSUME WorksInv, topic = "people", UNCHANGED <<phaseVars, recordVars, topic>>, PeopleNext PROVE WorksInv'
BY PeopleBegins, PeopleAnswers, PeopleWrites DEF PeopleNext

LEMMA BookingNextStep ==
  ASSUME WorksInv, topic = "bookings", UNCHANGED <<phaseVars, recordVars, topic>>, BookingNext PROVE WorksInv'
BY PeopleBegins, PeopleAnswers, PeopleWrites DEF BookingNext

LEMMA AccountsStep ==
  ASSUME WorksInv, AccountNext, UNCHANGED <<phaseVars, recordVars, topic>> PROVE WorksInv'
BY IdentityNextStep, LimitNextStep, MailNextStep, PeopleNextStep, BookingNextStep DEF AccountNext

(***************************************************************************)
(* The records: topics without files.                                      *)
(***************************************************************************)
RecordKeeps ==
  /\ topic \in RecordTopics /\ UNCHANGED <<phaseVars, accountVars, topic>>
  /\ UNCHANGED <<contested, booked>>

LEMMA RecordApart ==
  ASSUME WorksInv, RecordKeeps, Sessions', RecordRows', IF topic = "files" THEN FilesHeld' ELSE \A r \in Rows : row'[r] = NoRow
  PROVE  WorksInv'
<1>1. topic' = topic /\ topic \notin {"limits", "people"}
  BY DEF RecordKeeps, RecordTopics
<1>2. UNCHANGED <<hits, proposal>>
  BY DEF RecordKeeps, accountVars
<1>3. PhaseRows' /\ AccountRows' /\ Windows'
  BY <1>1, <1>2, PhaseRowsStill, AccountRowsStill, WindowsStill DEF RecordKeeps
<1>4. topic' \in WorkTopics \cup AccountTopics \cup RecordTopics /\ booked' \in [References -> Nat] /\ contested' \in BOOLEAN
  BY <1>1 DEF RecordKeeps, WorksInv
<1>5. QED
  BY <1>1, <1>3, <1>4 DEF WorksInv

LEMMA RecordSessionKept ==
  ASSUME NEW t, RecordSession(t), UNCHANGED <<row, vault>> PROVE RecordSession(t)'
BY InsertedStill DEF RecordSession

LEMMA RecordStep ==
  ASSUME WorksInv, RecordKeeps, topic # "files", UNCHANGED <<row, vault>>, PlanRows', SpaceRows',
         session' = session \/ \E p \in Clients : \E s : session' = [session EXCEPT ![p] = s] /\ RecordSession(s)
  PROVE  WorksInv'
<1>1. topic' = topic /\ topic \in RecordTopics /\ topic \notin WorkTopics /\ topic \notin AccountTopics
  BY DEF RecordKeeps, WorkTopics, AccountTopics, RecordTopics
<1>2. ASSUME NEW q \in Clients PROVE RecordSession(session[q])'
  <2>1. \E t : session'[q] = t /\ RecordSession(t)
    <3>1. CASE session' = session
      BY <1>1, <3>1 DEF WorksInv, Sessions
    <3>2. ASSUME NEW p \in Clients, NEW s, session' = [session EXCEPT ![p] = s], RecordSession(s)
          PROVE  \E t : session'[q] = t /\ RecordSession(t)
      <4>1. session'[q] = IF q = p THEN s ELSE session[q]
        BY <3>2 DEF WorksInv, Sessions
      <4>2. RecordSession(session[q])
        BY <1>1 DEF WorksInv, Sessions
      <4>3. QED
        BY <3>2, <4>1, <4>2
    <3>3. QED
      BY <3>1, <3>2
  <2>2. PICK t : session'[q] = t /\ RecordSession(t)
    BY <2>1
  <2>3. RecordSession(t)'
    BY <2>2, RecordSessionKept
  <2>4. QED
    BY <2>2, <2>3 DEF RecordSession
<1>3. session' = [q \in Clients |-> session'[q]]
  BY DEF WorksInv, Sessions
<1>4. Sessions'
  BY <1>1, <1>2, <1>3 DEF Sessions
<1>5. RecordRows' /\ \A r \in Rows : row'[r] = NoRow
  BY FileRowsStill DEF RecordRows, WorksInv
<1>6. QED
  BY <1>4, <1>5, RecordApart

LEMMA RecordFacts ==
  ASSUME WorksInv, topic \in RecordTopics, NEW p \in Clients
  PROVE  RecordSession(session[p])
BY DEF WorksInv, Sessions

LEMMA IdleIsRecord == RecordSession(Idle)
BY DEF Idle, RecordSession, Holding, Past

(***************************************************************************)
(* The schedule.                                                           *)
(***************************************************************************)
LEMMA PlanFacts ==
  ASSUME WorksInv
  PROVE  /\ schedule \in [Stations -> [there : BOOLEAN, end : Nat, original : Nat, shifted : Nat]]
         /\ delays \in [Stations -> Nat]
         /\ \A ph \in Stations : schedule[ph].shifted <= Lost /\ (~schedule[ph].there => schedule[ph] = NoPhase)
BY DEF WorksInv, RecordRows, PlanRows

LEMMA LostIsInt == ASSUME WorksInv PROVE Lost \in Int
<1>1. Weights(delays, Stations)
  BY PlanFacts, FewRecords DEF Weights
<1>2. QED
  BY <1>1, SumInt, LostIsSum

\* A delay of a phase is lost for good.
LEMMA LostGrows ==
  ASSUME WorksInv, NEW ph \in Stations, NEW days \in Nat, delays' = [delays EXCEPT ![ph] = @ + days]
  PROVE  Lost' = Lost + days
<1>1. PICK w : w = delays
  OBVIOUS
<1>2. PICK v : v = [w EXCEPT ![ph] = @ + days]
  OBVIOUS
<1>3. w \in [Stations -> Nat] /\ IsFiniteSet(Stations)
  BY <1>1, PlanFacts, FewRecords
<1>4. Weights(w, Stations) /\ v[ph] = w[ph] + days /\ v[ph] \in Int /\ w[ph] \in Int /\ \A y \in Stations \ {ph} : v[y] = w[y]
  BY <1>2, <1>3 DEF Weights
<1>5. SumOver(v, Stations) = SumOver(w, Stations) - w[ph] + v[ph]
  BY <1>4, SumUpdate
<1>6. delays' = v /\ Lost = SumOver(w, Stations)
  BY <1>1, <1>2, LostIsSum
<1>7. (Lost = SumOver(delays, Stations))'
  BY LostIsSum, PTL
<1>8. SumOver(w, Stations) \in Int
  BY <1>4, SumInt
<1>9. QED
  BY <1>4, <1>5, <1>6, <1>7, <1>8

LEMMA PlanWritten ==
  ASSUME WorksInv, topic = "schedule", UNCHANGED <<phaseVars, accountVars, topic>>, UNCHANGED <<contested, booked>>,
         UNCHANGED <<row, vault, shelf, workspace>>, PlanRows',
         session' = session \/ \E p \in Clients : \E s : session' = [session EXCEPT ![p] = s] /\ RecordSession(s)
  PROVE  WorksInv'
<1>1. RecordKeeps /\ SpaceRows' /\ UNCHANGED <<row, vault>>
  BY SpaceRowsStill DEF RecordKeeps, RecordTopics
<1>2. QED
  BY <1>1, RecordStep

LEMMA ScheduleReads ==
  ASSUME WorksInv, topic = "schedule", UNCHANGED <<phaseVars, accountVars, topic>>, NEW p \in Clients, SchedulesIndex(p) PROVE WorksInv'
<1>1. \E missing : Opens(p, [at |-> "phases", missing |-> missing])
  BY DEF SchedulesIndex
<1>2. PICK missing : Opens(p, [at |-> "phases", missing |-> missing])
  BY <1>1
<1>3. PICK s : s = [at |-> "phases", missing |-> missing]
  OBVIOUS
<1>4. RecordSession(s) /\ session' = [session EXCEPT ![p] = s] /\ UNCHANGED <<recordVars, contested, booked>>
  BY <1>2, <1>3 DEF Opens, Serve, RecordSession, Holding, Past
<1>5. UNCHANGED <<row, vault, shelf, workspace>> /\ UNCHANGED <<schedule, delays>>
  BY <1>4 DEF recordVars
<1>6. QED
  BY <1>4, <1>5, PlanRowsStill, PlanWritten

LEMMA InsertPhaseStep ==
  ASSUME WorksInv, topic = "schedule", UNCHANGED <<phaseVars, accountVars, topic>>, NEW p \in Clients, InsertPhase(p) PROVE WorksInv'
<1>1. PICK t : t = session[p]
  OBVIOUS
<1>2. PICK ph : ph = Min(t.missing)
  OBVIOUS
<1>3. /\ schedule' = [schedule EXCEPT ![ph].there = TRUE] /\ UNCHANGED <<contested, booked>>
      /\ UNCHANGED <<row, vault, shelf, workspace>> /\ delays' = delays /\ t.at = "phases"
  BY <1>1, <1>2 DEF InsertPhase, Planned, At
<1>4. RecordSession(t)
  BY <1>1, RecordFacts DEF RecordTopics
<1>5. \E s : session' = [session EXCEPT ![p] = s] /\ RecordSession(s)
  <2>1. CASE Done(p)
    <3>1. PICK s : s = Idle
      OBVIOUS
    <3>2. QED
      BY <2>1, <3>1, IdleIsRecord DEF Done
  <2>2. CASE session' = [session EXCEPT ![p].missing = @ \ {ph}]
    <3>1. PICK s : s = [t EXCEPT !.missing = @ \ {ph}]
      OBVIOUS
    <3>2. s.at = "phases" /\ "at" \in DOMAIN s
      BY <1>3, <1>4, <3>1 DEF RecordSession
    <3>3. RecordSession(s)
      BY <3>2 DEF RecordSession, Holding, Past
    <3>4. session' = [session EXCEPT ![p] = s]
      BY <1>1, <2>2, <3>1
    <3>5. QED
      BY <3>3, <3>4
  <2>3. QED
    BY <1>1, <1>2, <2>1, <2>2 DEF InsertPhase
<1>6. PlanRows'
  <2>1. schedule' \in [Stations -> [there : BOOLEAN, end : Nat, original : Nat, shifted : Nat]]
    BY <1>3, PlanFacts
  <2>2. \A n \in Stations : schedule'[n].shifted = schedule[n].shifted /\ (~schedule'[n].there => schedule'[n] = schedule[n] /\ ~schedule[n].there)
    BY <1>3, PlanFacts
  <2>3. Lost' = Lost
    BY <1>3, LostStill
  <2>4. QED
    BY <1>3, <2>1, <2>2, <2>3, PlanFacts DEF PlanRows
<1>7. QED
  BY <1>3, <1>5, <1>6, PlanWritten

LEMMA UpdateScheduleStep ==
  ASSUME WorksInv, topic = "schedule", UNCHANGED <<phaseVars, accountVars, topic>>, NEW ph \in Stations, NEW end \in {0, 1},
         UpdateSchedule(ph, end)
  PROVE  WorksInv'
<1>1. /\ schedule' = [schedule EXCEPT ![ph].end = end] /\ UNCHANGED <<session, contested, booked>> /\ schedule[ph].there
      /\ UNCHANGED <<row, vault, shelf, workspace>> /\ delays' = delays
  BY DEF UpdateSchedule, Planned, gatewayVars
<1>2. schedule' \in [Stations -> [there : BOOLEAN, end : Nat, original : Nat, shifted : Nat]]
  BY <1>1, PlanFacts
<1>3. \A n \in Stations : schedule'[n].shifted = schedule[n].shifted /\ schedule'[n].there = schedule[n].there
                          /\ (~schedule[n].there => schedule'[n] = schedule[n])
  BY <1>1, PlanFacts
<1>4. Lost' = Lost
  BY <1>1, LostStill
<1>5. PlanRows'
  BY <1>1, <1>2, <1>3, <1>4, PlanFacts DEF PlanRows
<1>6. QED
  BY <1>1, <1>5, PlanWritten

LEMMA ShiftTyped ==
  ASSUME NEW phase \in [there : BOOLEAN, end : Nat, original : Nat, shifted : Nat], NEW days \in Nat
  PROVE  /\ Shift(phase, days) \in [there : BOOLEAN, end : Nat, original : Nat, shifted : Nat]
         /\ Shift(phase, days).shifted <= phase.shifted + days
         /\ ~Shift(phase, days).there => ~phase.there /\ Shift(phase, days) = phase
BY DEF Shift

LEMMA LogDelayStep ==
  ASSUME WorksInv, topic = "schedule", UNCHANGED <<phaseVars, accountVars, topic>>, NEW ph \in Stations, LogDelay(ph, 1) PROVE WorksInv'
<1>1. /\ delays' = [delays EXCEPT ![ph] = @ + 1] /\ UNCHANGED <<session, contested, booked>>
      /\ schedule' = [n \in Stations |-> IF n >= ph THEN Shift(schedule[n], 1) ELSE schedule[n]]
      /\ UNCHANGED <<row, vault, shelf, workspace>>
  BY DEF LogDelay, Planned, gatewayVars
<1>2. Lost' = Lost + 1 /\ Lost \in Int
  BY <1>1, LostGrows, LostIsInt
<1>3. ASSUME NEW n \in Stations
      PROVE  /\ schedule'[n] \in [there : BOOLEAN, end : Nat, original : Nat, shifted : Nat]
             /\ schedule'[n].shifted <= schedule[n].shifted + 1
             /\ ~schedule'[n].there => ~schedule[n].there /\ schedule'[n] = schedule[n]
  <2>1. schedule[n] \in [there : BOOLEAN, end : Nat, original : Nat, shifted : Nat]
    BY PlanFacts
  <2>2. CASE n >= ph
    BY <1>1, <2>1, <2>2, ShiftTyped
  <2>3. CASE ~(n >= ph)
    BY <1>1, <2>1, <2>3
  <2>4. QED
    BY <2>2, <2>3
<1>4. \A n \in Stations : schedule'[n].shifted <= Lost'
  <2> SUFFICES ASSUME NEW n \in Stations PROVE schedule'[n].shifted <= Lost'
    OBVIOUS
  <2>1. schedule'[n].shifted \in Nat /\ schedule[n].shifted \in Nat /\ schedule[n].shifted <= Lost /\ schedule'[n].shifted <= schedule[n].shifted + 1
    BY <1>3, PlanFacts
  <2>2. QED
    BY <1>2, <2>1
<1>5. \A n \in Stations : ~schedule'[n].there => schedule'[n] = NoPhase
  BY <1>3, PlanFacts
<1>6. delays' \in [Stations -> Nat]
  BY <1>1, PlanFacts
<1>7. schedule' \in [Stations -> [there : BOOLEAN, end : Nat, original : Nat, shifted : Nat]]
  BY <1>1, <1>3
<1>8. PlanRows'
  BY <1>4, <1>5, <1>6, <1>7 DEF PlanRows
<1>9. QED
  BY <1>1, <1>8, PlanWritten

LEMMA ScheduleNextStep ==
  ASSUME WorksInv, topic = "schedule", UNCHANGED <<phaseVars, accountVars, topic>>, ScheduleNext PROVE WorksInv'
BY ScheduleReads, InsertPhaseStep, UpdateScheduleStep, LogDelayStep DEF ScheduleNext

(***************************************************************************)
(* Rows of a workspace or a listing.                                       *)
(***************************************************************************)
ShelfStates == {"none", "kept", "edited", "inactive"}

LEMMA SpaceFacts ==
  ASSUME WorksInv
  PROVE  /\ shelf \in [Shelves -> ShelfStates]
         /\ DOMAIN workspace = {"link", "links", "board", "favorite", "talk", "folder", "inside"}
         /\ workspace.link \in Nat /\ workspace.links \in Nat /\ workspace.link <= workspace.links
         /\ workspace.inside => workspace.folder
BY DEF WorksInv, RecordRows, SpaceRows, ShelfStates

LEMMA SpaceWritten ==
  ASSUME WorksInv, topic \in {"shelf", "workspace"}, UNCHANGED <<phaseVars, accountVars, topic>>, UNCHANGED <<contested, booked>>,
         UNCHANGED <<row, vault, schedule, delays>>, SpaceRows',
         session' = session \/ \E p \in Clients : \E s : session' = [session EXCEPT ![p] = s] /\ RecordSession(s)
  PROVE  WorksInv'
<1>1. RecordKeeps /\ PlanRows' /\ UNCHANGED <<row, vault>>
  BY PlanRowsStill DEF RecordKeeps, RecordTopics
<1>2. QED
  BY <1>1, RecordStep

\* A row is stored, edited or dropped.
Reshelved == \E k, from, to : to \in ShelfStates /\ Shelved(k, from, to)

LEMMA ShelfMoves == ASSUME WorksInv, ShelfNext PROVE Reshelved \/ DestroyHouse
<1>1. CASE \/ StoreComment \/ UpdateComment \/ DestroyComment \/ StoreStickyNote \/ UpdateStickyNote \/ DestroyStickyNote
           \/ StoreReport \/ UpdateReport \/ StoreDailyLog \/ DestroyDailyLog
  BY <1>1 DEF Reshelved, ShelfStates, StoreComment, UpdateComment, DestroyComment, StoreStickyNote, UpdateStickyNote, DestroyStickyNote,
     StoreReport, UpdateReport, StoreDailyLog, DestroyDailyLog
<1>2. CASE \/ StoreHouse \/ UpdateHouse \/ StoreRoom \/ StoreMaterial \/ UpdateMaterial
           \/ UpdatePreference \/ DestroyPreference \/ StoreTeamMember \/ UpdateTeamMember \/ DestroyTeamMember
  BY <1>2 DEF Reshelved, ShelfStates, StoreHouse, UpdateHouse, StoreRoom, StoreMaterial, UpdateMaterial,
     UpdatePreference, DestroyPreference, StoreTeamMember, UpdateTeamMember, DestroyTeamMember
<1>3. CASE \/ UpdateFirmProfile \/ DestroyReport \/ DestroyMaterial \/ StoreProject \/ ReviewProject
           \/ StoreEngineeringLog \/ DeleteEngineeringLog \/ MerchantProfile \/ MerchantUpdate
  BY <1>3 DEF Reshelved, ShelfStates, UpdateFirmProfile, DestroyReport, DestroyMaterial, StoreProject, ReviewProject,
     StoreEngineeringLog, DeleteEngineeringLog, MerchantProfile, MerchantUpdate
<1>4. CASE \/ AddSandbox \/ ToggleSandbox \/ DeleteSandbox
           \/ StoreSavedSearch \/ DestroySavedSearch \/ StoreOwnerReview \/ DestroyRoom \/ StoreHouseAnswer
           \/ insertNotification \/ MarkNotificationRead \/ MarkAllRead \/ ReplyDispute \/ StoreQuestion \/ AdminSuspendHouse
  BY <1>4 DEF Reshelved, ShelfStates, AddSandbox, ToggleSandbox, DeleteSandbox,
     StoreSavedSearch, DestroySavedSearch, StoreOwnerReview, DestroyRoom, StoreHouseAnswer,
     insertNotification, MarkNotificationRead, MarkAllRead, ReplyDispute, StoreQuestion, AdminSuspendHouse
<1>5. CASE UpdateSandbox
  <2>1. PICK to : to = shelf["sandbox"]
    OBVIOUS
  <2>2. Shelved("sandbox", {"kept", "inactive"}, to)
    BY <1>5, <2>1 DEF UpdateSandbox
  <2>3. to \in ShelfStates
    BY <2>1, <2>2 DEF Shelved, ShelfStates
  <2>4. QED
    BY <2>2, <2>3 DEF Reshelved
<1>6. QED
  BY <1>1, <1>2, <1>3, <1>4, <1>5 DEF ShelfNext

LEMMA ShelfNextStep ==
  ASSUME WorksInv, topic = "shelf", UNCHANGED <<phaseVars, accountVars, topic>>, ShelfNext PROVE WorksInv'
<1>1. /\ shelf' \in [Shelves -> ShelfStates] /\ UNCHANGED <<row, vault, schedule, delays>> /\ workspace' = workspace
      /\ UNCHANGED <<session, contested, booked>>
  <2>1. CASE Reshelved
    <3>1. PICK k, from, to : to \in ShelfStates /\ Shelved(k, from, to)
      BY <2>1 DEF Reshelved
    <3>2. QED
      BY <3>1, SpaceFacts DEF Shelved, gatewayVars
  <2>2. CASE DestroyHouse
    <3>1. shelf' = [shelf EXCEPT !["house"] = "none", !["room"] = "none", !["question"] = "none"]
      BY <2>2 DEF DestroyHouse
    <3>2. "none" \in ShelfStates
      BY DEF ShelfStates
    <3>3. shelf' \in [Shelves -> ShelfStates]
      BY <3>1, <3>2, SpaceFacts
    <3>4. QED
      BY <2>2, <3>3 DEF DestroyHouse, gatewayVars
  <2>3. QED
    BY <2>1, <2>2, ShelfMoves
<1>2. SpaceRows'
  BY <1>1, SpaceFacts DEF SpaceRows, ShelfStates
<1>3. QED
  BY <1>1, <1>2, SpaceWritten

(***************************************************************************)
(* The workspace.                                                          *)
(***************************************************************************)
\* What the row of the workspace becomes.
Spaces(space) ==
  /\ DOMAIN space = DOMAIN workspace
  /\ space.link \in Nat /\ space.links \in Nat /\ space.link <= space.links
  /\ space.inside => space.folder

LEMMA SpaceSet ==
  ASSUME WorksInv, topic = "workspace", UNCHANGED <<phaseVars, accountVars, topic>>, NEW space, Sets(space), Spaces(space),
         UNCHANGED <<contested, booked>>,
         session' = session \/ \E p \in Clients : \E s : session' = [session EXCEPT ![p] = s] /\ RecordSession(s)
  PROVE  WorksInv'
<1>1. workspace' = space /\ UNCHANGED <<row, vault, schedule, delays>> /\ shelf' = shelf
  BY DEF Sets
<1>2. SpaceRows'
  BY <1>1, SpaceFacts DEF SpaceRows, Spaces, ShelfStates
<1>3. QED
  BY <1>1, <1>2, SpaceWritten

LEMMA SpaceReads ==
  ASSUME WorksInv, topic = "workspace", UNCHANGED <<phaseVars, accountVars, topic>>, NEW p \in Clients, NEW word,
         BeginShare(p) \/ BeginToggle(p) \/ BeginBroadcast(p, word)
  PROVE  WorksInv'
<1>1. \E s : Opens(p, s) /\ RecordSession(s)
  BY DEF BeginShare, BeginToggle, BeginBroadcast, RecordSession, Holding, Past
<1>2. PICK s : Opens(p, s) /\ RecordSession(s)
  BY <1>1
<1>3. session' = [session EXCEPT ![p] = s] /\ UNCHANGED <<row, vault, schedule, delays>> /\ UNCHANGED <<shelf, workspace>>
      /\ UNCHANGED <<contested, booked>>
  BY <1>2 DEF Opens, Serve, recordVars
<1>4. QED
  BY <1>2, <1>3, SpaceRowsStill, SpaceWritten

LEMMA SpaceWrites ==
  ASSUME WorksInv, topic = "workspace", UNCHANGED <<phaseVars, accountVars, topic>>,
         \/ RevokeShareToken \/ MergeFavorites \/ DestroyFavorite \/ StoreConversation \/ SendMessage \/ ShowConversation
         \/ StoreFolder \/ MoveIntoFolder
  PROVE  WorksInv'
<1>1. UNCHANGED <<session, contested, booked>>
  BY DEF RevokeShareToken, MergeFavorites, DestroyFavorite, StoreConversation, SendMessage, ShowConversation,
         StoreFolder, MoveIntoFolder, gatewayVars
<1>2. \E space : Sets(space) /\ Spaces(space)
  <2>1. CASE RevokeShareToken
    <3>1. Spaces([workspace EXCEPT !.link = 0])
      BY SpaceFacts DEF Spaces
    <3>2. QED
      BY <2>1, <3>1 DEF RevokeShareToken
  <2>2. CASE MergeFavorites \/ DestroyFavorite
    <3>1. Spaces([workspace EXCEPT !.favorite = TRUE]) /\ Spaces([workspace EXCEPT !.favorite = FALSE])
      BY SpaceFacts DEF Spaces
    <3>2. QED
      BY <2>2, <3>1 DEF MergeFavorites, DestroyFavorite
  <2>3. CASE StoreConversation \/ SendMessage \/ ShowConversation
    <3>1. \A to : Spaces([workspace EXCEPT !.talk = to])
      BY SpaceFacts DEF Spaces
    <3>2. \E to : Sets([workspace EXCEPT !.talk = to])
      BY <2>3 DEF StoreConversation, SendMessage, ShowConversation
    <3>3. QED
      BY <3>1, <3>2
  <2>4. CASE StoreFolder
    <3>1. Spaces([workspace EXCEPT !.folder = TRUE])
      BY SpaceFacts DEF Spaces
    <3>2. QED
      BY <2>4, <3>1 DEF StoreFolder
  <2>5. CASE MoveIntoFolder
    <3>1. Spaces([workspace EXCEPT !.inside = TRUE])
      BY <2>5, SpaceFacts DEF Spaces, MoveIntoFolder
    <3>2. QED
      BY <2>5, <3>1 DEF MoveIntoFolder
  <2>6. QED
    BY <2>1, <2>2, <2>3, <2>4, <2>5
<1>3. QED
  BY <1>1, <1>2, SpaceSet

LEMMA SpaceAnswers ==
  ASSUME WorksInv, topic = "workspace", UNCHANGED <<phaseVars, accountVars, topic>>, NEW p \in Clients,
         GenerateShareToken(p) \/ BroadcastPhase(p) \/ ToggleFavorite(p) \/ BeginEmptyFolder(p) \/ DestroyFolder(p)
  PROVE  WorksInv'
<1>1. UNCHANGED <<contested, booked>>
  BY DEF GenerateShareToken, BroadcastPhase, ToggleFavorite, BeginEmptyFolder, DestroyFolder, Closes
<1>2. \E s : session' = [session EXCEPT ![p] = s] /\ RecordSession(s)
  <2>1. CASE BeginEmptyFolder(p)
    <3>1. PICK s : s = [at |-> "folder"]
      OBVIOUS
    <3>2. RecordSession(s) /\ session' = [session EXCEPT ![p] = s]
      BY <2>1, <3>1 DEF BeginEmptyFolder, Serve, RecordSession, Holding, Past
    <3>3. QED
      BY <3>2
  <2>2. CASE ~BeginEmptyFolder(p)
    <3>1. PICK s : s = Idle
      OBVIOUS
    <3>2. RecordSession(s) /\ session' = [session EXCEPT ![p] = s]
      BY <2>2, <3>1, IdleIsRecord DEF GenerateShareToken, BroadcastPhase, ToggleFavorite, DestroyFolder, Closes, Done
    <3>3. QED
      BY <3>2
  <2>3. QED
    BY <2>1, <2>2
<1>3. \E space : Sets(space) /\ Spaces(space)
  <2>1. CASE GenerateShareToken(p)
    <3>1. Spaces([workspace EXCEPT !.link = workspace.links + 1, !.links = @ + 1])
      BY SpaceFacts DEF Spaces
    <3>2. QED
      BY <2>1, <3>1 DEF GenerateShareToken
  <2>2. CASE BroadcastPhase(p)
    <3>1. \A to : Spaces([workspace EXCEPT !.board = to])
      BY SpaceFacts DEF Spaces
    <3>2. QED
      BY <2>2, <3>1 DEF BroadcastPhase
  <2>3. CASE ToggleFavorite(p)
    <3>1. \A to : Spaces([workspace EXCEPT !.favorite = to])
      BY SpaceFacts DEF Spaces
    <3>2. \E to : Sets([workspace EXCEPT !.favorite = to])
      BY <2>3 DEF ToggleFavorite
    <3>3. QED
      BY <3>1, <3>2
  <2>4. CASE BeginEmptyFolder(p)
    <3>1. Spaces([workspace EXCEPT !.inside = FALSE])
      BY SpaceFacts DEF Spaces
    <3>2. QED
      BY <2>4, <3>1 DEF BeginEmptyFolder
  <2>5. CASE DestroyFolder(p)
    <3>1. Spaces([workspace EXCEPT !.folder = FALSE, !.inside = FALSE])
      BY SpaceFacts DEF Spaces
    <3>2. QED
      BY <2>5, <3>1 DEF DestroyFolder
  <2>6. QED
    BY <2>1, <2>2, <2>3, <2>4, <2>5
<1>4. QED
  BY <1>1, <1>2, <1>3, SpaceSet

LEMMA WorkspaceNextStep ==
  ASSUME WorksInv, topic = "workspace", UNCHANGED <<phaseVars, accountVars, topic>>, WorkspaceNext PROVE WorksInv'
BY SpaceReads, SpaceWrites, SpaceAnswers DEF WorkspaceNext

(***************************************************************************)
(* Rows with a file.                                                       *)
(***************************************************************************)
LEMMA FileFacts ==
  ASSUME WorksInv, topic = "files"
  PROVE  FilesHeld /\ FileRows /\ PlanRows /\ SpaceRows /\ session = [p \in Clients |-> session[p]]
BY DEF WorksInv, Sessions, RecordRows

LEMMA InsertedCounts == Inserted \in Nat /\ Cardinality(Rows) \in Nat /\ Inserted <= Cardinality(Rows) /\ IsFiniteSet(Rows)
<1>1. IsFiniteSet(Rows)
  BY FewRecords, FS_Union DEF Rows
<1>2. {r \in Rows : row[r] # NoRow} \subseteq Rows
  OBVIOUS
<1>3. QED
  BY <1>1, <1>2, FS_Subset, FS_CardinalityType DEF Inserted

\* A row once inserted stays counted, deleted or not.
LEMMA InsertedGrows ==
  ASSUME \A r \in Rows : row[r] # NoRow => row'[r] # NoRow
  PROVE  Inserted' \in Nat /\ Inserted <= Inserted'
<1> DEFINE those == {r \in Rows : row[r] # NoRow}
           then  == {r \in Rows : row'[r] # NoRow}
<1>1. those \subseteq then /\ then \subseteq Rows /\ IsFiniteSet(Rows)
  BY InsertedCounts
<1>2. IsFiniteSet(then) /\ Cardinality(then) \in Nat /\ Cardinality(those) <= Cardinality(then)
  BY <1>1, FS_Subset, FS_CardinalityType
<1>3. Inserted = Cardinality(those) /\ Inserted' = Cardinality(then)
  BY DEF Inserted, NoRow, Rows
<1>4. QED
  BY <1>2, <1>3

LEMMA InsertedOneMore ==
  ASSUME NEW r \in Rows, row[r] = NoRow, row'[r] # NoRow, \A q \in Rows \ {r} : row'[q] = row[q]
  PROVE  Inserted' = Inserted + 1
<1> DEFINE those == {q \in Rows : row[q] # NoRow}
           then  == {q \in Rows : row'[q] # NoRow}
<1>1. then = those \cup {r} /\ r \notin those
  OBVIOUS
<1>2. IsFiniteSet(those)
  BY InsertedCounts, FS_Subset
<1>3. Cardinality(then) = Cardinality(those) + 1
  BY <1>1, <1>2, FS_AddElement
<1>4. Inserted = Cardinality(those) /\ Inserted' = Cardinality(then)
  BY DEF Inserted, NoRow, Rows
<1>5. QED
  BY <1>3, <1>4

LEMMA MaxIn == ASSUME NEW S \in SUBSET Nat, NEW b \in Nat, S # {}, \A t \in S : t <= b PROVE Max(S) \in S
<1> DEFINE above == {n \in Nat : \A t \in S : t <= n}
<1>1. b \in above /\ above \in SUBSET Nat
  OBVIOUS
<1>2. PICK m : m = Min(above)
  OBVIOUS
<1>3. m \in above /\ \A n \in above : m <= n
  BY <1>1, <1>2, MinIn
<1>4. m \in S
  <2>1. SUFFICES ASSUME m \notin S PROVE FALSE
    OBVIOUS
  <2>2. \A t \in S : t <= m - 1
    BY <1>3, <2>1
  <2>3. PICK t \in S : TRUE
    OBVIOUS
  <2>4. m - 1 \in above
    BY <1>3, <2>2, <2>3
  <2>5. QED
    BY <1>3, <2>4
<1>5. \A t \in S : m >= t
  BY <1>3
<1>6. QED
  BY <1>4, <1>5 DEF Max

LEMMA VersionBounded ==
  ASSUME WorksInv, topic = "files", Documents # {} PROVE Version \in 0..Inserted
<1> DEFINE S == {row[d].version : d \in Documents}
<1>1. \A d \in Documents : row[d].version \in 0..Inserted
  BY FileFacts DEF FileRows, RowType, Rows
<1>2. S \in SUBSET Nat /\ S # {} /\ \A t \in S : t <= Inserted
  BY <1>1, InsertedCounts
<1>3. Max(S) \in S
  BY <1>2, InsertedCounts, MaxIn
<1>4. QED
  BY <1>1, <1>3 DEF Version

LEMMA RecordSessionGrows ==
  ASSUME NEW t, RecordSession(t), Inserted' \in Nat, Inserted <= Inserted'
  PROVE  RecordSession(t)'
BY InsertedCounts DEF RecordSession

\* What a step of the vault leaves alone.
FileStill == /\ topic = "files" /\ UNCHANGED <<phaseVars, accountVars, topic>> /\ UNCHANGED <<contested, booked>>
             /\ UNCHANGED <<schedule, delays, shelf, workspace>>

LEMMA FilesStep ==
  ASSUME WorksInv, FileStill, NEW p \in Clients, NEW s, session' = [session EXCEPT ![p] = s], RecordSession(s)',
         Inserted' \in Nat, Inserted <= Inserted', FileRows', FilesHeld'
  PROVE  WorksInv'
<1>1. topic' = topic /\ topic = "files" /\ topic \in RecordTopics /\ topic \notin WorkTopics /\ topic \notin AccountTopics
  BY DEF FileStill, WorkTopics, AccountTopics, RecordTopics
<1>2. session' = [q \in Clients |-> session'[q]] /\ session'[p] = s /\ \A q \in Clients \ {p} : session'[q] = session[q]
  BY <1>1, FileFacts
<1>3. RecordSession(session[p])'
  BY <1>2 DEF RecordSession
<1>4. ASSUME NEW q \in Clients \ {p} PROVE RecordSession(session[q])'
  <2>1. PICK t : t = session[q]
    OBVIOUS
  <2>2. RecordSession(t)'
    BY <1>1, <2>1, RecordFacts, RecordSessionGrows
  <2>3. QED
    BY <1>2, <2>1, <2>2 DEF RecordSession
<1>5. Sessions'
  BY <1>1, <1>2, <1>3, <1>4 DEF Sessions
<1>6. RecordKeeps
  BY <1>1 DEF FileStill, RecordKeeps
<1>7. RecordRows'
  BY PlanRowsStill, SpaceRowsStill DEF RecordRows, FileStill
<1>8. QED
  BY <1>1, <1>5, <1>6, <1>7, RecordApart

\* Who holds a file after a step of one request held it before, or it is the
\* row that was written or the request itself.
LEMMA HeldBefore ==
  ASSUME WorksInv, topic = "files", NEW p \in Clients, NEW s, session' = [session EXCEPT ![p] = s], NEW i, NEW f, Holds(i, f)'
  PROVE  \/ Live(i)' /\ row'[i].file = f
         \/ s.at \in Holding /\ s.id = i /\ s.file = f
         \/ Holds(i, f)
<1>1. session'[p] = s /\ \A q \in Clients : q # p => session'[q] = session[q]
  BY FileFacts
<1>2. QED
  BY <1>1 DEF Holds

\* No file comes into new hands.
LEMMA HeldStill ==
  ASSUME WorksInv, topic = "files", vault.stored \subseteq vault'.stored, \A i \in Rows, f \in Paths : Holds(i, f)' => Holds(i, f)
  PROVE  FilesHeld'
<1>1. FilesHeld
  BY FileFacts
<1>2. HeldStored'
  BY <1>1 DEF FilesHeld, HeldStored
<1>3. HeldOnce'
  BY <1>1 DEF FilesHeld, HeldOnce
<1>4. QED
  BY <1>2, <1>3 DEF FilesHeld

\* One new file comes into the hands of one row.
LEMMA HeldMore ==
  ASSUME WorksInv, topic = "files", vault.stored \subseteq vault'.stored, NEW n \in Rows, NEW new, new \notin vault.stored, new \in vault'.stored,
         \A i \in Rows, f \in Paths : Holds(i, f)' => Holds(i, f) \/ (i = n /\ f = new)
  PROVE  FilesHeld'
<1>1. FilesHeld
  BY FileFacts
<1>2. HeldStored'
  BY <1>1 DEF FilesHeld, HeldStored
<1>3. HeldOnce'
  <2>1. SUFFICES ASSUME NEW i \in Rows, NEW j \in Rows, NEW f \in Paths, Holds(i, f)', Holds(j, f)' PROVE i = j
    BY DEF HeldOnce
  <2>2. CASE f = new
    BY <1>1, <2>1, <2>2 DEF FilesHeld, HeldStored
  <2>3. CASE f # new
    BY <1>1, <2>1, <2>3 DEF FilesHeld, HeldOnce
  <2>4. QED
    BY <2>2, <2>3
<1>4. QED
  BY <1>2, <1>3 DEF FilesHeld

LEMMA VaultWritten ==
  ASSUME WorksInv, topic = "files", UNCHANGED row, vault' \in [stored : SUBSET Files, there : SUBSET Files], vault'.there \subseteq vault'.stored
  PROVE  FileRows' /\ Inserted' = Inserted /\ Inserted' \in Nat /\ Inserted <= Inserted'
BY FileFacts, InsertedStill, InsertedCounts DEF FileRows, RowType

\* A request reads, and takes the path of its own row in hand.
LEMMA FileReads ==
  ASSUME WorksInv, FileStill, UNCHANGED <<row, vault>>, NEW p \in Clients, NEW s, session' = [session EXCEPT ![p] = s],
         RecordSession(s), s.at \in Holding => Live(s.id) /\ s.file = row[s.id].file
  PROVE  WorksInv'
<1>1. topic = "files"
  BY DEF FileStill
<1>2. RecordSession(s)'
  BY RecordSessionKept
<1>3. FileRows' /\ Inserted' \in Nat /\ Inserted <= Inserted'
  BY FileRowsStill, InsertedStill, InsertedCounts
<1>4. FilesHeld'
  <2>1. ASSUME NEW i \in Rows, NEW f \in Paths, Holds(i, f)' PROVE Holds(i, f)
    <3>1. \/ Live(i)' /\ row'[i].file = f
          \/ s.at \in Holding /\ s.id = i /\ s.file = f
          \/ Holds(i, f)
      BY <1>1, <2>1, HeldBefore
    <3>2. QED
      BY <3>1 DEF Holds, Live
  <2>2. QED
    BY <1>1, <2>1, HeldStill
<1>5. QED
  BY <1>2, <1>3, <1>4, FilesStep

LEMMA FileBegins ==
  ASSUME WorksInv, topic = "files", UNCHANGED <<phaseVars, accountVars, topic>>, NEW p \in Clients,
         \/ \E d \in Documents : BeginVerifyDocument(p, d)
         \/ \E r \in Rows : BeginDestroy(p, r)
         \/ \E r \in Pictures : BeginReplace(p, r) \/ BeginEditPicture(p, r)
  PROVE  WorksInv'
<1>1. \E s : Opens(p, s) /\ RecordSession(s) /\ (s.at \in Holding => Live(s.id) /\ s.file = row[s.id].file)
  <2>1. ASSUME NEW d \in Documents, BeginVerifyDocument(p, d)
        PROVE  \E s : Opens(p, s) /\ RecordSession(s) /\ (s.at \in Holding => Live(s.id) /\ s.file = row[s.id].file)
    <3>1. PICK s : s = [at |-> "verify", id |-> d]
      OBVIOUS
    <3>2. Opens(p, s)
      BY <2>1, <3>1 DEF BeginVerifyDocument
    <3>3. RecordSession(s) /\ s.at \notin Holding
      BY <3>1 DEF RecordSession, Holding, Past
    <3>4. QED
      BY <3>2, <3>3
  <2>2. ASSUME NEW r \in Rows, NEW point \in {"remove", "old", "update"}, Live(r), Opens(p, [at |-> point, id |-> r, file |-> row[r].file])
        PROVE  \E s : Opens(p, s) /\ RecordSession(s) /\ (s.at \in Holding => Live(s.id) /\ s.file = row[s.id].file)
    <3>1. PICK s : s = [at |-> point, id |-> r, file |-> row[r].file]
      OBVIOUS
    <3>2. Opens(p, s)
      BY <2>2, <3>1
    <3>3. row[r].file \in Paths
      BY FileFacts DEF FileRows, RowType, Paths
    <3>4. RecordSession(s)
      BY <3>1, <3>3 DEF RecordSession, Holding, Past
    <3>5. Live(s.id) /\ s.file = row[s.id].file
      BY <2>2, <3>1
    <3>6. QED
      BY <3>2, <3>4, <3>5
  <2>3. Pictures \subseteq Rows
    BY DEF Rows
  <2>4. QED
    BY <2>1, <2>2, <2>3 DEF BeginDestroy, BeginReplace, BeginEditPicture
<1>2. PICK s : Opens(p, s) /\ RecordSession(s) /\ (s.at \in Holding => Live(s.id) /\ s.file = row[s.id].file)
  BY <1>1
<1>3. /\ session' = [session EXCEPT ![p] = s] /\ UNCHANGED <<row, vault>>
      /\ UNCHANGED <<contested, booked>> /\ UNCHANGED <<schedule, delays, shelf, workspace>>
  BY <1>2 DEF Opens, Serve, recordVars
<1>4. FileStill
  BY <1>3 DEF FileStill
<1>5. QED
  BY <1>2, <1>3, <1>4, FileReads

\* A file nobody has seen is stored for a row.
LEMMA FileStores ==
  ASSUME WorksInv, FileStill, NEW p \in Clients, NEW s, session' = [session EXCEPT ![p] = s], UNCHANGED row,
         NEW f \in Files, storeVaultFile(f), RecordSession(s), s.at \in Holding, s.file = f
  PROVE  WorksInv'
<1>1. f \notin vault.stored /\ vault' = [stored |-> vault.stored \cup {f}, there |-> vault.there \cup {f}] /\ topic = "files"
  BY DEF storeVaultFile, FileStill
<1>2. vault' \in [stored : SUBSET Files, there : SUBSET Files] /\ vault'.there \subseteq vault'.stored
  BY <1>1, FileFacts DEF FileRows
<1>3. FileRows' /\ Inserted' = Inserted /\ Inserted' \in Nat /\ Inserted <= Inserted'
  BY <1>1, <1>2, VaultWritten
<1>4. vault.stored \subseteq vault'.stored /\ f \in vault'.stored /\ s.id \in Rows
  BY <1>1 DEF RecordSession
<1>5. FilesHeld'
  <2>1. ASSUME NEW i \in Rows, NEW g \in Paths, Holds(i, g)' PROVE Holds(i, g) \/ (i = s.id /\ g = f)
    <3>1. \/ Live(i)' /\ row'[i].file = g
          \/ s.at \in Holding /\ s.id = i /\ s.file = g
          \/ Holds(i, g)
      BY <1>1, <2>1, HeldBefore
    <3>2. QED
      BY <3>1 DEF Holds, Live
  <2>2. QED
    BY <1>1, <1>4, <2>1, HeldMore
<1>6. RecordSession(s)'
  BY <1>3, RecordSessionGrows
<1>7. QED
  BY <1>3, <1>5, <1>6, FilesStep

LEMMA FileBrings ==
  ASSUME WorksInv, topic = "files", UNCHANGED <<phaseVars, accountVars, topic>>, NEW p \in Clients, NEW f \in Files,
         \/ \E d \in Documents : BeginStoreDocument(p, d, f)
         \/ \E r \in Pictures : BeginStorePicture(p, r, f)
         \/ StoreNew(p, f)
  PROVE  WorksInv'
<1>1. /\ UNCHANGED <<contested, booked>> /\ UNCHANGED <<schedule, delays, shelf, workspace>> /\ row' = row /\ storeVaultFile(f)
  BY DEF BeginStoreDocument, BeginStorePicture, StoreNew, Kept
<1>2. FileStill /\ f \in Paths
  BY <1>1 DEF FileStill, Paths
<1>3. ASSUME NEW r \in Rows, NEW v \in 0..Inserted + 1, NEW status \in {"uploaded", "shown"},
             Serve(p, [at |-> "insert", id |-> r, file |-> f, version |-> v, status |-> status])
      PROVE  WorksInv'
  <2>1. PICK s : s = [at |-> "insert", id |-> r, file |-> f, version |-> v, status |-> status]
    OBVIOUS
  <2>2. session' = [session EXCEPT ![p] = s]
    BY <1>3, <2>1 DEF Serve
  <2>3. RecordSession(s) /\ s.at \in Holding /\ s.file = f
    BY <1>2, <2>1 DEF RecordSession, Holding
  <2>4. QED
    BY <1>1, <1>2, <2>2, <2>3, FileStores
<1>4. CASE \E d \in Documents : BeginStoreDocument(p, d, f)
  <2>1. PICK d \in Documents : BeginStoreDocument(p, d, f)
    BY <1>4
  <2>2. PICK v : v = Version + 1
    OBVIOUS
  <2>3. v \in 0..Inserted + 1
    BY <2>2, VersionBounded, InsertedCounts
  <2>4. Serve(p, [at |-> "insert", id |-> d, file |-> f, version |-> v, status |-> "uploaded"]) /\ d \in Rows
    BY <2>1, <2>2 DEF BeginStoreDocument, Rows
  <2>5. QED
    BY <1>3, <2>3, <2>4
<1>5. CASE \E r \in Pictures : BeginStorePicture(p, r, f)
  <2>1. PICK r \in Pictures : BeginStorePicture(p, r, f)
    BY <1>5
  <2>2. Serve(p, [at |-> "insert", id |-> r, file |-> f, version |-> 1, status |-> "shown"]) /\ r \in Rows
    BY <2>1 DEF BeginStorePicture, Rows
  <2>3. 1 \in 0..Inserted + 1
    BY InsertedCounts
  <2>4. QED
    BY <1>3, <2>2, <2>3
<1>6. CASE StoreNew(p, f)
  <2>1. PICK s : s = [at |-> "update", id |-> session[p].id, file |-> f]
    OBVIOUS
  <2>2. session' = [session EXCEPT ![p] = s] /\ session[p].at = "new"
    BY <1>6, <2>1 DEF StoreNew, At
  <2>3. session[p].id \in Rows
    BY <2>2, RecordFacts DEF RecordSession, RecordTopics, Past
  <2>4. RecordSession(s) /\ s.at \in Holding /\ s.file = f
    BY <1>2, <2>1, <2>3 DEF RecordSession, Holding
  <2>5. QED
    BY <1>1, <1>2, <2>2, <2>4, FileStores
<1>7. QED
  BY <1>4, <1>5, <1>6

\* The file goes before its row.
LEMMA FileRemoves ==
  ASSUME WorksInv, topic = "files", UNCHANGED <<phaseVars, accountVars, topic>>, NEW p \in Clients, DestroyFile(p) \/ RemoveOld(p)
  PROVE  WorksInv'
<1>1. /\ UNCHANGED <<contested, booked>> /\ UNCHANGED <<schedule, delays, shelf, workspace>> /\ row' = row
      /\ removeVaultFile(session[p].file) /\ session[p].at \in Holding
  BY DEF DestroyFile, RemoveOld, Kept, Steps, At, Holding
<1>2. FileStill
  BY <1>1 DEF FileStill
<1>3. PICK point : point \in {"delete", "new"} /\ To(p, point)
  BY DEF DestroyFile, RemoveOld, Steps
<1>4. PICK t : t = session[p]
  OBVIOUS
<1>5. RecordSession(t)
  BY <1>4, RecordFacts DEF RecordTopics
<1>6. PICK s : s = [t EXCEPT !.at = point]
  OBVIOUS
<1>7. s.at = point /\ DOMAIN s = DOMAIN t /\ s.id = t.id /\ {"at", "id", "file"} \subseteq DOMAIN t /\ t.id \in Rows
  BY <1>1, <1>4, <1>5, <1>6 DEF RecordSession
<1>8. session' = [session EXCEPT ![p] = s]
  BY <1>3, <1>4, <1>6 DEF To
<1>9. s.at \notin Holding /\ s.at # "insert"
  BY <1>3, <1>7 DEF Holding
<1>10. vault'.stored = vault.stored /\ vault'.there \subseteq vault.there /\ vault' \in [stored : SUBSET Files, there : SUBSET Files]
  BY <1>1, FileFacts DEF FileRows, removeVaultFile
<1>11. FileRows' /\ Inserted' \in Nat /\ Inserted <= Inserted'
  BY <1>1, <1>10, FileFacts, VaultWritten DEF FileRows
<1>12. FilesHeld'
  <2>1. ASSUME NEW i \in Rows, NEW f \in Paths, Holds(i, f)' PROVE Holds(i, f)
    <3>1. (Live(i)' /\ row'[i].file = f) \/ Holds(i, f)
      BY <1>8, <1>9, <2>1, HeldBefore
    <3>2. QED
      BY <1>1, <3>1 DEF Holds, Live
  <2>2. QED
    BY <1>10, <2>1, HeldStill
<1>13. RecordSession(s)'
  BY <1>7, <1>9 DEF RecordSession
<1>14. QED
  BY <1>2, <1>8, <1>11, <1>12, <1>13, FilesStep

\* A row is written and the request is over: the row gone, with the file it
\* had, or with the path the request had in hand.
LEMMA FileWritten ==
  ASSUME WorksInv, topic = "files", UNCHANGED <<phaseVars, accountVars, topic>>, NEW p \in Clients, Closes(p), Kept(vault),
         NEW i \in Rows, NEW x \in [status : RowStatus, version : 0..Inserted', file : Paths], row' = [row EXCEPT ![i] = x],
         Inserted' \in Nat, Inserted <= Inserted',
         \/ x.status \in {"none", "deleted"}
         \/ Live(i) /\ x.file = row[i].file
         \/ session[p].at \in Holding /\ session[p].id = i /\ x.file = session[p].file
  PROVE  WorksInv'
<1>1. vault' = vault /\ Done(p) /\ FileStill
  BY DEF Closes, Kept, FileStill
<1>2. row'[i] = x /\ \A r \in Rows : r # i => row'[r] = row[r]
  BY FileFacts DEF FileRows
<1>3. \A r \in Rows : row'[r] \in RowType'
  <2>1. \A r \in Rows : row[r] \in [status : RowStatus, version : 0..Inserted', file : Paths]
    BY FileFacts, InsertedCounts DEF FileRows, RowType
  <2>2. QED
    BY <1>2, <2>1 DEF RowType, Paths
<1>4. FileRows'
  BY <1>1, <1>3, FileFacts DEF FileRows
<1>5. PICK s : s = Idle
  OBVIOUS
<1>6. session' = [session EXCEPT ![p] = s] /\ RecordSession(s)' /\ s.at \notin Holding
  BY <1>1, <1>5 DEF Done, Idle, RecordSession, Holding, Past
<1>7. FilesHeld'
  <2>1. ASSUME NEW r \in Rows, NEW f \in Paths, Holds(r, f)' PROVE Holds(r, f)
    <3>1. (Live(r)' /\ row'[r].file = f) \/ Holds(r, f)
      BY <1>6, <2>1, HeldBefore
    <3>2. QED
      BY <1>2, <3>1 DEF Holds, Live
  <2>2. QED
    BY <1>1, <2>1, HeldStill
<1>8. QED
  BY <1>1, <1>4, <1>6, <1>7, FilesStep

\* A request is over, or given up, and its row as it was.
LEMMA FileOver ==
  ASSUME WorksInv, topic = "files", UNCHANGED <<phaseVars, accountVars, topic>>, NEW p \in Clients, Closes(p), Kept(vault), UNCHANGED row
  PROVE  WorksInv'
<1>1. UNCHANGED <<row, vault>> /\ Done(p) /\ FileStill
  BY DEF Closes, Kept, FileStill
<1>2. PICK s : s = Idle
  OBVIOUS
<1>3. session' = [session EXCEPT ![p] = s] /\ RecordSession(s) /\ s.at \notin Holding
  BY <1>1, <1>2 DEF Done, Idle, RecordSession, Holding, Past
<1>4. QED
  BY <1>1, <1>3, FileReads

\* A row that was inserted stays so when it is written over.
LEMMA InsertedStays ==
  ASSUME WorksInv, topic = "files", NEW i \in Rows, NEW x, row' = [row EXCEPT ![i] = x], x.status # "none"
  PROVE  Inserted' \in Nat /\ Inserted <= Inserted'
<1>1. \A r \in Rows : row[r] # NoRow => row'[r] # NoRow
  BY FileFacts DEF FileRows, NoRow
<1>2. QED
  BY <1>1, InsertedGrows

LEMMA InsertRowStep ==
  ASSUME WorksInv, topic = "files", UNCHANGED <<phaseVars, accountVars, topic>>, NEW p \in Clients, InsertRow(p) PROVE WorksInv'
<1>1. PICK t : t = session[p]
  OBVIOUS
<1>2. RecordSession(t) /\ t.at = "insert"
  BY <1>1, RecordFacts DEF RecordTopics, InsertRow, At
<1>3. t.id \in Rows /\ t.file \in Paths /\ t.version \in 0..Inserted + 1 /\ t.status \in {"uploaded", "shown"}
  BY <1>2 DEF RecordSession, Holding
<1>4. PICK x : x = [status |-> t.status, version |-> t.version, file |-> t.file]
  OBVIOUS
<1>5. row' = [row EXCEPT ![t.id] = x] /\ row[t.id] = NoRow /\ Closes(p) /\ Kept(vault)
  BY <1>1, <1>4 DEF InsertRow
<1>6. Inserted' = Inserted + 1
  <2>1. row'[t.id] = x /\ \A q \in Rows \ {t.id} : row'[q] = row[q]
    BY <1>3, <1>5, FileFacts DEF FileRows
  <2>2. x # NoRow
    BY <1>3, <1>4 DEF NoRow
  <2>3. QED
    BY <1>3, <1>5, <2>1, <2>2, InsertedOneMore
<1>7. Inserted' \in Nat /\ Inserted <= Inserted'
  BY <1>6, InsertedCounts
<1>8. x \in [status : RowStatus, version : 0..Inserted', file : Paths]
  <2>1. t.version \in 0..Inserted'
    BY <1>3, <1>6
  <2>2. QED
    BY <1>3, <1>4, <2>1 DEF RowStatus
<1>9. session[p].at \in Holding /\ session[p].id = t.id /\ x.file = session[p].file
  BY <1>1, <1>2, <1>4 DEF Holding
<1>10. QED
  BY <1>3, <1>5, <1>7, <1>8, <1>9, FileWritten

LEMMA VerifyDocumentStep ==
  ASSUME WorksInv, topic = "files", UNCHANGED <<phaseVars, accountVars, topic>>, NEW p \in Clients, VerifyDocument(p) PROVE WorksInv'
<1>1. PICK d : d = session[p].id
  OBVIOUS
<1>2. session[p].at = "verify" /\ Closes(p) /\ Kept(vault)
  BY DEF VerifyDocument, At
<1>3. CASE d \in Rows /\ Live(d)
  <2>1. PICK x : x = [row[d] EXCEPT !.status = "verified"]
    OBVIOUS
  <2>2. row' = [row EXCEPT ![d] = x]
    BY <1>1, <1>3, <2>1 DEF VerifyDocument
  <2>3. x.status = "verified" /\ x.file = row[d].file /\ row[d] \in RowType
    BY <1>3, <2>1, FileFacts DEF FileRows, RowType
  <2>4. Inserted' \in Nat /\ Inserted <= Inserted'
    BY <1>3, <2>2, <2>3, InsertedStays
  <2>5. x \in [status : RowStatus, version : 0..Inserted', file : Paths]
    BY <2>1, <2>3, <2>4, InsertedCounts DEF RowType, RowStatus
  <2>6. QED
    BY <1>2, <1>3, <2>2, <2>3, <2>4, <2>5, FileWritten
<1>4. CASE ~(d \in Rows /\ Live(d))
  <2>1. row' = row
    <3>1. CASE d \in Rows
      BY <1>1, <1>4, <3>1 DEF VerifyDocument
    <3>2. CASE d \notin Rows
      BY <1>1, <3>2, FileFacts DEF VerifyDocument, FileRows
    <3>3. QED
      BY <3>1, <3>2
  <2>2. QED
    BY <1>2, <2>1, FileOver
<1>5. QED
  BY <1>3, <1>4

LEMMA DestroyRowStep ==
  ASSUME WorksInv, topic = "files", UNCHANGED <<phaseVars, accountVars, topic>>, NEW p \in Clients, DestroyRow(p) PROVE WorksInv'
<1>1. PICK i : i = session[p].id
  OBVIOUS
<1>2. PICK x : x = [NoRow EXCEPT !.status = "deleted"]
  OBVIOUS
<1>3. session[p].at = "delete" /\ Closes(p) /\ Kept(vault) /\ row' = [row EXCEPT ![i] = x]
  BY <1>1, <1>2 DEF DestroyRow, At
<1>4. i \in Rows
  BY <1>1, <1>3, RecordFacts DEF RecordSession, RecordTopics, Past
<1>5. x.status = "deleted" /\ x = [status |-> "deleted", version |-> 0, file |-> NoFile]
  BY <1>2 DEF NoRow
<1>6. Inserted' \in Nat /\ Inserted <= Inserted'
  BY <1>3, <1>4, <1>5, InsertedStays
<1>7. x \in [status : RowStatus, version : 0..Inserted', file : Paths]
  BY <1>5, <1>6 DEF RowStatus, Paths
<1>8. QED
  BY <1>3, <1>4, <1>5, <1>6, <1>7, FileWritten

LEMMA ReplaceFileStep ==
  ASSUME WorksInv, topic = "files", UNCHANGED <<phaseVars, accountVars, topic>>, NEW p \in Clients, ReplaceFile(p) PROVE WorksInv'
<1>1. PICK t : t = session[p]
  OBVIOUS
<1>2. RecordSession(t) /\ t.at = "update" /\ Closes(p) /\ Kept(vault)
  BY <1>1, RecordFacts DEF RecordTopics, ReplaceFile, At
<1>3. t.id \in Rows /\ t.file \in Paths
  BY <1>2 DEF RecordSession, Holding
<1>4. CASE Live(t.id)
  <2>1. PICK x : x = [row[t.id] EXCEPT !.file = t.file]
    OBVIOUS
  <2>2. row' = [row EXCEPT ![t.id] = x]
    BY <1>1, <1>4, <2>1 DEF ReplaceFile
  <2>3. x.file = t.file /\ x.status = row[t.id].status /\ row[t.id] \in RowType
    BY <1>3, <2>1, FileFacts DEF FileRows, RowType
  <2>4. x.status # "none"
    BY <1>4, <2>3 DEF Live
  <2>5. Inserted' \in Nat /\ Inserted <= Inserted'
    BY <1>3, <2>2, <2>4, InsertedStays
  <2>6. x \in [status : RowStatus, version : 0..Inserted', file : Paths]
    BY <1>3, <2>1, <2>3, <2>5, InsertedCounts DEF RowType
  <2>7. session[p].at \in Holding /\ session[p].id = t.id /\ x.file = session[p].file
    BY <1>1, <1>2, <2>3 DEF Holding
  <2>8. QED
    BY <1>2, <1>3, <2>2, <2>5, <2>6, <2>7, FileWritten
<1>5. CASE ~Live(t.id)
  <2>1. row' = row
    BY <1>1, <1>5 DEF ReplaceFile
  <2>2. QED
    BY <1>2, <2>1, FileOver
<1>6. QED
  BY <1>4, <1>5

LEMMA FileNextStep ==
  ASSUME WorksInv, topic = "files", UNCHANGED <<phaseVars, accountVars, topic>>, FileNext PROVE WorksInv'
BY FileBegins, FileBrings, FileRemoves, InsertRowStep, VerifyDocumentStep, DestroyRowStep, ReplaceFileStep DEF FileNext

LEMMA RecordsStep ==
  ASSUME WorksInv, RecordNext, UNCHANGED <<phaseVars, accountVars, topic>> PROVE WorksInv'
BY FileNextStep, ScheduleNextStep, ShelfNextStep, WorkspaceNextStep DEF RecordNext

(***************************************************************************)
(* A client goes away, and a dispute comes or goes.                        *)
(***************************************************************************)
LEMMA LeaveStep ==
  ASSUME WorksInv, UNCHANGED <<phaseVars, accountVars, recordVars, topic>>, NEW p \in Clients, Leave(p) PROVE WorksInv'
<1>1. Done(p) /\ UNCHANGED <<contested, booked>>
  BY DEF Leave
<1>2. CASE topic \in WorkTopics
  <2>1. PhaseKeeps /\ UNCHANGED site /\ UNCHANGED phaseVars
    BY <1>1, <1>2 DEF PhaseKeeps, WorksInv, phaseVars
  <2>2. QED
    BY <1>1, <2>1, SiteStill, PhaseRowsStill, PhaseDone
<1>3. CASE topic \in AccountTopics
  <2>1. PICK s : s = Idle
    OBVIOUS
  <2>2. AccountSession(s) /\ s.at = "idle" /\ session' = [session EXCEPT ![p] = s]
    BY <1>1, <2>1, IdleIsAccount DEF Done, Idle
  <2>3. AccountKeeps /\ UNCHANGED topic /\ UNCHANGED accountVars /\ UNCHANGED <<hits, proposal>> /\ account' = account
    BY <1>1, <1>3 DEF AccountKeeps, accountVars
  <2>4. account.password <= account'.password /\ AccountRows'
    BY <2>3, AccountRowsStill, IdentityFacts, AccountBounds
  <2>5. Windows'
    <3>1. CASE topic = "limits"
      <4>1. Inside("hit")' = Inside("hit") \/ Inside("hit")' = Inside("hit") - 1
        BY <2>2, InsideMoves
      <4>2. hits' \in Nat /\ proposal' = 0 /\ hits' + Inside("hit")' < MaxHits + Cardinality(Clients)
        BY <2>3, <3>1, <4>1, LimitWindow
      <4>3. QED
        BY <2>3, <3>1, <4>2 DEF Windows
    <3>2. CASE topic = "people"
      <4>1. UNCHANGED topic /\ UNCHANGED hits /\ proposal' = proposal /\ s.at # "assign"
        BY <2>2, <2>3
      <4>2. QED
        BY <2>2, <3>2, <4>1, PeopleWindows
    <3>3. CASE topic \notin {"limits", "people"}
      BY <2>3, <3>3, WindowsStill
    <3>4. QED
      BY <3>1, <3>2, <3>3
  <2>6. QED
    BY <2>2, <2>3, <2>4, <2>5, AccountStep
<1>4. CASE topic = "files"
  <2>1. Closes(p) /\ Kept(vault) /\ row' = row
    BY <1>1 DEF Closes, Kept, recordVars
  <2>2. QED
    BY <1>4, <2>1, FileOver
<1>5. CASE topic \in RecordTopics /\ topic # "files"
  <2>1. RecordKeeps /\ UNCHANGED <<row, vault>> /\ UNCHANGED <<schedule, delays>> /\ UNCHANGED <<shelf, workspace>>
    BY <1>1, <1>5 DEF RecordKeeps, recordVars
  <2>2. PICK s : s = Idle
    OBVIOUS
  <2>3. RecordSession(s) /\ session' = [session EXCEPT ![p] = s]
    BY <1>1, <2>2, IdleIsRecord DEF Done
  <2>4. QED
    BY <1>5, <2>1, <2>3, PlanRowsStill, SpaceRowsStill, RecordStep
<1>6. QED
  BY <1>2, <1>3, <1>4, <1>5 DEF WorksInv

\* The requests, when nothing they have read changes.
LEMMA SessionsStill ==
  ASSUME WorksInv, UNCHANGED session, UNCHANGED topic, UNCHANGED site, UNCHANGED account, UNCHANGED <<row, vault>> PROVE Sessions'
<1>1. Sessions
  BY DEF WorksInv
<1>2. ASSUME NEW q \in Clients, PhaseSession(session[q]) PROVE PhaseSession(session[q])'
  BY <1>2 DEF PhaseSession, Answered
<1>3. ASSUME NEW q \in Clients, AccountSession(session[q]) PROVE AccountSession(session[q])'
  BY <1>3 DEF AccountSession
<1>4. ASSUME NEW q \in Clients, RecordSession(session[q]) PROVE RecordSession(session[q])'
  BY <1>4, InsertedStill DEF RecordSession
<1>5. session' = [p \in Clients |-> session'[p]]
  BY <1>1 DEF Sessions
<1>6. QED
  BY <1>1, <1>2, <1>3, <1>4, <1>5 DEF Sessions

LEMMA ContestStep ==
  ASSUME WorksInv, topic \in {"approve", "people", "shelf"}, UNCHANGED <<phaseVars, accountVars, recordVars, topic>>, Contest PROVE WorksInv'
<1>1. contested' \in BOOLEAN /\ UNCHANGED <<session, booked>> /\ topic' = topic
  BY DEF Contest
<1>2. PhaseRows' /\ AccountRows' /\ RecordRows' /\ site' = site /\ account' = account /\ UNCHANGED <<row, vault>> /\ UNCHANGED <<hits, proposal>>
  BY PhaseRowsStill, AccountRowsStill, RecordRowsStill DEF phaseVars, accountVars, recordVars
<1>3. Windows'
  <2>1. CASE topic = "people"
    BY <1>1, <1>2, <2>1, PeopleWindowsStill
  <2>2. CASE topic # "people"
    BY <1>1, <1>2, <2>2, WindowsStill
  <2>3. QED
    BY <2>1, <2>2
<1>4. Sessions'
  BY <1>1, <1>2, SessionsStill
<1>5. IF topic' = "files" THEN FilesHeld' ELSE \A r \in Rows : row'[r] = NoRow
  BY <1>1, <1>2, RowsApart
<1>6. topic' \in WorkTopics \cup AccountTopics \cup RecordTopics /\ booked' \in [References -> Nat]
  BY <1>1 DEF WorksInv
<1>7. QED
  BY <1>1, <1>2, <1>3, <1>4, <1>5, <1>6 DEF WorksInv

LEMMA WorksStutter == ASSUME WorksInv, UNCHANGED vars PROVE WorksInv'
<1>1. /\ UNCHANGED <<session, contested, booked>> /\ UNCHANGED phaseVars /\ UNCHANGED accountVars /\ UNCHANGED recordVars /\ topic' = topic
  BY DEF vars, gatewayVars
<1>2. PhaseRows' /\ AccountRows' /\ RecordRows'
  BY <1>1, PhaseRowsStill, AccountRowsStill, RecordRowsStill
<1>3. site' = site /\ account' = account /\ UNCHANGED <<row, vault>> /\ UNCHANGED <<hits, proposal>>
  BY <1>1 DEF phaseVars, accountVars, recordVars
<1>4. Sessions'
  BY <1>1, <1>3, SessionsStill
<1>5. Windows'
  BY <1>1, <1>3, InsideStill DEF Windows, WorksInv
<1>6. IF topic' = "files" THEN FilesHeld' ELSE \A r \in Rows : row'[r] = NoRow
  <2>1. CASE topic = "files"
    <3>1. FilesHeld
      BY <2>1, FileFacts
    <3>2. FilesHeld'
      BY <1>1, <1>3, <3>1 DEF FilesHeld, HeldStored, HeldOnce, Holds, Live
    <3>3. QED
      BY <1>1, <2>1, <3>2
  <2>2. CASE topic # "files"
    BY <1>1, <1>3, <2>2 DEF WorksInv
  <2>3. QED
    BY <2>1, <2>2
<1>7. topic' \in WorkTopics \cup AccountTopics \cup RecordTopics /\ booked' \in [References -> Nat] /\ contested' \in BOOLEAN
  BY <1>1 DEF WorksInv
<1>8. QED
  BY <1>2, <1>4, <1>5, <1>6, <1>7 DEF WorksInv

\* Every step preserves the invariant: of the works, the accounts or the
\* records, a client that goes away, or a change of the freeze.
THEOREM WorksInvPreserved == WorksInv /\ [Next]_vars => WorksInv'
<1> SUFFICES ASSUME WorksInv, [Next]_vars PROVE WorksInv'
  OBVIOUS
<1>1. CASE WorksNext /\ UNCHANGED <<accountVars, recordVars>> /\ UNCHANGED topic
  <2>1. UNCHANGED <<accountVars, recordVars, topic>>
    BY <1>1
  <2>2. QED
    BY <1>1, <2>1, WorksStep
<1>2. CASE AccountNext /\ UNCHANGED <<phaseVars, recordVars>> /\ UNCHANGED topic
  <2>1. UNCHANGED <<phaseVars, recordVars, topic>>
    BY <1>2
  <2>2. QED
    BY <1>2, <2>1, AccountsStep
<1>3. CASE RecordNext /\ UNCHANGED <<phaseVars, accountVars>> /\ UNCHANGED topic
  <2>1. UNCHANGED <<phaseVars, accountVars, topic>>
    BY <1>3
  <2>2. QED
    BY <1>3, <2>1, RecordsStep
<1>4. CASE (\E p \in Clients : Leave(p)) /\ UNCHANGED <<phaseVars, accountVars, recordVars>> /\ UNCHANGED topic
  <2>1. UNCHANGED <<phaseVars, accountVars, recordVars, topic>>
    BY <1>4
  <2>2. QED
    BY <1>4, <2>1, LeaveStep
<1>5. CASE topic \in {"approve", "people", "shelf"} /\ Contest /\ UNCHANGED <<phaseVars, accountVars, recordVars>> /\ UNCHANGED topic
  <2>1. UNCHANGED <<phaseVars, accountVars, recordVars, topic>>
    BY <1>5
  <2>2. QED
    BY <1>5, <2>1, ContestStep
<1>6. CASE UNCHANGED vars
  BY <1>6, WorksStutter
<1>7. QED
  BY <1>1, <1>2, <1>3, <1>4, <1>5, <1>6 DEF Next

(***************************************************************************)
(* Where it starts.                                                        *)
(***************************************************************************)
LEMMA PhaseStart ==
  ASSUME NEW r, r = Needs \/ r = Started \/ r = Blank \/ (\E managed \in BOOLEAN : r = [Blank EXCEPT !.managed = managed]),
         NEW ms, PhaseInit(r, ms, "locked")
  PROVE  PhaseRows
<1>1. /\ DOMAIN r = Fields /\ r.status \in SiteStatus /\ r.planning \in Planning /\ r.brief \in Brief
      /\ r.submitted \cup r.locked \cup r.stamped \subseteq Phase /\ r.listed \subseteq r.stamped /\ r.deadline = 0
  <2>1. PICK b : b = Blank
    OBVIOUS
  <2>2. /\ DOMAIN b = Fields /\ b.status \in SiteStatus /\ b.planning \in Planning /\ b.brief \in Brief
        /\ b.submitted = {} /\ b.locked = {} /\ b.stamped = {} /\ b.listed = {} /\ b.deadline = 0
    BY <2>1 DEF Blank, Fields, SiteStatus, Planning, Brief
  <2>3. "completed_build" \in SiteStatus /\ {"design"} \subseteq Phase /\ {"managed", "needed", "status", "listed", "stamped", "slf"} \subseteq Fields
    BY DEF SiteStatus, Phase, Fields
  <2>4. CASE r = Blank
    BY <2>1, <2>2, <2>4
  <2>5. CASE \E managed \in BOOLEAN : r = [Blank EXCEPT !.managed = managed]
    BY <2>1, <2>2, <2>3, <2>5
  <2>6. CASE r = Needs
    BY <2>1, <2>2, <2>3, <2>6 DEF Needs
  <2>7. CASE r = Started
    BY <2>1, <2>2, <2>3, <2>7 DEF Started
  <2>8. QED
    BY <2>4, <2>5, <2>6, <2>7
<1>2. Fresh \in MilestoneRow /\ NoMilestone \in MilestoneRow
  BY DEF Fresh, NoMilestone, MilestoneRow, Approval
<1>3. milestone \in [Milestones -> MilestoneRow]
  BY <1>2 DEF PhaseInit
<1>4. /\ document \in [Milestones -> DocStatus] /\ stage \in [Milestones -> StageState]
      /\ snag \in [Snags -> SnagStatus] /\ extension \in [Extensions -> ExtStatus] /\ site = r
  BY DEF PhaseInit, DocStatus, StageState, SnagStatus, ExtStatus
<1>5. 0 \in 0..MaxDeadline
  BY AmountsAreNats
<1>6. QED
  BY <1>1, <1>3, <1>4, <1>5 DEF PhaseRows, PhaseTypeOK, MilestoneRow, Answered

LEMMA AccountStart == ASSUME AccountInit PROVE AccountRows
<1>1. IdentityRows
  <2>1. /\ account = [there |-> FALSE, password |-> 1, suspended |-> FALSE, role |-> "user", roles |-> {"user"}]
        /\ token = <<>> /\ reset = 0
    BY DEF AccountInit
  <2>2. 1 \in 1..MaxPassword /\ 0 \in 0..MaxPassword /\ 0 <= MaxTokens
    BY AccountBounds
  <2>3. account \in [there : BOOLEAN, password : 1..MaxPassword, suspended : BOOLEAN, role : RoleNames, roles : SUBSET RoleNames]
    BY <2>1, <2>2 DEF RoleNames
  <2>4. token \in Seq(Nat) /\ Len(token) <= MaxTokens /\ \A i \in 1..Len(token) : token[i] \in 1..account.password
    BY <2>1, <2>2
  <2>5. QED
    BY <2>1, <2>2, <2>3, <2>4 DEF IdentityRows
<1>2. OutboxRows
  <2>1. /\ mail = [m \in Mails |-> [queued |-> FALSE, taken |-> FALSE, sent |-> FALSE, error |-> FALSE]]
        /\ worker = [w \in Workers |-> [at |-> "rest", left |-> {}]] /\ faults = 0
    BY DEF AccountInit, Resting
  <2>2. 0 \in 0..MaxFaults
    BY AccountBounds
  <2>3. ASSUME NEW w \in Workers PROVE Tour(w)
    BY <2>1 DEF Tour
  <2>4. QED
    BY <2>1, <2>2, <2>3 DEF OutboxRows
<1>3. PeopleRows
  BY DEF AccountInit, PeopleRows
<1>4. QED
  BY <1>1, <1>2, <1>3 DEF AccountRows

LEMMA RecordStart == ASSUME RecordInit PROVE RecordRows /\ \A r \in Rows : row[r] = NoRow
<1>1. FileRows
  <2>1. row = [r \in Rows |-> NoRow] /\ vault = [stored |-> {}, there |-> {}]
    BY DEF RecordInit
  <2>2. NoRow \in RowType
    BY InsertedCounts DEF NoRow, RowType, RowStatus, Paths
  <2>3. QED
    BY <2>1, <2>2 DEF FileRows
<1>2. PlanRows
  <2>1. schedule = [ph \in Stations |-> NoPhase] /\ delays = [ph \in Stations |-> 0]
    BY DEF RecordInit
  <2>2. Lost = 0
    <3>1. \A ph \in Stations : delays[ph] = 0
      BY <2>1
    <3>2. QED
      BY <3>1, FewRecords, LostIsSum, SumZero
  <2>3. QED
    BY <2>1, <2>2 DEF PlanRows, NoPhase
<1>3. SpaceRows
  BY DEF RecordInit, SpaceRows
<1>4. QED
  BY <1>1, <1>2, <1>3 DEF RecordRows, RecordInit

LEMMA SessionStart == ASSUME GatewayInit PROVE Sessions /\ \A point : point # "idle" => Inside(point) = 0
<1>1. session = [p \in Clients |-> Idle]
  BY DEF GatewayInit
<1>2. ASSUME NEW p \in Clients PROVE PhaseSession(session[p]) /\ AccountSession(session[p]) /\ RecordSession(session[p])
  <2>1. PhaseSession(Idle)
    BY DEF Idle, PhaseSession
  <2>2. session[p] = Idle
    BY <1>1
  <2>3. QED
    BY <2>1, <2>2, IdleIsAccount, IdleIsRecord
<1>3. ASSUME NEW point, point # "idle" PROVE Inside(point) = 0
  <2>1. {p \in Clients : At(p, point)} = {}
    BY <1>1, <1>3 DEF At, Idle
  <2>2. QED
    BY <2>1, FS_EmptySet DEF Inside
<1>4. QED
  BY <1>1, <1>2, <1>3 DEF Sessions

\* No row there is, so no file to hold.
LEMMA FilesStart ==
  ASSUME GatewayInit, \A r \in Rows : row[r] = NoRow PROVE FilesHeld
<1>1. \A r \in Rows : ~Live(r)
  BY DEF Live, NoRow
<1>2. \A p \in Clients : session[p].at \notin Holding
  BY DEF GatewayInit, Idle, Holding
<1>3. QED
  BY <1>1, <1>2 DEF FilesHeld, HeldStored, HeldOnce, Holds

LEMMA WorksStart == Init => WorksInv
<1> SUFFICES ASSUME Init PROVE WorksInv
  OBVIOUS
<1>1. GatewayInit /\ AccountInit /\ RecordInit
  BY DEF Init
<1>2. topic \in WorkTopics \cup AccountTopics \cup RecordTopics
  BY DEF Init, WorkTopics, AccountTopics, RecordTopics
<1>3. PhaseRows
  <2>1. \E r, ms : /\ PhaseInit(r, ms, "locked")
                   /\ r = Needs \/ r = Started \/ r = Blank \/ (\E managed \in BOOLEAN : r = [Blank EXCEPT !.managed = managed])
    BY DEF Init, Nothing
  <2>2. QED
    BY <2>1, PhaseStart
<1>4. AccountRows /\ RecordRows /\ Sessions /\ \A r \in Rows : row[r] = NoRow
  BY <1>1, AccountStart, RecordStart, SessionStart
<1>5. Windows
  <2>1. Inside("hit") = 0 /\ Inside("assign") = 0
    BY <1>1, SessionStart
  <2>2. Cardinality(Clients) \in Nat
    BY FinitelyMany, FS_CardinalityType
  <2>3. hits = 0 /\ proposal = 0
    BY <1>1 DEF AccountInit
  <2>4. QED
    BY <2>1, <2>2, <2>3, AccountBounds DEF Windows
<1>6. booked \in [References -> Nat] /\ contested \in BOOLEAN
  BY <1>1 DEF GatewayInit
<1>7. IF topic = "files" THEN FilesHeld ELSE \A r \in Rows : row[r] = NoRow
  BY <1>1, <1>4, FilesStart
<1>8. QED
  BY <1>2, <1>3, <1>4, <1>5, <1>6, <1>7 DEF WorksInv

(***************************************************************************)
(* The properties.                                                         *)
(***************************************************************************)
\* WorksInv holds in every state, whatever topic a behaviour exercises.
THEOREM WorksInvariance == Spec => []WorksInv
<1>1. WorksInv /\ [Next]_vars => WorksInv'
  BY WorksInvPreserved
<1>2. QED
  BY <1>1, WorksStart, PTL DEF Spec

\* Every variable of the works, the accounts and the records keeps its type: no
\* more proposals than requests, no shift of the schedule beyond the days lost.
THEOREM WorksTypes == Spec => []TypeOK
<1>1. WorksInv => PhaseTypeOK
  BY DEF WorksInv, PhaseRows
<1>2. WorksInv => AccountTypeOK
  <2> SUFFICES ASSUME WorksInv PROVE AccountTypeOK
    OBVIOUS
  <2>1. proposal \in 0..Cardinality(Clients) /\ hits \in Nat
    <3>1. Inside("assign") \in Nat /\ Cardinality(Clients) \in Nat
      BY InsideCounts
    <3>2. proposal \in Nat /\ hits \in Nat
      BY DEF WorksInv, Windows
    <3>3. CASE topic = "people"
      BY <3>1, <3>2, <3>3, PeopleWindow
    <3>4. CASE topic # "people"
      BY <3>1, <3>2, <3>4 DEF WorksInv, Windows
    <3>5. QED
      BY <3>3, <3>4
  <2>2. account.password \in 1..MaxPassword /\ account.suspended \in BOOLEAN /\ account.roles \subseteq {"user", "pm"}
    BY IdentityFacts DEF RoleNames
  <2>3. Len(token) <= MaxTokens /\ \A i \in DOMAIN token : token[i] \in 1..account.password
    BY DEF WorksInv, AccountRows, IdentityRows
  <2>4. reset \in 0..MaxPassword /\ faults \in 0..MaxFaults
    BY DEF WorksInv, AccountRows, IdentityRows, OutboxRows
  <2>5. /\ \A m \in Mails : mail[m].sent => mail[m].queued /\ mail[m].taken
        /\ \A w \in Workers : worker[w].left \subseteq Mails /\ (worker[w].at = "rest") = (worker[w].left = {})
    BY OutboxFacts DEF Tour
  <2>6. QED
    BY <2>1, <2>2, <2>3, <2>4, <2>5, PeopleFacts DEF AccountTypeOK
<1>3. WorksInv => RecordTypeOK
  <2> SUFFICES ASSUME WorksInv PROVE RecordTypeOK
    OBVIOUS
  <2>1. row \in [Rows -> [status : RowStatus, version : 0..Cardinality(Rows), file : Files \cup {NoFile}]]
    <3>1. row \in [Rows -> RowType]
      BY DEF WorksInv, RecordRows, FileRows
    <3>2. RowType \subseteq [status : RowStatus, version : 0..Cardinality(Rows), file : Files \cup {NoFile}]
      BY InsertedCounts DEF RowType, Paths
    <3>3. QED
      BY <3>1, <3>2
  <2>2. vault.there \subseteq vault.stored /\ vault.stored \subseteq Files
    BY DEF WorksInv, RecordRows, FileRows
  <2>3. \A ph \in Stations : schedule[ph].shifted \in 0..Lost /\ (~schedule[ph].there => schedule[ph] = NoPhase)
    BY PlanFacts, LostIsInt
  <2>4. QED
    BY <2>1, <2>2, <2>3, SpaceFacts DEF RecordTypeOK, RowStatus, ShelfStates
<1>4. QED
  BY <1>1, <1>2, <1>3, WorksInvariance, PTL DEF TypeOK

\* However many requests count before one of them inserts, the limit is exceeded
\* by one for each of the others at most.
THEOREM RateBounded == Spec => []RateIsBounded
<1>1. WorksInv => RateIsBounded
  <2> SUFFICES ASSUME WorksInv PROVE RateIsBounded
    OBVIOUS
  <2>1. CASE topic = "limits"
    BY <2>1, LimitWindow DEF RateIsBounded
  <2>2. CASE topic # "limits"
    <3>1. hits = 0 /\ Cardinality(Clients) \in Nat
      BY <2>2, FinitelyMany, FS_CardinalityType DEF WorksInv, Windows
    <3>2. QED
      BY <3>1, AccountBounds DEF RateIsBounded
  <2>3. QED
    BY <2>1, <2>2
<1>2. QED
  BY <1>1, WorksInvariance, PTL

\* A step that takes a file out of the vault is one of a request that had the
\* path of its own row in hand.
LEMMA FileGoes ==
  ASSUME WorksInv, Next, vault' # vault, NEW f \in vault.there, f \notin vault'.there
  PROVE  topic = "files" /\ \E p \in Clients : session[p].at \in {"remove", "old"} /\ session[p].file = f
<1>1. topic = "files" /\ FileNext
  <2>1. CASE \E p \in Clients : SchedulesIndex(p) \/ InsertPhase(p)
    BY <2>1 DEF SchedulesIndex, InsertPhase, Opens, Planned, recordVars
  <2>2. CASE \E ph \in Stations : (\E end \in {0, 1} : UpdateSchedule(ph, end)) \/ LogDelay(ph, 1)
    BY <2>2 DEF UpdateSchedule, LogDelay, Planned
  <2>3. CASE ShelfNext
    BY <2>3, ShelfMoves DEF Reshelved, Shelved, DestroyHouse
  <2>4. CASE WorkspaceNext
    BY <2>4 DEF WorkspaceNext, RevokeShareToken, MergeFavorites, DestroyFavorite, StoreConversation, SendMessage, ShowConversation,
       StoreFolder, MoveIntoFolder, BeginShare, GenerateShareToken, BroadcastPhase, BeginToggle, ToggleFavorite, BeginEmptyFolder,
       DestroyFolder, BeginBroadcast, Sets, Opens, recordVars
  <2>5. CASE UNCHANGED recordVars
    BY <2>5 DEF recordVars
  <2>6. QED
    BY <2>1, <2>2, <2>3, <2>4, <2>5 DEF Next, RecordNext, ScheduleNext
<1>2. ASSUME NEW g, storeVaultFile(g) PROVE FALSE
  BY <1>2 DEF storeVaultFile
<1>3. PICK p \in Clients : DestroyFile(p) \/ RemoveOld(p)
  BY <1>1, <1>2 DEF FileNext, BeginStoreDocument, BeginStorePicture, StoreNew, BeginVerifyDocument, BeginDestroy, BeginReplace, BeginEditPicture,
     InsertRow, VerifyDocument, DestroyRow, ReplaceFile, Opens, Kept, recordVars
<1>4. session[p].at \in {"remove", "old"} /\ vault' = [vault EXCEPT !.there = @ \ {session[p].file}]
  BY <1>3 DEF DestroyFile, RemoveOld, At, removeVaultFile
<1>5. vault'.there = vault.there \ {session[p].file}
  BY <1>1, <1>4, FileFacts DEF FileRows
<1>6. QED
  BY <1>1, <1>4, <1>5

\* A row loses its file only to a request about that row, however stale the
\* paths of the others.
THEOREM OwnFilesGo == Spec => OnlyOwnFiles
<1>1. WorksInv /\ [Next]_vars =>
        [\A r \in Rows : Loses(r) => \E p \in Clients : session[p].at \in {"remove", "old"} /\ session[p].id = r]_<<row, vault>>
  <2> SUFFICES ASSUME WorksInv, [Next]_vars, NEW r \in Rows, Loses(r)
               PROVE  \E p \in Clients : session[p].at \in {"remove", "old"} /\ session[p].id = r
    OBVIOUS
  <2>1. Next /\ vault' # vault /\ Live(r) /\ row[r].file \in vault.there /\ row[r].file \notin vault'.there
    BY DEF Loses, vars, recordVars
  <2>2. PICK p \in Clients : topic = "files" /\ session[p].at \in {"remove", "old"} /\ session[p].file = row[r].file
    BY <2>1, FileGoes
  <2>3. session[p].at \in Holding /\ session[p].id \in Rows /\ row[r].file \in Paths
    BY <2>2, RecordFacts, FileFacts DEF RecordSession, RecordTopics, Holding, FileRows, RowType
  <2>4. Holds(session[p].id, row[r].file) /\ Holds(r, row[r].file)
    BY <2>1, <2>2, <2>3 DEF Holds
  <2>5. session[p].id = r
    BY <2>2, <2>3, <2>4, FileFacts DEF FilesHeld, HeldOnce
  <2>6. QED
    BY <2>2, <2>5
<1>2. QED
  BY <1>1, WorksInvariance, PTL DEF Spec, OnlyOwnFiles

\* A building is accepted only by a request whose needed phases were verified, or
\* claimed by the owner, and with its certificate there: what the request has
\* read may be stale, but nothing that it relies on is ever taken back.
THEOREM AcceptedPhases == Spec => AcceptedHasPhases
<1>1. WorksInv /\ [Next]_vars
        => [site'.accepted # site.accepted =>
              \E p \in Clients :
                /\ At(p, "finalize") /\ session[p].needed \subseteq site.stamped \cup site.claimed
                /\ site.newBuild => site.slf]_<<session, site>>
  <2> SUFFICES ASSUME WorksInv, [Next]_vars, site'.accepted # site.accepted
               PROVE  \E p \in Clients :
                        /\ At(p, "finalize") /\ session[p].needed \subseteq site.stamped \cup site.claimed
                        /\ site.newBuild => site.slf
    OBVIOUS
  <2>1. WorksNext /\ UNCHANGED <<accountVars, recordVars, topic>>
    BY DEF Next, vars, phaseVars
  <2>2. PICK p \in Clients : handoverFinalize(p)
    BY <2>1, WorksStep DEF Accepts
  <2>3. At(p, "finalize") /\ session[p].needed = session[p].listed /\ (site.newBuild => session[p].slf)
    BY <2>2 DEF handoverFinalize
  <2>4. topic \in WorkTopics
    BY <2>1 DEF WorksNext, WorkTopics
  <2>5. session[p].listed \subseteq Answered /\ (session[p].slf => site.slf)
    BY <2>3, <2>4, PhaseFacts DEF PhaseSession, At
  <2>6. QED
    BY <2>3, <2>5 DEF Answered
<1>2. QED
  BY <1>1, WorksInvariance, PTL DEF Spec, AcceptedHasPhases

=============================================================================
