------------------------------ MODULE Records ------------------------------
(***************************************************************************)
(* What the parties keep about a project and show of themselves: rows with *)
(* a file in the vault, the schedule and its delays, and the small rows of *)
(* a workspace or of a listing.                                            *)
(*                                                                         *)
(* The vault takes no part in a transaction: a file is stored before its   *)
(* row and removed before it.                                              *)
(***************************************************************************)
EXTENDS Gateway

CONSTANTS
  Documents,  \* bound: rows of project_documents, versions of one document
  Pictures,   \* bound: rows whose file is replaced in place
  Files,      \* bound: files ever stored
  NoFile,     \* of a row without a file
  Stations,   \* the phases of the schedule, in order
  MaxDays,    \* bound: days of delay
  MaxLinks,   \* bound: share links generated
  Shelves     \* bound: one row of each kind kept in a workspace or a listing

ASSUME StationsAreNats == Stations \subseteq Nat
ASSUME FewRecords      == IsFiniteSet(Documents) /\ IsFiniteSet(Pictures) /\ IsFiniteSet(Stations)

VARIABLES
  row,       \* documents and pictures
  vault,     \* files: those stored so far, those there are
  schedule,  \* project_schedules
  delays,    \* project_delays: days lost, by phase
  shelf,     \* rows that are stored, edited and dropped
  workspace  \* folder, conversation, share link, bidding board, favorite

recordVars == <<row, vault, schedule, delays, shelf, workspace>>

Rows       == Documents \cup Pictures
NoRow      == [status |-> "none", version |-> 0, file |-> NoFile]
Live(r)    == row[r].status \notin {"none", "deleted"}
Version    == Max({row[d].version : d \in Documents})

Opens(p, s)  == Serve(p, s) /\ UNCHANGED <<recordVars, contested, booked>>
Closes(p)    == Done(p) /\ UNCHANGED <<contested, booked>>
Steps(p, at) == To(p, at) /\ UNCHANGED <<contested, booked>>
Kept(rest)   == UNCHANGED <<schedule, delays, shelf, workspace, rest>>

(***************************************************************************)
(* Rows with a file.                                                       *)
(***************************************************************************)
\* Mutant: a new file may take the name of one that was removed.
storeVaultFileAgain(f) ==
  /\ f \notin vault.there
  /\ vault' = [stored |-> vault.stored \cup {f}, there |-> vault.there \cup {f}]

\* A new file never takes the name of another.
storeVaultFile(f) ==
  /\ f \notin vault.stored
  /\ vault' = [stored |-> vault.stored \cup {f}, there |-> vault.there \cup {f}]

removeVaultFile(f) == vault' = [vault EXCEPT !.there = @ \ {f}]

\* A new version of a document counts the versions before the transaction.
BeginStoreDocument(p, d, f) ==
  /\ row[d] = NoRow
  /\ storeVaultFile(f)
  /\ Serve(p, [at |-> "insert", id |-> d, file |-> f, version |-> Version + 1, status |-> "uploaded"])
  /\ UNCHANGED <<contested, booked>> /\ Kept(row)

BeginStorePicture(p, r, f) ==
  /\ row[r] = NoRow
  /\ storeVaultFile(f)
  /\ Serve(p, [at |-> "insert", id |-> r, file |-> f, version |-> 1, status |-> "shown"])
  /\ UNCHANGED <<contested, booked>> /\ Kept(row)

InsertRow(p) ==
  LET s == session[p] IN
  /\ At(p, "insert") /\ row[s.id] = NoRow
  /\ row' = [row EXCEPT ![s.id] = [status |-> s.status, version |-> s.version, file |-> s.file]]
  /\ Closes(p) /\ Kept(vault)

BeginVerifyDocument(p, d) == Live(d) /\ Opens(p, [at |-> "verify", id |-> d])

VerifyDocument(p) ==
  LET d == session[p].id IN
  /\ At(p, "verify")
  /\ row' = IF Live(d) THEN [row EXCEPT ![d].status = "verified"] ELSE row
  /\ Closes(p) /\ Kept(vault)

\* A verified document is kept; whether it is verified was read before.
BeginDestroy(p, r) ==
  /\ Live(r) /\ row[r].status # "verified"
  /\ Opens(p, [at |-> "remove", id |-> r, file |-> row[r].file])

DestroyFile(p) ==
  /\ At(p, "remove")
  /\ removeVaultFile(session[p].file)
  /\ Steps(p, "delete") /\ Kept(row)

DestroyRow(p) ==
  /\ At(p, "delete")
  /\ row' = [row EXCEPT ![session[p].id] = [NoRow EXCEPT !.status = "deleted"]]
  /\ Closes(p) /\ Kept(vault)

\* A picture is replaced: old file, new file, row.  Without a new file the
\* path that was read goes back into the row.
BeginReplace(p, r) == Live(r) /\ Opens(p, [at |-> "old", id |-> r, file |-> row[r].file])

BeginEditPicture(p, r) == Live(r) /\ Opens(p, [at |-> "update", id |-> r, file |-> row[r].file])

RemoveOld(p) ==
  /\ At(p, "old")
  /\ removeVaultFile(session[p].file)
  /\ Steps(p, "new") /\ Kept(row)

StoreNew(p, f) ==
  /\ At(p, "new")
  /\ storeVaultFile(f)
  /\ session' = [session EXCEPT ![p] = [at |-> "update", id |-> @.id, file |-> f]]
  /\ UNCHANGED <<contested, booked>> /\ Kept(row)

ReplaceFile(p) ==
  LET s == session[p] IN
  /\ At(p, "update")
  /\ row' = IF Live(s.id) THEN [row EXCEPT ![s.id].file = s.file] ELSE row
  /\ Closes(p) /\ Kept(vault)

FileNext ==
  \E p \in Clients :
    \/ \E f \in Files :
         \/ \E d \in Documents : BeginStoreDocument(p, d, f)
         \/ \E r \in Pictures : BeginStorePicture(p, r, f)
         \/ StoreNew(p, f)
    \/ \E d \in Documents : BeginVerifyDocument(p, d)
    \/ \E r \in Rows : BeginDestroy(p, r)
    \/ \E r \in Pictures : BeginReplace(p, r) \/ BeginEditPicture(p, r)
    \/ InsertRow(p) \/ VerifyDocument(p) \/ DestroyFile(p) \/ DestroyRow(p) \/ RemoveOld(p) \/ ReplaceFile(p)

(***************************************************************************)
(* The schedule.                                                           *)
(***************************************************************************)
Planned(rest) == UNCHANGED <<row, vault, shelf, workspace, rest>>
NoPhase       == [there |-> FALSE, end |-> 0, original |-> 0, shifted |-> 0]
Lost          == MapThenSumSet(LAMBDA ph : delays[ph], Stations)

\* Reading the schedule inserts the phases it lacks, one statement each; a
\* phase inserted meanwhile by another reader fails the request.
SchedulesIndex(p) ==
  \E missing \in {{ph \in Stations : ~schedule[ph].there}} :
    missing # {} /\ Opens(p, [at |-> "phases", missing |-> missing])

InsertPhase(p) ==
  LET ph == Min(session[p].missing) IN
  /\ At(p, "phases")
  /\ schedule' = [schedule EXCEPT ![ph].there = TRUE]
  /\ IF schedule[ph].there \/ session[p].missing = {ph}
     THEN Done(p)
     ELSE session' = [session EXCEPT ![p].missing = @ \ {ph}]
  /\ UNCHANGED <<contested, booked>> /\ Planned(delays)

\* The end of a phase is set by hand, 0 for none.
UpdateSchedule(ph, end) ==
  /\ schedule[ph].there
  /\ schedule' = [schedule EXCEPT ![ph].end = end]
  /\ UNCHANGED gatewayVars /\ Planned(delays)

Shift(phase, days) ==
  IF ~phase.there THEN phase
  ELSE [there    |-> TRUE,
        end      |-> IF phase.end = 0 THEN 0 ELSE phase.end + days,
        original |-> IF phase.original = 0 THEN phase.end ELSE phase.original,
        shifted  |-> phase.shifted + days]

\* A delay shifts its phase and those after it.
LogDelay(ph, days) ==
  /\ Lost + days <= MaxDays
  /\ delays' = [delays EXCEPT ![ph] = @ + days]
  /\ schedule' = [n \in Stations |-> IF n >= ph THEN Shift(schedule[n], days) ELSE schedule[n]]
  /\ UNCHANGED gatewayVars /\ Planned(<<>>)

ScheduleNext ==
  \/ \E p \in Clients : SchedulesIndex(p) \/ InsertPhase(p)
  \/ \E ph \in Stations : (\E end \in {0, 1} : UpdateSchedule(ph, end)) \/ LogDelay(ph, 1)

(***************************************************************************)
(* Rows of a workspace or a listing.  What their handlers read before they *)
(* write, existence and author, no other request changes back: a row gone  *)
(* in between is simply not written.                                       *)
(***************************************************************************)
Shelved(k, from, to) ==
  /\ k \in Shelves /\ shelf[k] \in from
  /\ shelf' = [shelf EXCEPT ![k] = to]
  /\ UNCHANGED <<row, vault, schedule, delays, workspace, gatewayVars>>

Here == {"kept", "edited"}

StoreComment       == Shelved("comment", {"none"}, "kept")
UpdateComment      == Shelved("comment", Here, "edited")
DestroyComment     == Shelved("comment", Here, "none")
StoreStickyNote    == Shelved("note", {"none"}, "kept")
UpdateStickyNote   == Shelved("note", Here, "edited")
DestroyStickyNote  == Shelved("note", Here, "none")
StoreReport        == Shelved("report", {"none"}, "kept")
UpdateReport       == Shelved("report", Here, "edited")
StoreDailyLog      == Shelved("log", {"none"}, "kept")
DestroyDailyLog    == Shelved("log", Here, "none")
StoreHouse         == Shelved("house", {"none"}, "kept")
UpdateHouse        == Shelved("house", Here, "edited")
StoreMaterial      == Shelved("material", {"none"}, "kept")
UpdateMaterial     == Shelved("material", Here, "edited")
UpdatePreference   == Shelved("preference", {"none"} \cup Here, "edited")
DestroyPreference  == Shelved("preference", Here, "none")
StoreTeamMember    == Shelved("member", {"none"}, "kept")
UpdateTeamMember   == Shelved("member", Here \cup {"inactive"}, "edited")
DestroyTeamMember  == Shelved("member", Here \cup {"inactive"}, "inactive")
UpdateFirmProfile  == Shelved("firm", {"none"} \cup Here, "edited")
DestroyReport      == Shelved("report", Here, "none")
DestroyMaterial    == Shelved("material", Here, "none")
StoreProject       == Shelved("project", {"none"}, "kept")
ReviewProject      == Shelved("review", {"none"} \cup Here, "edited")
StoreEngineeringLog  == Shelved("engineering", {"none"}, "kept")
DeleteEngineeringLog == Shelved("engineering", Here, "none")
MerchantProfile      == Shelved("store", {"none"}, "kept")
MerchantUpdate       == Shelved("store", Here, "edited")
insertNotification   == Shelved("notification", {"none"}, "kept")
MarkNotificationRead == Shelved("notification", Here, "edited")
MarkAllRead          == Shelved("notification", {"kept"}, "edited")
ReplyDispute         == contested /\ Shelved("thread", {"none"} \cup Here, "kept")

AddSandbox           == Shelved("sandbox", {"none"}, "kept")
ToggleSandbox        == Shelved("sandbox", {"kept"}, "inactive") \/ Shelved("sandbox", {"inactive"}, "kept")
UpdateSandbox        == Shelved("sandbox", {"kept", "inactive"}, shelf["sandbox"])
DeleteSandbox        == Shelved("sandbox", {"kept", "inactive"}, "none")
StoreSavedSearch     == Shelved("search", {"none"}, "kept")
DestroySavedSearch   == Shelved("search", Here, "none")
StoreOwnerReview     == Shelved("rating", {"none"}, "kept")

\* The rooms, the questions and the answers of a house go with it.
StoreRoom    == shelf["house"] \in Here /\ Shelved("room", {"none"}, "kept")
DestroyRoom  == Shelved("room", Here, "none")
StoreHouseAnswer == Shelved("question", Here, "edited")
StoreQuestion == shelf["house"] \in Here /\ Shelved("question", {"none"}, "kept")
DestroyHouse ==
  /\ shelf["house"] \in Here \cup {"inactive"}
  /\ shelf' = [shelf EXCEPT !["house"] = "none", !["room"] = "none", !["question"] = "none"]
  /\ UNCHANGED <<row, vault, schedule, delays, workspace, gatewayVars>>

\* An administrator suspends a listing, or takes the suspension back.
AdminSuspendHouse ==
  \/ Shelved("house", Here, "inactive")
  \/ Shelved("house", {"inactive"}, "kept")

ShelfNext ==
  \/ StoreComment \/ UpdateComment \/ DestroyComment \/ StoreStickyNote \/ UpdateStickyNote \/ DestroyStickyNote
  \/ StoreReport \/ UpdateReport \/ StoreDailyLog \/ DestroyDailyLog
  \/ StoreHouse \/ UpdateHouse \/ DestroyHouse \/ StoreRoom \/ StoreMaterial \/ UpdateMaterial
  \/ UpdatePreference \/ DestroyPreference \/ StoreTeamMember \/ UpdateTeamMember \/ DestroyTeamMember
  \/ UpdateFirmProfile \/ DestroyReport \/ DestroyMaterial \/ StoreProject \/ ReviewProject
  \/ StoreEngineeringLog \/ DeleteEngineeringLog \/ MerchantProfile \/ MerchantUpdate
  \/ AddSandbox \/ ToggleSandbox \/ UpdateSandbox \/ DeleteSandbox
  \/ StoreSavedSearch \/ DestroySavedSearch \/ StoreOwnerReview \/ DestroyRoom \/ StoreHouseAnswer
  \/ insertNotification \/ MarkNotificationRead \/ MarkAllRead \/ ReplyDispute \/ StoreQuestion \/ AdminSuspendHouse

(***************************************************************************)
(* The workspace.                                                          *)
(***************************************************************************)
Sets(change) == workspace' = change /\ UNCHANGED <<row, vault, schedule, delays, shelf>>

\* Two readers without a link write one each; the first was given a dead one.
BeginShare(p)          == workspace.link = 0 /\ Opens(p, [at |-> "share"])
GenerateShareToken(p)  == At(p, "share") /\ workspace.links < MaxLinks
                          /\ Sets([workspace EXCEPT !.link = workspace.links + 1, !.links = @ + 1]) /\ Closes(p)
RevokeShareToken       == Sets([workspace EXCEPT !.link = 0]) /\ UNCHANGED gatewayVars

\* The roles published for bidding are read, and written whole.
BeginBroadcast(p, role) == role \notin workspace.board /\ Opens(p, [at |-> "board", board |-> workspace.board \cup {role}])
BroadcastPhase(p)       == At(p, "board") /\ Sets([workspace EXCEPT !.board = session[p].board]) /\ Closes(p)

\* A favorite is looked for, then dropped by id or inserted, once.
BeginToggle(p)    == Opens(p, [at |-> "toggle", known |-> workspace.favorite])
ToggleFavorite(p) == At(p, "toggle") /\ Sets([workspace EXCEPT !.favorite = ~session[p].known]) /\ Closes(p)
MergeFavorites    == Sets([workspace EXCEPT !.favorite = TRUE]) /\ UNCHANGED gatewayVars
DestroyFavorite   == Sets([workspace EXCEPT !.favorite = FALSE]) /\ UNCHANGED gatewayVars

\* A conversation is inserted once, whoever starts it; showing it marks it read.
StoreConversation == Sets([workspace EXCEPT !.talk = IF @ = "none" THEN "read" ELSE @]) /\ UNCHANGED gatewayVars
SendMessage       == workspace.talk # "none" /\ Sets([workspace EXCEPT !.talk = "unread"]) /\ UNCHANGED gatewayVars
ShowConversation  == workspace.talk = "unread" /\ Sets([workspace EXCEPT !.talk = "read"]) /\ UNCHANGED gatewayVars

\* The requirements of a folder are taken out, then the folder is deleted; one
\* put in between loses its folder with it.
StoreFolder         == ~workspace.folder /\ Sets([workspace EXCEPT !.folder = TRUE]) /\ UNCHANGED gatewayVars
MoveIntoFolder      == workspace.folder /\ Sets([workspace EXCEPT !.inside = TRUE]) /\ UNCHANGED gatewayVars
BeginEmptyFolder(p) == workspace.folder /\ Sets([workspace EXCEPT !.inside = FALSE])
                       /\ Serve(p, [at |-> "folder"]) /\ UNCHANGED <<contested, booked>>
DestroyFolder(p)    == At(p, "folder") /\ Sets([workspace EXCEPT !.folder = FALSE, !.inside = FALSE]) /\ Closes(p)

WorkspaceNext ==
  \/ RevokeShareToken \/ MergeFavorites \/ DestroyFavorite \/ StoreConversation \/ SendMessage \/ ShowConversation
  \/ StoreFolder \/ MoveIntoFolder
  \/ \E p \in Clients :
       \/ BeginShare(p) \/ GenerateShareToken(p) \/ BroadcastPhase(p) \/ BeginToggle(p) \/ ToggleFavorite(p)
       \/ BeginEmptyFolder(p) \/ DestroyFolder(p)
       \/ \E role \in {"arsitek", "kontraktor"} : BeginBroadcast(p, role)

RecordInit ==
  /\ row = [r \in Rows |-> NoRow] /\ vault = [stored |-> {}, there |-> {}]
  /\ schedule = [ph \in Stations |-> NoPhase] /\ delays = [ph \in Stations |-> 0]
  /\ shelf = [k \in Shelves |-> "none"]
  /\ workspace = [link |-> 0, links |-> 0, board |-> {}, favorite |-> FALSE, talk |-> "none", folder |-> FALSE, inside |-> FALSE]

(***************************************************************************)
(* Properties.                                                             *)
(***************************************************************************)
RecordTypeOK ==
  /\ row \in [Rows -> [status : {"none", "uploaded", "verified", "shown", "deleted"}, version : 0..Cardinality(Rows), file : Files \cup {NoFile}]]
  /\ vault.there \subseteq vault.stored /\ vault.stored \subseteq Files
  /\ \A ph \in Stations : schedule[ph].shifted \in 0..Lost /\ (~schedule[ph].there => schedule[ph] = NoPhase)
  /\ shelf \in [Shelves -> {"none", "kept", "edited", "inactive"}]
  /\ workspace.link <= workspace.links /\ (workspace.inside => workspace.folder)

\* A live row loses its file only to a request about that very row, although
\* requests remove files by paths they read before others replaced or deleted
\* the row, write such paths back, and end between the file and the row
\* (removeVaultFile in documentMutation and in the handlers of portfolios, the
\* names of storeVaultFile).
Loses(r)      == Live(r) /\ row[r].file \in vault.there /\ row[r].file \notin vault'.there
OnlyOwnFiles  == [][\A r \in Rows : Loses(r) => \E p \in Clients : session[p].at \in {"remove", "old"} /\ session[p].id = r]_<<row, vault>>
=============================================================================
