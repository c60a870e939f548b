------------------------------ MODULE Accounts ------------------------------
(***************************************************************************)
(* The people around the projects: an account, its password, tokens and    *)
(* role, how often a client is answered, the mails the gateway owes, and   *)
(* the bookings and memberships that are checked, then inserted.           *)
(*                                                                         *)
(* There is no transaction here but the registration: each statement       *)
(* commits alone, and what it was decided on may be gone.                  *)
(***************************************************************************)
EXTENDS Gateway, Sequences

CONSTANTS
  MaxPassword, \* bound: passwords an account has had
  MaxTokens,   \* bound: sessions of the account
  MaxHits,     \* what the limiter allows in a window
  Mails,       \* bound: mails queued, by id
  Refused,     \* the mails the provider never takes
  Batch,       \* mails read by one tick (25)
  MaxFaults,   \* bound: crashes and failing calls of the provider
  Workers,     \* replicas that may run the scheduler
  Members,     \* bound: rows of firm_members
  Bookings,    \* bound: rows of notaris_consultations
  MaxPending   \* consultations a client may have pending

ASSUME MailsAreNats  == Mails \subseteq Nat
ASSUME FewAreRefused == IsFiniteSet(Refused) /\ Batch \in Nat /\ Cardinality(Refused) < Batch
ASSUME AccountBounds == MaxPassword \in Nat \ {0} /\ MaxTokens \in Nat /\ MaxHits \in Nat \ {0} /\ MaxFaults \in Nat

VARIABLES
  account,     \* users: password, suspension, role; there or not
  token,       \* personal_access_tokens: the password each was minted from
  reset,       \* password_reset_tokens: the code there is, 0 for none
  hits,        \* rate_limit_hits of one key in the window
  mail,        \* mail_outbox
  worker,      \* per replica: the mails its tick still has to send
  faults,      \* crashes and failures so far
  device,      \* push_subscriptions: one endpoint
  member,      \* firm_members, all of one firm, member and role
  proposal,    \* addenda that propose the member for a project, their status open
  profile,     \* the verification of the professional
  booking      \* notaris_consultations, all of one hour

accountVars == <<account, token, reset, hits, mail, worker, faults, device, member, proposal, profile, booking>>
identity    == <<account, token, reset>>
outbox      == <<mail, worker, faults>>
people      == <<device, member, proposal, profile, booking>>

Looks(p, s)  == Serve(p, s) /\ UNCHANGED <<accountVars, contested, booked>>
Replies(p)   == Done(p) /\ UNCHANGED <<contested, booked>>
Moves(p, at) == To(p, at) /\ UNCHANGED <<contested, booked>>
Person(rest) == UNCHANGED <<hits, outbox, people, rest>>

(***************************************************************************)
(* Registration, login, password, suspension.                              *)
(***************************************************************************)
\* User, profile and role are one transaction; the token is a statement of its own.
Register(p) ==
  /\ ~account.there
  /\ account' = [account EXCEPT !.there = TRUE]
  /\ Serve(p, [at |-> "mint", password |-> account.password])
  /\ Person(<<token, reset, contested, booked>>)

\* The password and the suspension are checked...
BeginLogin(p) ==
  /\ account.there /\ ~account.suspended
  /\ Looks(p, [at |-> "mint", password |-> account.password])

\* ...and the token minted, whatever either has become.
mintSanctumToken(p) ==
  /\ At(p, "mint") /\ Len(token) < MaxTokens
  /\ token' = Append(token, session[p].password)
  /\ Replies(p) /\ Person(<<account, reset>>)

Logout ==
  /\ token # <<>>
  /\ token' = Tail(token)
  /\ Person(<<account, reset, gatewayVars>>)

\* The old code is dropped, then the new one stored and mailed; of two requests
\* at the same time one mails a code that its failing INSERT did not store.
BeginForgot(p) ==
  /\ account.there
  /\ reset' = 0
  /\ Serve(p, [at |-> "forgot"])
  /\ Person(<<account, token, contested, booked>>)

ForgotPassword(p) ==
  /\ At(p, "forgot")
  /\ reset' = IF reset = 0 THEN account.password ELSE reset
  /\ Replies(p) /\ Person(<<account, token>>)

\* A code is read in one statement and deleted in another: it may serve twice.
BeginReset(p) == reset > 0 /\ Looks(p, [at |-> "password"])

ResetPassword(p) ==
  /\ At(p, "password") /\ account.password < MaxPassword
  /\ account' = [account EXCEPT !.password = @ + 1]
  /\ Moves(p, "code") /\ Person(<<token, reset>>)

DropCode(p) ==
  /\ At(p, "code")
  /\ reset' = 0
  /\ Moves(p, "tokens") /\ Person(<<account, token>>)

\* The last statement of a reset and of a suspension.
RevokeTokens(p) ==
  /\ At(p, "tokens")
  /\ token' = <<>>
  /\ Replies(p) /\ Person(<<account, reset>>)

BeginSuspend(p) == account.there /\ Looks(p, [at |-> "suspend", next |-> ~account.suspended])

AdminSuspendUser(p) ==
  /\ At(p, "suspend")
  /\ account' = [account EXCEPT !.suspended = session[p].next]
  /\ IF session[p].next THEN Moves(p, "tokens") ELSE Replies(p)
  /\ Person(<<token, reset>>)

\* The roles of the account are dropped, one is inserted, and the column set.
AdminUpdateUserRole(p, role) ==
  /\ account.there
  /\ account' = [account EXCEPT !.roles = {}]
  /\ Serve(p, [at |-> "grant", role |-> role])
  /\ Person(<<token, reset, contested, booked>>)

GrantRole(p) ==
  /\ At(p, "grant")
  /\ account' = [account EXCEPT !.roles = @ \cup {session[p].role}]
  /\ Moves(p, "role") /\ Person(<<token, reset>>)

SetRole(p) ==
  /\ At(p, "role")
  /\ account' = [account EXCEPT !.role = session[p].role]
  /\ Replies(p) /\ Person(<<token, reset>>)

IdentityNext ==
  \/ Logout
  \/ \E p \in Clients :
       \/ Register(p) \/ BeginLogin(p) \/ mintSanctumToken(p)
       \/ BeginForgot(p) \/ ForgotPassword(p)
       \/ BeginReset(p) \/ ResetPassword(p) \/ DropCode(p) \/ RevokeTokens(p)
       \/ BeginSuspend(p) \/ AdminSuspendUser(p)
       \/ (\E role \in {"user", "pm"} : AdminUpdateUserRole(p, role)) \/ GrantRole(p) \/ SetRole(p)

(***************************************************************************)
(* The limiter: count, then insert.                                        *)
(***************************************************************************)
\* Mutant: the count is read, and compared with nothing.
AllowAnyCount(p) == hits >= 0 /\ Looks(p, [at |-> "hit"])
Allow(p)         == hits < MaxHits /\ Looks(p, [at |-> "hit"])

Hit(p) ==
  /\ At(p, "hit")
  /\ hits' = hits + 1
  /\ Replies(p)
  /\ UNCHANGED <<identity, outbox, people>>

\* A hit leaves the window, and is pruned by the next request.
PassTime ==
  /\ hits > 0
  /\ hits' = hits - 1
  /\ UNCHANGED <<identity, outbox, people, gatewayVars>>

LimitNext == PassTime \/ \E p \in Clients : Allow(p) \/ Hit(p)

(***************************************************************************)
(* The outbox: the oldest mails not sent are sent one by one, each marked  *)
(* once the provider has taken it.  A crash in between sends a mail twice; *)
(* a mail the provider refuses stays, and is read again by every tick.     *)
(* This is a deployment with the key of a provider; without one a mail is  *)
(* logged and marked at once.                                              *)
(***************************************************************************)
Mailing(rest)  == UNCHANGED <<identity, hits, people, gatewayVars, rest>>
Unsent         == {m \in Mails : mail[m].queued /\ ~mail[m].sent}
Oldest(ms)     == {m \in ms : Cardinality({n \in ms : n < m}) < Batch}
Resting        == [at |-> "rest", left |-> {}]
MailOf(w)      == Min(worker[w].left)
Skip(w)        == worker' = [worker EXCEPT ![w] = IF Cardinality(@.left) = 1 THEN Resting ELSE [at |-> "send", left |-> @.left \ {Min(@.left)}]]

enqueueMail(m) ==
  /\ ~mail[m].queued
  /\ mail' = [mail EXCEPT ![m].queued = TRUE]
  /\ Mailing(<<worker, faults>>)

\* Mutant: a tick reads the oldest mail only.
SendOldestMail(w) ==
  /\ worker[w] = Resting /\ Unsent # {}
  /\ worker' = [worker EXCEPT ![w] = [at |-> "send", left |-> {Min(Unsent)}]]
  /\ Mailing(<<mail, faults>>)

SendQueuedMail(w) ==
  /\ worker[w] = Resting /\ Unsent # {}
  /\ worker' = [worker EXCEPT ![w] = [at |-> "send", left |-> Oldest(Unsent)]]
  /\ Mailing(<<mail, faults>>)

\* The provider takes the mail...
Deliver(w) ==
  /\ worker[w].at = "send" /\ MailOf(w) \notin Refused
  /\ mail' = [mail EXCEPT ![MailOf(w)].taken = TRUE]
  /\ worker' = [worker EXCEPT ![w].at = "mark"]
  /\ Mailing(faults)

\* ...and it is marked, its error cleared.
MarkSent(w) ==
  /\ worker[w].at = "mark"
  /\ mail' = [mail EXCEPT ![MailOf(w)].sent = TRUE, ![MailOf(w)].error = FALSE]
  /\ Skip(w)
  /\ Mailing(faults)

\* Mutant: a mail the provider refused is marked too.
RefuseAndMark(w) ==
  /\ worker[w].at = "send" /\ MailOf(w) \in Refused
  /\ mail' = [mail EXCEPT ![MailOf(w)].sent = TRUE]
  /\ Skip(w)
  /\ Mailing(faults)

Refuse(w) ==
  /\ worker[w].at = "send" /\ MailOf(w) \in Refused
  /\ mail' = [mail EXCEPT ![MailOf(w)].error = TRUE]
  /\ Skip(w)
  /\ Mailing(faults)

\* The call fails for a while; the next tick tries again.
FailSending(w) ==
  /\ worker[w].at = "send" /\ faults < MaxFaults
  /\ mail' = [mail EXCEPT ![MailOf(w)].error = TRUE]
  /\ faults' = faults + 1
  /\ Skip(w)
  /\ Mailing(<<>>)

CrashWorker(w) ==
  /\ worker[w] # Resting /\ faults < MaxFaults
  /\ worker' = [worker EXCEPT ![w] = Resting]
  /\ faults' = faults + 1
  /\ Mailing(mail)

WorkerStep(w) == SendQueuedMail(w) \/ Deliver(w) \/ MarkSent(w) \/ Refuse(w)

MailNext ==
  \/ \E m \in Mails : enqueueMail(m)
  \/ \E w \in Workers : WorkerStep(w) \/ FailSending(w) \/ CrashWorker(w)

(***************************************************************************)
(* Devices, firms and consultations.                                       *)
(***************************************************************************)
Peoples(rest) == UNCHANGED <<identity, hits, outbox, rest>>

BeginSubscribe(p) == Looks(p, [at |-> "subscribe", known |-> device])

\* A device known by then is updated, if it is still there.
PushSubscribe(p) ==
  /\ At(p, "subscribe")
  /\ device' = (device \/ ~session[p].known)
  /\ Replies(p) /\ Peoples(<<member, proposal, profile, booking>>)

\* The user unsubscribes, or the push service answers that the device is gone.
PushUnsubscribe == device' = FALSE /\ Peoples(<<member, proposal, profile, booking, gatewayVars>>)

SetMember(m, status) == member' = [member EXCEPT ![m] = status] /\ Peoples(<<device, proposal, profile, booking>>)
Connected            == \E m \in Members : member[m] \in {"invited", "requested", "active"}

\* The firm invites, or the professional asks to join: none may be open yet.
BeginInvite(p, status) == ~Connected /\ Looks(p, [at |-> "invite", status |-> status])
FirmMembersInvite(p, m) ==
  /\ At(p, "invite") /\ member[m] = "none"
  /\ SetMember(m, session[p].status) /\ Replies(p)

\* Either side answers, whatever the status is; an owner cancels an invitation
\* and removes an active member by a status read before.
FirmMembersRespond(m, accept) ==
  /\ member[m] # "none"
  /\ SetMember(m, IF accept THEN "active" ELSE "removed")
  /\ UNCHANGED gatewayVars

BeginCancel(p, m) == member[m] \in {"invited", "active"} /\ Looks(p, [at |-> "cancel", id |-> m, status |-> member[m]])
FirmMembersCancel(p) ==
  /\ At(p, "cancel") /\ member[session[p].id] # "none"
  /\ SetMember(session[p].id, IF session[p].status = "invited" THEN "none" ELSE "removed")
  /\ Replies(p)

\* A firm proposes its member for a project of its own, if none is proposed yet.
BeginQuickAssign(p) ==
  /\ \E m \in Members : member[m] = "active"
  /\ ~contested /\ proposal = 0
  /\ Looks(p, [at |-> "assign"])

QuickAssign(p) ==
  /\ At(p, "assign")
  /\ proposal' = proposal + 1
  /\ Replies(p) /\ Peoples(<<device, member, profile, booking>>)

\* New papers of a professional are pending, unless verified by then.
ensureProfile ==
  /\ profile = "none"
  /\ profile' = "unverified"
  /\ Peoples(<<device, member, proposal, booking, gatewayVars>>)

maybeVerify ==
  /\ profile \notin {"none", "verified"}
  /\ profile' = "pending"
  /\ Peoples(<<device, member, proposal, booking, gatewayVars>>)

AdminUpdateProfessionalStatus(status) ==
  /\ profile # "none"
  /\ profile' = status
  /\ Peoples(<<device, member, proposal, booking, gatewayVars>>)

SetBooking(b, status) == booking' = [booking EXCEPT ![b] = status] /\ Peoples(<<device, member, proposal, profile>>)
Held(statuses)        == {b \in Bookings : booking[b] \in statuses}

BeginConsult(p) ==
  /\ Held({"pending", "confirmed"}) = {} /\ Cardinality(Held({"pending"})) < MaxPending
  /\ Looks(p, [at |-> "consult"])
StoreConsultation(p, b) ==
  /\ At(p, "consult") /\ booking[b] = "none"
  /\ SetBooking(b, "pending") /\ Replies(p)

\* What the notary may do with a booking, by the status it had.
Answers(status) ==
  CASE status = "pending"   -> {"confirmed", "cancelled"}
    [] status = "confirmed" -> {"confirmed", "cancelled", "completed"}
    [] OTHER                -> {}

BeginRespond(p, b, status) == status \in Answers(booking[b]) /\ Looks(p, [at |-> "respond", id |-> b, status |-> status])
RespondConsultation(p)     == At(p, "respond") /\ SetBooking(session[p].id, session[p].status) /\ Replies(p)

PeopleNext ==
  \/ PushUnsubscribe
  \/ \E m \in Members, accept \in BOOLEAN : FirmMembersRespond(m, accept)
  \/ \E p \in Clients :
       \/ BeginSubscribe(p) \/ PushSubscribe(p)
       \/ \E status \in {"invited", "requested"} : BeginInvite(p, status)
       \/ \E m \in Members : FirmMembersInvite(p, m) \/ BeginCancel(p, m)
       \/ FirmMembersCancel(p) \/ BeginQuickAssign(p) \/ QuickAssign(p)

BookingNext ==
  \/ ensureProfile \/ maybeVerify \/ \E status \in {"pending", "verified", "rejected"} : AdminUpdateProfessionalStatus(status)
  \/ \E p \in Clients :
    \/ BeginConsult(p) \/ RespondConsultation(p)
    \/ \E b \in Bookings : StoreConsultation(p, b) \/ \E status \in {"confirmed", "cancelled", "completed"} : BeginRespond(p, b, status)

AccountInit ==
  /\ account = [there |-> FALSE, password |-> 1, suspended |-> FALSE, role |-> "user", roles |-> {"user"}]
  /\ token = <<>> /\ reset = 0 /\ hits = 0
  /\ mail = [m \in Mails |-> [queued |-> FALSE, taken |-> FALSE, sent |-> FALSE, error |-> FALSE]]
  /\ worker = [w \in Workers |-> Resting] /\ faults = 0
  /\ device = FALSE
  /\ proposal = 0 /\ profile = "none"
  /\ member = [m \in Members |-> "none"] /\ booking = [b \in Bookings |-> "none"]

(***************************************************************************)
(* Properties.                                                             *)
(***************************************************************************)
AccountTypeOK ==
  /\ account.password \in 1..MaxPassword /\ account.suspended \in BOOLEAN /\ account.roles \subseteq {"user", "pm"}
  /\ Len(token) <= MaxTokens /\ \A i \in DOMAIN token : token[i] \in 1..account.password
  /\ reset \in 0..MaxPassword /\ hits \in Nat /\ faults \in 0..MaxFaults
  /\ \A m \in Mails : mail[m].sent => mail[m].queued /\ mail[m].taken
  /\ \A w \in Workers : worker[w].left \subseteq Mails /\ (worker[w].at = "rest") = (worker[w].left = {})
  /\ device \in BOOLEAN /\ proposal \in 0..Cardinality(Clients)
  /\ profile \in {"none", "unverified", "pending", "verified", "rejected"}
  /\ member \in [Members -> {"none", "invited", "requested", "active", "removed"}]
  /\ booking \in [Bookings -> {"none", "pending", "confirmed", "cancelled", "completed"}]

\* Requests that count before any of them inserts exceed the limit, by one for
\* each of the others at most (PgLimiter.Allow).
RateIsBounded == hits < MaxHits + Cardinality(Clients)

\* Each mail the provider takes is marked sent in the end, through crashes and
\* failing calls, as long as fewer mails than a tick reads are refused
\* (SendQueuedMail).
MailIsSent == \A m \in Mails \ Refused : mail[m].queued ~> mail[m].sent
=============================================================================
