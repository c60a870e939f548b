---------------------------- MODULE ContractsProofs ----------------------------
(***************************************************************************)
(* For every number of clients, bids, engineers and vendors, every price   *)
(* and every limit of rounds: one professional is hired for a role, one    *)
(* plan is left of a contract, the plan in force is the plan both have     *)
(* signed, a paid fee has been booked, what is booked fits the ceiling,    *)
(* and a frozen project can still be answered.                             *)
(*                                                                         *)
(* ContractsInv is what every step preserves.  Three facts carry it:       *)
(* hiring and the replacement of a plan happen under a lock, so only one   *)
(* request at a time is between its decision and its write; a row of a     *)
(* sub-professional stays in use, whoever it names; and an answered        *)
(* termination is never pending again.  The rows of stages have an         *)
(* invariant of their own, StagesInv, which needs none of this.            *)
(***************************************************************************)
EXTENDS MCContracts, StageMoneyProofs, LedgerSumProofs

Hires    == {"bidding", "pm", "negotiation", "signing", "fees"}
Teamwork == {"subs", "engineering"}
Ends     == {"deals", "endings"}

(***************************************************************************)
(* What a request holds.                                                   *)
(***************************************************************************)
Held      == {"hire", "decline"}
BidPoints == {"submit", "acceptInvite", "shortlist", "propose", "confirm", "acceptPM", "clientSign", "bidProof"} \cup Held
\* A request that signs, before and after it has replaced the plan.
Signing   == {"replaced", "signed"}

\* A request of hiring: its bid exists; while it negotiates there are rounds
\* left; while it signs it carries the copies of the plan it found.
HireSession(s) ==
  /\ s.at \in {"idle", "negotiate", "sign", "verifyPayment", "terminated", "resigned"} \cup BidPoints \cup Signing
  /\ s.at \in BidPoints \cup Signing \cup {"negotiate", "sign"} => s.id \in Bids
  /\ s.at \in {"negotiate", "propose"} => s.side \in Sides
  /\ s.at = "negotiate" => s.rounds \in 0..MaxRounds /\ s.rounds < MaxRounds
  /\ s.at = "sign" => s.value \in Prices
  /\ s.at \in Signing => s \in [at : Signing, id : Bids, value : Prices, old : SUBSET [by : Bids, copy : Clients, value : Prices]]

Verbs == {"accept", "decline", "interview", "recommend", "hire"}

\* A request about teams or vendors: the row it read is still in use, whoever it
\* names by now.
TeamSession(s) ==
  /\ s.at \in {"idle", "assign", "import"} \cup Verbs
  /\ s.at = "assign" => s.user \in Engineers /\ \A i \in s.rows : i \in Subs /\ Used(i)
  /\ s.at \in Verbs => s.id \in Subs /\ s.user \in Engineers /\ Used(s.id)
  /\ s.at = "import" => s.id \in Vendors /\ s.fee \in Fees

\* A request about the end of a project; a termination it will escalate has
\* been answered.
ExitSession(s) ==
  /\ "at" \in DOMAIN s
  /\ s.at \in {"idle", "initiate", "respond", "escalate", "escalated", "dispute", "complete", "destroy", "part"}
  /\ s.at = "initiate" => s.who \in Parties
  /\ s.at = "respond" => s.id \in Deals /\ s.answer \in Answers /\ deal[s.id].status # "none"
  /\ s.at = "escalate" => s.id \in Deals /\ deal[s.id].status \notin {"none", "pending"}

Sessions ==
  /\ session = [p \in Clients |-> session[p]]
  /\ topic \in Hires => \A p \in Clients : HireSession(session[p])
  /\ topic \in Teamwork => \A p \in Clients : TeamSession(session[p])
  /\ topic \in Ends => \A p \in Clients : ExitSession(session[p])

(***************************************************************************)
(* The locks of hiring and of the signatures, and what they protect.       *)
(***************************************************************************)
Locks ==
  /\ \A p, q \in Clients : session[p].at \in Held /\ session[q].at \in Held => p = q
  /\ \A p, q \in Clients : At(p, "signed") /\ At(q, "signed") /\ session[p].id = session[q].id => p = q
  /\ \A p \in Clients : At(p, "hire") => hired = Nobody /\ topic # "fees"
  /\ \A p \in Clients : At(p, "signed") => Copies(plan, session[p].id) \subseteq session[p].old

\* Two plans in force belong to two contracts.
OnePlan == \A t, u \in plan : t.by = u.by => t = u

BidRow == [status : BidStatus, pay : PayStatus, price : Prices \cup {0}, offered : Sides \cup {"none"},
           agreed : BOOLEAN, recommended : BOOLEAN, rounds : 0..MaxRounds, signed : BOOLEAN]

\* The rows of hiring: plans and snapshots are written by the topic of signing
\* only, and fees by the topic of fees.
HireRows ==
  /\ HiringTypeOK /\ bid \in [Bids -> BidRow]
  /\ topic # "signing" => plan = {} /\ snapshot = {}
  /\ topic = "signing" => role = "kontraktor"
  /\ topic # "fees" => \A b \in Bids : bid[b].pay = "unpaid"
  /\ OnePlan /\ SignedPlanIsPlan /\ BidPaidIsBooked

\* The rows of teams: one that is in use names an engineer.
TeamRows ==
  /\ TeamTypeOK
  /\ \A i \in Subs : Used(i) => sub[i].user \in Engineers

\* The rows of exits, with the property about the freeze.
ExitRows == ExitTypeOK /\ FreezeHasPending

\* The inductive invariant.
ContractsInv ==
  /\ topic \in Hires \cup Teamwork \cup Ends \cup {"stages"}
  /\ Sessions /\ HireRows /\ TeamRows /\ ExitRows
  /\ topic \in Hires => Locks
  /\ booked \in [References -> Nat] /\ contested \in BOOLEAN

(***************************************************************************)
(* Hiring: frames.                                                         *)
(***************************************************************************)
LEMMA MinIn == ASSUME NEW S \in SUBSET Nat, S # {} PROVE Min(S) \in S
<1>1. PICK s \in S : \A t \in S : <<t, s>> \notin OpToRel(<, Nat)
  BY NatLessThanWellFounded, WFMin
<1>2. ASSUME NEW t \in S PROVE s <= t
  <2>1. ~(t < s)
    BY <1>1 DEF OpToRel
  <2>2. QED
    BY <2>1
<1>3. QED
  BY <1>2 DEF Min

LEMMA TeamRowsStill == ASSUME ContractsInv, UNCHANGED teamVars PROVE TeamRows'
BY DEF ContractsInv, TeamRows, TeamTypeOK, teamVars, engineering, Used

LEMMA ExitRowsStill == ASSUME ContractsInv, UNCHANGED exitVars PROVE ExitRows'
BY DEF ContractsInv, ExitRows, ExitTypeOK, exitVars, FreezeHasPending, Frozen

LEMMA HireRowsStill == ASSUME ContractsInv, UNCHANGED <<hireVars, booked, topic>> PROVE HireRows'
BY DEF ContractsInv, HireRows, HiringTypeOK, OnePlan, SignedPlanIsPlan, BidPaidIsBooked, hireVars, market, contract, Copies

\* What a step of hiring leaves alone.
HireKeeps ==
  /\ topic \in Hires /\ UNCHANGED <<teamVars, exitVars, topic>>
  /\ booked' \in [References -> Nat] /\ contested' \in BOOLEAN

LEMMA HireStep ==
  ASSUME ContractsInv, HireKeeps, NEW p \in Clients, NEW s, session' = [session EXCEPT ![p] = s],
         HireSession(s), HireRows', Locks'
  PROVE  ContractsInv'
<1>1. session' = [q \in Clients |-> session'[q]]
  BY DEF ContractsInv, Sessions
<1>2. ASSUME NEW q \in Clients PROVE HireSession(session'[q])
  <2>1. CASE q = p
    BY <2>1 DEF ContractsInv, Sessions
  <2>2. CASE q # p
    <3>1. session'[q] = session[q]
      BY <2>2 DEF ContractsInv, Sessions
    <3>2. QED
      BY <3>1 DEF ContractsInv, Sessions, HireKeeps
  <2>3. QED
    BY <2>1, <2>2
<1>3. topic' \in Hires /\ topic' \notin Teamwork /\ topic' \notin Ends
  BY DEF HireKeeps, Hires, Teamwork, Ends
<1>4. Sessions'
  BY <1>1, <1>2, <1>3 DEF Sessions
<1>5. QED
  BY <1>3, <1>4, TeamRowsStill, ExitRowsStill DEF ContractsInv, HireKeeps

LEMMA HireStepAlone ==
  ASSUME ContractsInv, HireKeeps, UNCHANGED session, HireRows', Locks'
  PROVE  ContractsInv'
<1>1. topic' \in Hires /\ topic' \notin Teamwork /\ topic' \notin Ends
  BY DEF HireKeeps, Hires, Teamwork, Ends
<1>2. Sessions'
  BY <1>1 DEF ContractsInv, Sessions, HireKeeps
<1>3. QED
  BY <1>1, <1>2, TeamRowsStill, ExitRowsStill DEF ContractsInv, HireKeeps

\* A request that takes no lock leaves the locks and what they protect to the others.
LEMMA LocksKept ==
  ASSUME ContractsInv, topic \in Hires, UNCHANGED topic, NEW p \in Clients, NEW s, session' = [session EXCEPT ![p] = s],
         s.at \notin Held \cup {"signed"},
         hired' = hired \/ \A q \in Clients \ {p} : ~At(q, "hire"),
         \A q \in Clients \ {p} : At(q, "signed") => Copies(plan', session[q].id) \subseteq session[q].old
  PROVE  Locks'
<1>1. Locks
  BY DEF ContractsInv
<1>2. session'[p] = s /\ \A q \in Clients \ {p} : session'[q] = session[q]
  BY DEF ContractsInv, Sessions
<1>3. \A q \in Clients : session'[q].at \in Held \cup {"signed"} => q # p /\ session'[q] = session[q]
  BY <1>2
<1>4. QED
  BY <1>1, <1>2, <1>3 DEF Locks, At, Held

LEMMA LocksStill ==
  ASSUME ContractsInv, topic \in Hires, UNCHANGED <<session, plan, topic>>,
         hired' = hired \/ \A q \in Clients : ~At(q, "hire")
  PROVE  Locks'
BY DEF ContractsInv, Locks, At, Copies

LEMMA PlanCopied ==
  ASSUME ContractsInv, topic \in Hires, NEW q \in Clients, At(q, "signed"), plan' \subseteq plan
  PROVE  Copies(plan', session[q].id) \subseteq session[q].old
BY DEF ContractsInv, Locks, Copies

LEMMA IdleIsHire == HireSession(Idle) /\ Idle.at \notin Held \cup {"signed"}
BY DEF HireSession, Idle, BidPoints, Signing, Held

\* The last step of a request.
LEMMA HireDone ==
  ASSUME ContractsInv, HireKeeps, NEW p \in Clients, Done(p), HireRows',
         hired' = hired \/ \A q \in Clients \ {p} : ~At(q, "hire"),
         \A q \in Clients \ {p} : At(q, "signed") => Copies(plan', session[q].id) \subseteq session[q].old
  PROVE  ContractsInv'
<1>1. PICK s : s = Idle
  OBVIOUS
<1>2. session' = [session EXCEPT ![p] = s] /\ HireSession(s) /\ s.at \notin Held \cup {"signed"}
  BY <1>1, IdleIsHire DEF Done
<1>3. Locks'
  BY <1>2, LocksKept DEF HireKeeps
<1>4. QED
  BY <1>2, <1>3, HireStep

\* A request that only reads, and takes no lock.
LEMMA HireReads ==
  ASSUME ContractsInv, topic \in Hires, NEW p \in Clients, NEW s, Serve(p, s), HireSession(s),
         s.at \notin Held \cup {"signed"},
         UNCHANGED <<hireVars, contested, booked>>, UNCHANGED <<teamVars, exitVars, topic>>
  PROVE  ContractsInv'
<1>1. HireKeeps
  BY DEF HireKeeps, ContractsInv
<1>2. session' = [session EXCEPT ![p] = s] /\ hired' = hired /\ plan' = plan
  BY DEF Serve, hireVars, contract
<1>3. Locks'
  BY <1>2, LocksKept, PlanCopied
<1>4. QED
  BY <1>1, <1>2, <1>3, HireRowsStill, HireStep

\* A request that takes the lock of the project.
LEMMA HireLocks ==
  ASSUME ContractsInv, topic \in Hires, NEW p \in Clients, NEW s, Serve(p, s), HireSession(s), Unlocked,
         s.at \in Held, s.at = "hire" => hired = Nobody /\ topic # "fees",
         UNCHANGED <<hireVars, contested, booked>>, UNCHANGED <<teamVars, exitVars, topic>>
  PROVE  ContractsInv'
<1>1. HireKeeps
  BY DEF HireKeeps, ContractsInv
<1>2. session' = [session EXCEPT ![p] = s] /\ hired' = hired /\ plan' = plan
  BY DEF Serve, hireVars, contract
<1>3. session'[p] = s /\ \A q \in Clients \ {p} : session'[q] = session[q] /\ session[q].at \notin Held
  BY <1>2 DEF ContractsInv, Sessions, Unlocked, Held
<1>4. Locks'
  BY <1>2, <1>3 DEF ContractsInv, Locks, At, Held, Copies
<1>5. QED
  BY <1>1, <1>2, <1>4, HireRowsStill, HireStep

HireBegins(p) ==
  \E b \in Bids :
    \/ BeginSubmit(p, b) \/ BeginAcceptInvite(p, b) \/ BeginShortlist(p, b) \/ BeginDecline(p, b) \/ BeginAcceptPM(p, b)
    \/ \E byPM \in BOOLEAN : topic # "fees" /\ BeginAccept(p, b, byPM)
    \/ \E side \in Sides : BeginNegotiate(p, b, side) \/ BeginPropose(p, b, side) \/ BeginConfirm(p, b, side)
    \/ BeginSign(p, b) \/ BeginClientSign(p, b) \/ BeginBidProof(p, b)

LEMMA ValueSigned == ASSUME ContractsInv, ContractValue > 0 PROVE ContractValue \in Prices
<1> DEFINE those == {b \in Bids : bid[b].status \in Contracted}
<1>1. those # {} => Min(those) \in Bids
  <2>1. those \in SUBSET Nat /\ those \subseteq Bids
    BY BidsAreRefs, ReferencesAreNats
  <2> HIDE DEF those
  <2>2. QED
    BY <2>1, MinIn
<1>2. those # {} => bid[Min(those)].price \in Prices \cup {0}
  BY <1>1 DEF ContractsInv, HireRows, BidRow
<1>3. ContractValue = IF those = {} THEN 0 ELSE bid[Min(those)].price
  BY DEF ContractValue
<1> HIDE DEF those
<1>4. QED
  BY <1>2, <1>3

LEMMA HireBegin ==
  ASSUME ContractsInv, NEW p \in Clients, topic \in Hires, UNCHANGED <<teamVars, exitVars, topic>>, HireBegins(p)
  PROVE  ContractsInv'
<1>1. PICK b \in Bids :
        \/ BeginSubmit(p, b) \/ BeginAcceptInvite(p, b) \/ BeginShortlist(p, b) \/ BeginDecline(p, b) \/ BeginAcceptPM(p, b)
        \/ \E byPM \in BOOLEAN : topic # "fees" /\ BeginAccept(p, b, byPM)
        \/ \E side \in Sides : BeginNegotiate(p, b, side) \/ BeginPropose(p, b, side) \/ BeginConfirm(p, b, side)
        \/ BeginSign(p, b) \/ BeginClientSign(p, b) \/ BeginBidProof(p, b)
  BY DEF HireBegins
<1>2. UNCHANGED <<hireVars, contested, booked>>
  BY <1>1 DEF BeginSubmit, BeginAcceptInvite, BeginShortlist, BeginDecline, BeginAcceptPM, BeginAccept, BeginNegotiate,
              BeginPropose, BeginConfirm, BeginSign, BeginClientSign, BeginBidProof, Read
<1>3. ASSUME NEW s, Serve(p, s), HireSession(s), s.at \notin Held \cup {"signed"} PROVE ContractsInv'
  BY <1>2, <1>3, HireReads
<1>4. ASSUME NEW point \in {"acceptInvite", "shortlist", "acceptPM", "clientSign", "bidProof"}, Read(p, point, b) PROVE ContractsInv'
  <2>1. HireSession([at |-> point, id |-> b])
    BY DEF HireSession, BidPoints, Signing, Held
  <2>2. point \notin Held \cup {"signed"}
    BY DEF Held
  <2>3. QED
    BY <1>3, <1>4, <2>1, <2>2 DEF Read
<1> USE DEF HireSession, BidPoints, Signing, Held
<1>5. CASE BeginSubmit(p, b)
  <2>1. HireSession([at |-> "submit", id |-> b, new |-> ~Exists(b)])
    OBVIOUS
  <2>2. QED
    BY <1>3, <1>5, <2>1 DEF BeginSubmit
<1>6. CASE BeginAcceptInvite(p, b) \/ BeginShortlist(p, b) \/ BeginAcceptPM(p, b) \/ BeginClientSign(p, b) \/ BeginBidProof(p, b)
  BY <1>4, <1>6 DEF BeginAcceptInvite, BeginShortlist, BeginAcceptPM, BeginClientSign, BeginBidProof
<1>7. CASE BeginDecline(p, b)
  <2>1. HireSession([at |-> "decline", id |-> b])
    OBVIOUS
  <2>2. QED
    BY <1>2, <1>7, <2>1, HireLocks DEF BeginDecline, Read
<1>8. ASSUME NEW byPM \in BOOLEAN, topic # "fees", BeginAccept(p, b, byPM) PROVE ContractsInv'
  <2>1. HireSession([at |-> "hire", id |-> b, byPM |-> byPM, recommended |-> bid[b].recommended])
    OBVIOUS
  <2>2. QED
    BY <1>2, <1>8, <2>1, HireLocks DEF BeginAccept, Hireable
<1>9. ASSUME NEW side \in Sides, BeginNegotiate(p, b, side) PROVE ContractsInv'
  <2>1. bid[b].rounds \in 0..MaxRounds /\ bid[b].rounds < MaxRounds
    BY <1>9, PricesPositive DEF BeginNegotiate, ContractsInv, HireRows, BidRow
  <2>2. HireSession([at |-> "negotiate", id |-> b, rounds |-> bid[b].rounds, side |-> side])
    BY <2>1
  <2>3. QED
    BY <1>3, <1>9, <2>2 DEF BeginNegotiate
<1>10. ASSUME NEW side \in Sides, BeginPropose(p, b, side) \/ BeginConfirm(p, b, side) PROVE ContractsInv'
  <2>1. HireSession([at |-> "propose", id |-> b, side |-> side])
    OBVIOUS
  <2>2. ASSUME NEW x PROVE HireSession([at |-> "confirm", id |-> b, shortlists |-> x])
    OBVIOUS
  <2>3. QED
    BY <1>3, <1>10, <2>1, <2>2 DEF BeginPropose, BeginConfirm
<1>11. CASE BeginSign(p, b)
  <2>1. HireSession([at |-> "sign", id |-> b, value |-> ContractValue])
    BY <1>11, ValueSigned DEF BeginSign
  <2>2. QED
    BY <1>3, <1>11, <2>1 DEF BeginSign
<1>12. QED
  BY <1>1, <1>5, <1>6, <1>7, <1>8, <1>9, <1>10, <1>11

LEMMA HireBeginAlone ==
  ASSUME ContractsInv, NEW p \in Clients, topic \in Hires, UNCHANGED <<teamVars, exitVars, topic>>,
         BeginVerifyPayment(p) \/ \E end \in {"terminated", "resigned"} : BeginEnd(p, end)
  PROVE  ContractsInv'
<1>1. CASE BeginVerifyPayment(p)
  <2>1. PICK s : s = [at |-> "verifyPayment"]
    OBVIOUS
  <2>2. Serve(p, s) /\ HireSession(s) /\ s.at \notin Held \cup {"signed"} /\ UNCHANGED <<hireVars, contested, booked>>
    BY <1>1, <2>1 DEF BeginVerifyPayment, HireSession, BidPoints, Signing, Held
  <2>3. QED
    BY <2>2, HireReads
<1>2. ASSUME NEW end \in {"terminated", "resigned"}, BeginEnd(p, end) PROVE ContractsInv'
  <2>1. PICK s : s = [at |-> end, active |-> projectIs = "in_progress"]
    OBVIOUS
  <2>2. Serve(p, s) /\ HireSession(s) /\ s.at \notin Held \cup {"signed"} /\ UNCHANGED <<hireVars, contested, booked>>
    BY <1>2, <2>1 DEF BeginEnd, HireSession, BidPoints, Signing, Held
  <2>3. QED
    BY <2>2, HireReads
<1>3. QED
  BY <1>1, <1>2

(***************************************************************************)
(* Hiring: what is written to a bid.                                       *)
(***************************************************************************)
\* The row of one bid changes.
LEMMA OneRow ==
  ASSUME ContractsInv, NEW b \in Bids, NEW row \in BidRow, bid' = [bid EXCEPT ![b] = row]
  PROVE  bid' \in [Bids -> BidRow] /\ bid'[b] = row /\ \A c \in Bids \ {b} : bid'[c] = bid[c]
BY DEF ContractsInv, HireRows

LEMMA SomeRow == ASSUME ContractsInv, NEW b \in Bids PROVE bid[b] \in BidRow
BY DEF ContractsInv, HireRows

LEMMA StatusRow ==
  ASSUME ContractsInv, NEW b \in Bids, NEW s \in BidStatus
  PROVE  /\ [bid[b] EXCEPT !.status = s] \in BidRow
         /\ [bid[b] EXCEPT !.status = s].pay = bid[b].pay
         /\ [bid[b] EXCEPT !.status = s].price = bid[b].price
         /\ [bid[b] EXCEPT !.status = s].status = s
BY SomeRow DEF BidRow

LEMMA Turned ==
  ASSUME ContractsInv, NEW b \in Bids, NEW s \in {"rejected", "declined"}
  PROVE  /\ TurnDown(b, s) \in [Bids -> BidRow]
         /\ TurnDown(b, s)[b] = bid[b]
         /\ \A c \in Bids \ {b} : /\ TurnDown(b, s)[c].status \notin Contracted
                                  /\ TurnDown(b, s)[c].pay = bid[c].pay
                                  /\ TurnDown(b, s)[c].price = bid[c].price
<1>1. s \in BidStatus \ Contracted /\ "none" \notin Contracted
  BY DEF BidStatus, Contracted
<1>2. ASSUME NEW c \in Bids PROVE TurnDown(b, s)[c] = IF c = b \/ ~Exists(c) THEN bid[c] ELSE [bid[c] EXCEPT !.status = s]
  BY DEF TurnDown
<1>3. ASSUME NEW c \in Bids PROVE TurnDown(b, s)[c] \in BidRow
  <2>1. bid[c] \in BidRow /\ [bid[c] EXCEPT !.status = s] \in BidRow
    BY <1>1, SomeRow, StatusRow
  <2>2. QED
    BY <1>2, <2>1
<1>4. ASSUME NEW c \in Bids \ {b}
      PROVE  TurnDown(b, s)[c].status \notin Contracted /\ TurnDown(b, s)[c].pay = bid[c].pay /\ TurnDown(b, s)[c].price = bid[c].price
  <2>1. CASE ~Exists(c)
    BY <1>1, <1>2, <2>1 DEF Exists
  <2>2. CASE Exists(c)
    <3> DEFINE row == [bid[c] EXCEPT !.status = s]
    <3>1. row.status = s /\ row.pay = bid[c].pay /\ row.price = bid[c].price
      BY <1>1, StatusRow
    <3>2. TurnDown(b, s)[c] = row
      BY <1>2, <2>2
    <3> HIDE DEF row
    <3>3. QED
      BY <1>1, <3>1, <3>2
  <2>3. QED
    BY <2>1, <2>2
<1>5. DOMAIN TurnDown(b, s) = Bids /\ TurnDown(b, s) = [c \in Bids |-> TurnDown(b, s)[c]]
  BY DEF TurnDown
<1>6. TurnDown(b, s) \in [Bids -> BidRow]
  BY <1>3, <1>5
<1>7. QED
  BY <1>2, <1>4, <1>6

Early == {"bidding", "pm", "negotiation"}

LEMMA RowsWritten ==
  ASSUME ContractsInv, topic \in Hires, UNCHANGED <<market, topic>>, bid' \in [Bids -> BidRow],
         hired' \in Bids \cup {Nobody}, projectIs' \in ProjectIs, stagePaid' \in BOOLEAN, feeVerified' \in BOOLEAN,
         \A t \in plan' \cup snapshot' : t \in [by : Bids, copy : Clients, value : Prices],
         topic # "signing" => plan' = {} /\ snapshot' = {},
         topic # "fees" => \A b \in Bids : bid'[b].pay = "unpaid",
         OnePlan', SignedPlanIsPlan', BidPaidIsBooked'
  PROVE  HireRows'
<1>1. role' = role /\ managed' = managed /\ topic' = topic
  BY DEF market
<1>2. HiringTypeOK'
  BY <1>1 DEF ContractsInv, HireRows, HiringTypeOK, BidRow
<1>3. QED
  BY <1>1, <1>2 DEF ContractsInv, HireRows

\* Before a contract is signed nothing is planned and nothing is paid.
LEMMA EarlyWritten ==
  ASSUME ContractsInv, topic \in Early, UNCHANGED <<market, contract, feeVerified, topic>>,
         bid' \in [Bids -> BidRow], \A b \in Bids : bid'[b].pay = "unpaid",
         hired' \in Bids \cup {Nobody}, projectIs' \in ProjectIs
  PROVE  HireRows'
<1>1. plan' = {} /\ snapshot' = {} /\ stagePaid' \in BOOLEAN /\ feeVerified' \in BOOLEAN
  BY DEF ContractsInv, HireRows, HiringTypeOK, contract, Early
<1>2. OnePlan' /\ SignedPlanIsPlan' /\ BidPaidIsBooked'
  BY <1>1 DEF OnePlan, SignedPlanIsPlan, BidPaidIsBooked, Copies
<1>3. topic \in Hires
  BY DEF Hires, Early
<1>4. QED
  BY <1>1, <1>2, <1>3, RowsWritten

\* A request, or an action of one statement, writes one bid.
LEMMA EarlyBid ==
  ASSUME ContractsInv, topic \in Early, UNCHANGED <<teamVars, exitVars, topic>>, OnlyBid,
         NEW b \in Bids, NEW row \in BidRow, row.pay = "unpaid",
         bid' = [bid EXCEPT ![b] = row] \/ bid' = bid,
         (\E p \in Clients : Done(p)) \/ UNCHANGED session
  PROVE  ContractsInv'
<1>1. topic \in Hires
  BY DEF Hires, Early
<1>2. bid' \in [Bids -> BidRow] /\ \A c \in Bids : bid'[c].pay = "unpaid"
  <2>1. \A c \in Bids : bid[c].pay = "unpaid"
    BY DEF ContractsInv, HireRows, Early
  <2>2. CASE bid' = bid
    BY <2>1, <2>2 DEF ContractsInv, HireRows
  <2>3. CASE bid' = [bid EXCEPT ![b] = row]
    BY <2>1, <2>3, OneRow
  <2>4. QED
    BY <2>2, <2>3
<1>3. HireRows'
  BY <1>2, EarlyWritten DEF OnlyBid, ContractsInv, HireRows, HiringTypeOK
<1>4. HireKeeps
  BY <1>1 DEF HireKeeps, OnlyBid, ContractsInv
<1>5. hired' = hired /\ plan' = plan
  BY DEF OnlyBid, contract
<1>6. CASE UNCHANGED session
  BY <1>1, <1>3, <1>4, <1>5, <1>6, LocksStill, HireStepAlone
<1>7. ASSUME NEW p \in Clients, Done(p) PROVE ContractsInv'
  BY <1>1, <1>3, <1>4, <1>5, <1>7, PlanCopied, HireDone
<1>8. QED
  BY <1>6, <1>7

LEMMA BidOf ==
  ASSUME ContractsInv, topic \in Hires, NEW p \in Clients, session[p].at \in BidPoints \cup Signing \cup {"negotiate", "sign"}
  PROVE  session[p].id \in Bids /\ HireSession(session[p])
BY DEF ContractsInv, Sessions, HireSession

LEMMA NoBidRow == NoBid \in BidRow
<1>1. 0 \in 0..MaxRounds
  BY PricesPositive
<1>2. QED
  BY <1>1 DEF NoBid, BidRow, BidStatus, PayStatus

LEMMA BidStep ==
  ASSUME ContractsInv, topic \in {"bidding", "pm"}, UNCHANGED <<teamVars, exitVars, topic>>, BidNext
  PROVE  ContractsInv'
<1>1. topic \in Early /\ topic \in Hires
  BY DEF Early, Hires
<1>2. ASSUME NEW b \in Bids PROVE bid[b] \in BidRow /\ bid[b].pay = "unpaid"
  BY <1>1, SomeRow DEF ContractsInv, HireRows, Early
<1>3. ASSUME NEW b \in Bids, NEW s \in BidStatus, SetStatus(b, s), OnlyBid, (\E p \in Clients : Done(p)) \/ UNCHANGED session
      PROVE  ContractsInv'
  <2>1. [bid[b] EXCEPT !.status = s] \in BidRow /\ [bid[b] EXCEPT !.status = s].pay = "unpaid"
    BY <1>2, StatusRow
  <2>2. bid' = [bid EXCEPT ![b] = [bid[b] EXCEPT !.status = s]]
    BY <1>3 DEF SetStatus, SetBid
  <2>3. QED
    BY <1>1, <1>3, <2>1, <2>2, EarlyBid
<1>4. ASSUME NEW b \in Bids, InviteProfessional(b) PROVE ContractsInv'
  <2>1. [NoBid EXCEPT !.status = "invited"] \in BidRow
    BY NoBidRow DEF BidRow, BidStatus
  <2>2. [NoBid EXCEPT !.status = "invited"].pay = "unpaid"
    BY DEF NoBid
  <2>3. QED
    BY <1>1, <1>4, <2>1, <2>2, EarlyBid DEF InviteProfessional
<1>5. ASSUME NEW b \in Bids, RejectInvite(b) PROVE ContractsInv'
  BY <1>3, <1>5 DEF RejectInvite, BidStatus
<1>6. ASSUME NEW p \in Clients, NEW b \in Bids,
             BeginSubmit(p, b) \/ BeginAcceptInvite(p, b) \/ BeginShortlist(p, b) \/ BeginDecline(p, b)
      PROVE  ContractsInv'
  BY <1>1, <1>6, HireBegin DEF HireBegins
<1>7. ASSUME NEW p \in Clients, NEW price \in Prices, SubmitProjectBid(p, price) PROVE ContractsInv'
  <2>1. session[p].id \in Bids
    BY <1>1, <1>7, BidOf DEF SubmitProjectBid, At, BidPoints
  <2>2. PICK b \in Bids : b = session[p].id
    BY <2>1
  <2>3. [NoBid EXCEPT !.status = "pending", !.price = price] \in BidRow
    BY NoBidRow DEF BidRow, BidStatus
  <2>4. [NoBid EXCEPT !.status = "pending", !.price = price].pay = "unpaid"
    BY DEF NoBid
  <2>5. [bid[b] EXCEPT !.status = "pending", !.price = price] \in BidRow
    BY <1>2 DEF BidRow, BidStatus
  <2>6. [bid[b] EXCEPT !.status = "pending", !.price = price].pay = "unpaid"
    BY <1>2 DEF BidRow
  <2>7. \E row \in BidRow : row.pay = "unpaid" /\ (bid' = [bid EXCEPT ![b] = row] \/ bid' = bid)
    BY <1>7, <2>2, <2>3, <2>4, <2>5, <2>6 DEF SubmitProjectBid, SetBid
  <2>8. OnlyBid /\ Done(p)
    BY <1>7 DEF SubmitProjectBid
  <2>9. QED
    BY <1>1, <2>7, <2>8, EarlyBid
<1>8. ASSUME NEW p \in Clients, Shortlist(p) PROVE ContractsInv'
  <2>1. session[p].id \in Bids
    BY <1>1, <1>8, BidOf DEF Shortlist, BidPoints
  <2>2. QED
    BY <1>3, <1>8, <2>1 DEF Shortlist, BidStatus
<1>9. ASSUME NEW p \in Clients, DeclineBid(p) PROVE ContractsInv'
  <2>1. session[p].id \in Bids
    BY <1>1, <1>9, BidOf DEF DeclineBid, At, BidPoints, Held
  <2>2. QED
    BY <1>3, <1>9, <2>1 DEF DeclineBid, BidStatus
<1>10. QED
  BY <1>4, <1>5, <1>6, <1>7, <1>8, <1>9 DEF BidNext

LEMMA NegotiateStep ==
  ASSUME ContractsInv, topic = "negotiation", UNCHANGED <<teamVars, exitVars, topic>>, NegotiateNext
  PROVE  ContractsInv'
<1>1. topic \in Early /\ topic \in Hires
  BY DEF Early, Hires
<1>2. ASSUME NEW b \in Bids PROVE bid[b] \in BidRow /\ bid[b].pay = "unpaid"
  BY <1>1, SomeRow DEF ContractsInv, HireRows, Early
<1>3. ASSUME NEW p \in Clients, NEW b \in Bids, NEW side \in Sides,
             BeginNegotiate(p, b, side) \/ BeginPropose(p, b, side) \/ BeginConfirm(p, b, side)
      PROVE  ContractsInv'
  BY <1>1, <1>3, HireBegin DEF HireBegins
<1>4. ASSUME NEW p \in Clients, NEW price \in Prices, NegotiateBidFee(p, price) PROVE ContractsInv'
  <2>1. session[p].id \in Bids /\ HireSession(session[p]) /\ session[p].at = "negotiate"
    BY <1>1, <1>4, BidOf DEF NegotiateBidFee, At
  <2>2. PICK b \in Bids : b = session[p].id
    BY <2>1
  <2>3. PICK side \in Sides, n \in 0..MaxRounds : side = session[p].side /\ n = session[p].rounds + 1
    <3>1. session[p].side \in Sides /\ session[p].rounds \in 0..MaxRounds /\ session[p].rounds < MaxRounds
      BY <2>1 DEF HireSession
    <3>2. session[p].rounds + 1 \in 0..MaxRounds
      BY <3>1, PricesPositive
    <3>3. QED
      BY <3>1, <3>2
  <2> DEFINE row == [bid[b] EXCEPT !.status = "negotiating", !.price = price, !.offered = side, !.agreed = FALSE, !.rounds = n]
  <2>4. row \in BidRow
    BY <1>2 DEF BidRow, BidStatus
  <2>5. row.pay = "unpaid"
    BY <1>2 DEF BidRow
  <2>6. bid' = [bid EXCEPT ![b] = row] /\ Done(p) /\ OnlyBid
    BY <1>4, <2>2, <2>3 DEF NegotiateBidFee, SetBid
  <2> HIDE DEF row
  <2>7. QED
    BY <1>1, <2>4, <2>5, <2>6, EarlyBid
<1>5. ASSUME NEW p \in Clients, NEW price \in Prices, ProposeFee(p, price) PROVE ContractsInv'
  <2>1. session[p].id \in Bids /\ HireSession(session[p]) /\ session[p].at = "propose"
    BY <1>1, <1>5, BidOf DEF ProposeFee, At, BidPoints
  <2>2. PICK b \in Bids : b = session[p].id
    BY <2>1
  <2>3. PICK side \in Sides, n \in 0..MaxRounds : side = session[p].side /\ n = bid[b].rounds + 1
    <3>1. session[p].side \in Sides
      BY <2>1 DEF HireSession
    <3>2. bid[b].rounds \in 0..MaxRounds /\ bid[b].rounds < MaxRounds
      BY <1>2, <1>5, <2>2 DEF BidRow, ProposeFee
    <3>3. bid[b].rounds + 1 \in 0..MaxRounds
      BY <3>2, PricesPositive
    <3>4. QED
      BY <3>1, <3>3
  <2> DEFINE row == [bid[b] EXCEPT !.status = "negotiating", !.price = price, !.offered = side, !.rounds = n]
  <2>4. row \in BidRow
    BY <1>2 DEF BidRow, BidStatus
  <2>5. row.pay = "unpaid"
    BY <1>2 DEF BidRow
  <2>6. bid' = [bid EXCEPT ![b] = row] /\ Done(p) /\ OnlyBid
    BY <1>5, <2>2, <2>3 DEF ProposeFee, SetBid
  <2> HIDE DEF row
  <2>7. QED
    BY <1>1, <2>4, <2>5, <2>6, EarlyBid
<1>6. ASSUME NEW p \in Clients, ConfirmBidFee(p) PROVE ContractsInv'
  <2>1. session[p].id \in Bids
    BY <1>1, <1>6, BidOf DEF ConfirmBidFee, At, BidPoints
  <2>2. PICK b \in Bids : b = session[p].id
    BY <2>1
  <2>3. PICK st \in BidStatus : st = IF session[p].shortlists THEN "shortlisted" ELSE bid[b].status
    BY <1>2 DEF BidRow, BidStatus
  <2> DEFINE row == [bid[b] EXCEPT !.agreed = TRUE, !.status = st]
  <2>4. row \in BidRow
    BY <1>2 DEF BidRow
  <2>5. row.pay = "unpaid"
    BY <1>2 DEF BidRow
  <2>6. bid' = [bid EXCEPT ![b] = row] /\ Done(p) /\ OnlyBid
    BY <1>6, <2>2, <2>3 DEF ConfirmBidFee, SetBid
  <2> HIDE DEF row
  <2>7. QED
    BY <1>1, <2>4, <2>5, <2>6, EarlyBid
<1>7. QED
  BY <1>3, <1>4, <1>5, <1>6 DEF NegotiateNext

(***************************************************************************)
(* The hire.                                                               *)
(***************************************************************************)
\* However it ends, whoever is hired by it has still to sign.
LEMMA HireShape ==
  ASSUME ContractsInv, topic \in Hires \ {"fees"}, NEW p \in Clients, AcceptBid(p) \/ AcceptPMBid(p)
  PROVE  /\ bid' \in [Bids -> BidRow] /\ \A c \in Bids : bid'[c].pay = "unpaid"
         /\ hired' \in Bids \cup {Nobody} /\ projectIs' \in ProjectIs
         /\ hired' = Nobody \/ bid'[hired'].status = "contract_pending"
<1>1. bid \in [Bids -> BidRow] /\ (\A c \in Bids : bid[c] \in BidRow /\ bid[c].pay = "unpaid") /\ projectIs \in ProjectIs
  BY SomeRow DEF ContractsInv, HireRows, HiringTypeOK
<1>2. PICK b \in Bids : b = session[p].id
  BY BidOf DEF AcceptBid, AcceptPMBid, At, BidPoints, Held
<1>3. ASSUME NEW s \in {"rejected", "declined"}, NEW x \in BOOLEAN,
             bid' = [TurnDown(b, s) EXCEPT ![b].status = "contract_pending", ![b].agreed = x]
      PROVE  bid' \in [Bids -> BidRow] /\ (\A c \in Bids : bid'[c].pay = "unpaid") /\ bid'[b].status = "contract_pending"
  <2> DEFINE T == TurnDown(b, s)
             row == [T[b] EXCEPT !.status = "contract_pending", !.agreed = x]
  <2>1. T \in [Bids -> BidRow] /\ \A c \in Bids : T[c] \in BidRow /\ T[c].pay = "unpaid"
    BY <1>1, Turned
  <2>2. row \in BidRow /\ row.pay = "unpaid" /\ row.status = "contract_pending"
    <3> HIDE DEF T
    <3>1. QED
      BY <2>1 DEF BidRow, BidStatus
  <2>3. bid' = [T EXCEPT ![b] = row]
    <3> HIDE DEF T
    <3>1. T[b] \in BidRow
      BY <2>1
    <3>2. bid' = [T EXCEPT ![b].status = "contract_pending", ![b].agreed = x]
      BY <1>3 DEF T
    <3>3. QED
      BY <2>1, <3>1, <3>2 DEF BidRow
  <2> HIDE DEF T, row
  <2>4. QED
    BY <2>1, <2>2, <2>3
<1>4. CASE AcceptPMBid(p)
  <2>1. bid' = [TurnDown(b, "declined") EXCEPT ![b].status = "contract_pending"] /\ hired' = b /\ projectIs' = projectIs
    BY <1>2, <1>4 DEF AcceptPMBid
  <2> DEFINE T == TurnDown(b, "declined")
             row == [T[b] EXCEPT !.status = "contract_pending"]
  <2>2. T \in [Bids -> BidRow] /\ \A c \in Bids : T[c] \in BidRow /\ T[c].pay = "unpaid"
    BY <1>1, Turned
  <2>3. bid' = [T EXCEPT ![b] = row]
    BY <2>1
  <2>4. row \in BidRow /\ row.pay = "unpaid" /\ row.status = "contract_pending"
    <3> HIDE DEF T
    <3>1. QED
      BY <2>2 DEF BidRow, BidStatus
  <2> HIDE DEF T, row
  <2>5. QED
    BY <1>1, <2>1, <2>2, <2>3, <2>4
<1>5. CASE AcceptBid(p)
  <2>1. hired = Nobody
    BY <1>5 DEF AcceptBid, ContractsInv, Locks
  <2>2. \/ /\ bid' = bid \/ bid' = [bid EXCEPT ![b] = [bid[b] EXCEPT !.recommended = TRUE, !.agreed = TRUE]]
           /\ hired' = hired /\ projectIs' = projectIs
        \/ /\ bid' = [TurnDown(b, "rejected") EXCEPT ![b].status = "contract_pending", ![b].agreed = TRUE]
           /\ hired' = hired \/ hired' = b
           /\ projectIs' = projectIs \/ projectIs' = "in_progress"
    BY <1>2, <1>5 DEF AcceptBid, SetBid
  <2>3. CASE /\ bid' = bid \/ bid' = [bid EXCEPT ![b] = [bid[b] EXCEPT !.recommended = TRUE, !.agreed = TRUE]]
             /\ hired' = hired /\ projectIs' = projectIs
    <3> DEFINE row == [bid[b] EXCEPT !.recommended = TRUE, !.agreed = TRUE]
    <3>1. row \in BidRow /\ row.pay = "unpaid"
      BY <1>1 DEF BidRow
    <3> HIDE DEF row
    <3>2. bid' \in [Bids -> BidRow] /\ \A c \in Bids : bid'[c].pay = "unpaid"
      BY <1>1, <2>3, <3>1, OneRow DEF row
    <3>3. QED
      BY <1>1, <2>1, <2>3, <3>2
  <2>4. CASE /\ bid' = [TurnDown(b, "rejected") EXCEPT ![b].status = "contract_pending", ![b].agreed = TRUE]
             /\ hired' = hired \/ hired' = b
             /\ projectIs' = projectIs \/ projectIs' = "in_progress"
    <3>1. bid' \in [Bids -> BidRow] /\ (\A c \in Bids : bid'[c].pay = "unpaid") /\ bid'[b].status = "contract_pending"
      BY <1>3, <2>4
    <3>2. projectIs' \in ProjectIs
      BY <1>1, <2>4 DEF ProjectIs
    <3>3. QED
      BY <2>1, <2>4, <3>1, <3>2
  <2>5. QED
    BY <2>2, <2>3, <2>4
<1>6. QED
  BY <1>4, <1>5

LEMMA HireWrite ==
  ASSUME ContractsInv, topic \in Hires \ {"fees"}, UNCHANGED <<teamVars, exitVars, topic>>,
         NEW p \in Clients, AcceptBid(p) \/ AcceptPMBid(p)
  PROVE  ContractsInv'
<1>1. Done(p) /\ UNCHANGED <<market, contract, feeVerified, contested, booked>>
  BY DEF AcceptBid, AcceptPMBid
<1>2. \A q \in Clients \ {p} : ~At(q, "hire")
  <2>1. CASE AcceptPMBid(p)
    BY <2>1 DEF AcceptPMBid, Unlocked, At
  <2>2. CASE AcceptBid(p)
    BY <2>2 DEF AcceptBid, ContractsInv, Locks, At, Held
  <2>3. QED
    BY <2>1, <2>2
<1>3. HireKeeps
  BY <1>1 DEF HireKeeps, ContractsInv
<1>4. HireRows'
  <2>1. SignedPlanIsPlan'
    BY HireShape, BidsAreRefs DEF SignedPlanIsPlan
  <2>2. OnePlan' /\ BidPaidIsBooked'
    BY <1>1, HireShape DEF OnePlan, BidPaidIsBooked, ContractsInv, HireRows, contract
  <2>3. /\ \A t \in plan' \cup snapshot' : t \in [by : Bids, copy : Clients, value : Prices]
        /\ topic # "signing" => plan' = {} /\ snapshot' = {}
        /\ stagePaid' \in BOOLEAN /\ feeVerified' \in BOOLEAN
    BY <1>1 DEF ContractsInv, HireRows, HiringTypeOK, contract
  <2>4. QED
    BY <1>1, <2>1, <2>2, <2>3, HireShape, RowsWritten
<1>5. plan' = plan
  BY <1>1 DEF contract
<1>6. QED
  BY <1>1, <1>2, <1>3, <1>4, <1>5, PlanCopied, HireDone

LEMMA HireNextStep ==
  ASSUME ContractsInv, topic \in Hires \ {"fees"}, UNCHANGED <<teamVars, exitVars, topic>>, HireNext
  PROVE  ContractsInv'
<1>1. ASSUME NEW p \in Clients, NEW b \in Bids, (\E byPM \in BOOLEAN : BeginAccept(p, b, byPM)) \/ BeginAcceptPM(p, b)
      PROVE  ContractsInv'
  BY <1>1, HireBegin DEF HireBegins
<1>2. ASSUME NEW b \in Bids, DeclinePMBid(b) PROVE ContractsInv'
  <2>1. topic \in Early
    BY <1>2 DEF DeclinePMBid, ContractsInv, HireRows, Hires, Early
  <2>2. [bid[b] EXCEPT !.status = "declined"] \in BidRow /\ [bid[b] EXCEPT !.status = "declined"].pay = "unpaid"
    <3>1. bid[b].pay = "unpaid" /\ "declined" \in BidStatus
      BY DEF BidStatus, ContractsInv, HireRows
    <3>2. QED
      BY <3>1, StatusRow
  <2>3. QED
    BY <1>2, <2>1, <2>2, EarlyBid DEF DeclinePMBid, SetStatus, SetBid
<1>3. QED
  BY <1>1, <1>2, HireWrite DEF HireNext

(***************************************************************************)
(* The signatures.                                                         *)
(***************************************************************************)
LEMMA SigningWritten ==
  ASSUME ContractsInv, topic = "signing", UNCHANGED <<market, feeVerified, topic>>,
         bid' \in [Bids -> BidRow], \A b \in Bids : bid'[b].pay = "unpaid",
         hired' \in Bids \cup {Nobody}, projectIs' \in ProjectIs, stagePaid' \in BOOLEAN,
         \A t \in plan' \cup snapshot' : t \in [by : Bids, copy : Clients, value : Prices],
         OnePlan', SignedPlanIsPlan'
  PROVE  HireRows'
<1>1. topic \in Hires /\ topic # "fees"
  BY DEF Hires
<1>2. BidPaidIsBooked'
  BY DEF BidPaidIsBooked
<1>3. feeVerified' \in BOOLEAN
  BY DEF ContractsInv, HireRows, HiringTypeOK
<1>4. QED
  BY <1>1, <1>2, <1>3, RowsWritten

LEMMA SigningFacts ==
  ASSUME ContractsInv, topic = "signing"
  PROVE  /\ bid \in [Bids -> BidRow] /\ \A b \in Bids : bid[b] \in BidRow /\ bid[b].pay = "unpaid"
         /\ hired \in Bids \cup {Nobody} /\ projectIs \in ProjectIs /\ stagePaid \in BOOLEAN
         /\ \A t \in plan \cup snapshot : t \in [by : Bids, copy : Clients, value : Prices]
         /\ OnePlan /\ SignedPlanIsPlan /\ topic \in Hires
BY SomeRow DEF ContractsInv, HireRows, HiringTypeOK, Hires

LEMMA ReplaceStep ==
  ASSUME ContractsInv, topic = "signing", UNCHANGED <<teamVars, exitVars, topic>>, NEW p \in Clients, ReplacePlan(p)
  PROVE  ContractsInv'
<1>1. /\ session[p].at = "sign" /\ session[p].id \in Bids /\ session[p].value \in Prices
  BY BidOf, SigningFacts DEF ReplacePlan, At, HireSession
<1>2. PICK b \in Bids, v \in Prices : b = session[p].id /\ v = session[p].value
  BY <1>1
<1> DEFINE row == [bid[b] EXCEPT !.signed = TRUE]
<1>3. row \in BidRow /\ row.pay = "unpaid" /\ row.status = bid[b].status
  BY SigningFacts DEF BidRow
<1>4. bid' = [bid EXCEPT ![b] = row]
  BY <1>2 DEF ReplacePlan, SetBid
<1> HIDE DEF row
<1>5. bid' \in [Bids -> BidRow] /\ \A c \in Bids : bid'[c].pay = "unpaid" /\ bid'[c].status = bid[c].status
  BY <1>3, <1>4, OneRow, SigningFacts
<1>6. OnlyBid
  BY DEF ReplacePlan
<1>7. HireRows'
  <2>1. OnePlan' /\ SignedPlanIsPlan'
    BY <1>5, <1>6, SigningFacts DEF OnePlan, SignedPlanIsPlan, OnlyBid, Copies, contract
  <2>2. /\ hired' = hired /\ projectIs' = projectIs /\ stagePaid' = stagePaid /\ plan' = plan /\ snapshot' = snapshot
        /\ UNCHANGED <<market, feeVerified>>
    BY <1>6 DEF OnlyBid, contract
  <2>3. QED
    BY <1>5, <2>1, <2>2, SigningFacts, SigningWritten
<1>8. PICK s : s = [at |-> "replaced", id |-> b, value |-> v, old |-> plan]
  OBVIOUS
<1>9. session' = [session EXCEPT ![p] = s]
  BY <1>2, <1>8 DEF ReplacePlan
<1>10. HireSession(s) /\ s.at \notin Held \cup {"signed"}
  <2>1. s \in [at : Signing, id : Bids, value : Prices, old : SUBSET [by : Bids, copy : Clients, value : Prices]]
    BY <1>8, SigningFacts DEF Signing
  <2>2. s.at = "replaced" /\ s.id \in Bids
    BY <1>8
  <2>3. QED
    BY <2>1, <2>2 DEF HireSession, BidPoints, Signing, Held
<1>11. HireKeeps
  BY <1>6, SigningFacts DEF HireKeeps, OnlyBid, ContractsInv
<1>12. plan' = plan /\ hired' = hired
  BY <1>6 DEF OnlyBid, contract
<1>13. Locks'
  BY <1>9, <1>10, <1>12, SigningFacts, PlanCopied, LocksKept
<1>14. QED
  BY <1>7, <1>9, <1>10, <1>11, <1>13, HireStep

LEMMA CheckStep ==
  ASSUME ContractsInv, topic = "signing", UNCHANGED <<teamVars, exitVars, topic>>, NEW p \in Clients, CheckPlan(p)
  PROVE  ContractsInv'
<1>1. topic \in Hires
  BY SigningFacts
<1>2. UNCHANGED <<hireVars, contested, booked>>
  BY DEF CheckPlan, OnlyBid, hireVars
<1>3. HireKeeps
  BY <1>1, <1>2 DEF HireKeeps, ContractsInv
<1>4. HireRows'
  BY <1>2, HireRowsStill
<1>5. plan' = plan /\ hired' = hired
  BY <1>2 DEF hireVars, contract
<1>6. CASE Done(p)
  BY <1>1, <1>3, <1>4, <1>5, <1>6, PlanCopied, HireDone
<1>7. CASE To(p, "signed") /\ plan \subseteq session[p].old
  <2>1. session[p].at = "replaced"
    BY DEF CheckPlan, At
  <2>2. session[p] \in [at : Signing, id : Bids, value : Prices, old : SUBSET [by : Bids, copy : Clients, value : Prices]]
    BY <1>1, <2>1 DEF ContractsInv, Sessions, HireSession, Signing
  <2>3. PICK t : t = session[p]
    OBVIOUS
  <2>4. PICK s : s = [t EXCEPT !.at = "signed"]
    OBVIOUS
  <2>5. session' = [session EXCEPT ![p] = s]
    BY <1>7, <2>3, <2>4 DEF To
  <2>6. s \in [at : Signing, id : Bids, value : Prices, old : SUBSET [by : Bids, copy : Clients, value : Prices]]
    BY <2>2, <2>3, <2>4 DEF Signing
  <2>7. s.at = "signed" /\ s.id = t.id /\ s.old = t.old
    BY <2>2, <2>3, <2>4
  <2>8. HireSession(s)
    BY <2>6, <2>7 DEF HireSession, BidPoints, Signing, Held
  <2>9. session'[p] = s /\ \A q \in Clients \ {p} : session'[q] = session[q]
    BY <2>5 DEF ContractsInv, Sessions
  <2>10. \A q \in Clients \ {p} : session[q].at = "signed" => session[q].id # t.id
    BY <2>3 DEF CheckPlan, Free, At
  <2>11. Locks'
    <3>1. \A q \in Clients : session'[q].at \in Held => q # p /\ session'[q] = session[q]
      BY <2>7, <2>9 DEF Held
    <3>2. Copies(plan', s.id) \subseteq s.old
      BY <1>5, <1>7, <2>3, <2>7 DEF Copies
    <3>0. Locks /\ topic' = topic
      BY <1>1 DEF ContractsInv
    <3>3. \A q, r \in Clients : session'[q].at \in Held /\ session'[r].at \in Held => q = r
      BY <3>0, <3>1 DEF Locks
    <3>4. \A q \in Clients : session'[q].at = "hire" => hired' = Nobody /\ topic' # "fees"
      BY <1>5, <3>0, <3>1 DEF Locks, At, Held
    <3>5. \A q, r \in Clients : session'[q].at = "signed" /\ session'[r].at = "signed" /\ session'[q].id = session'[r].id => q = r
      BY <2>7, <2>9, <2>10, <3>0 DEF Locks, At
    <3>6. \A q \in Clients : session'[q].at = "signed" => Copies(plan', session'[q].id) \subseteq session'[q].old
      BY <1>5, <2>9, <3>0, <3>2 DEF Locks, At
    <3>7. QED
      BY <3>3, <3>4, <3>5, <3>6 DEF Locks, At, Copies
  <2>12. QED
    BY <1>3, <1>4, <2>5, <2>8, <2>11, HireStep
<1>8. QED
  BY <1>6, <1>7 DEF CheckPlan

LEMMA SignStep ==
  ASSUME ContractsInv, topic = "signing", UNCHANGED <<teamVars, exitVars, topic>>, NEW p \in Clients, SignContract(p)
  PROVE  ContractsInv'
<1>1. session[p].at = "signed" /\ topic \in Hires
  BY SigningFacts DEF SignContract, At
<1>2. session[p] \in [at : Signing, id : Bids, value : Prices, old : SUBSET [by : Bids, copy : Clients, value : Prices]]
  BY <1>1 DEF ContractsInv, Sessions, HireSession, Signing
<1>3. PICK b \in Bids, v \in Prices, old \in SUBSET [by : Bids, copy : Clients, value : Prices] :
        b = session[p].id /\ v = session[p].value /\ old = session[p].old
  BY <1>2
<1>4. PICK t \in [by : Bids, copy : Clients, value : Prices] : t = [by |-> b, copy |-> p, value |-> v]
  OBVIOUS
<1>5. plan' = (plan \ old) \cup {t} /\ t.by = b
  BY <1>3, <1>4 DEF SignContract
<1>6. Copies(plan, b) \subseteq old
  BY <1>1, <1>3 DEF ContractsInv, Locks, At
<1> DEFINE row == [bid[b] EXCEPT !.status = "contract_pending"]
<1>7. row \in BidRow /\ row.pay = "unpaid" /\ row.status = "contract_pending"
  BY SigningFacts DEF BidRow, BidStatus
<1>8. bid' = [bid EXCEPT ![b] = row]
  BY <1>3 DEF SignContract
<1> HIDE DEF row
<1>9. bid' \in [Bids -> BidRow] /\ (\A c \in Bids : bid'[c].pay = "unpaid") /\ bid'[b].status = "contract_pending"
  BY <1>7, <1>8, OneRow, SigningFacts
<1>10. UNCHANGED <<market, hired, projectIs, stagePaid, snapshot, feeVerified, contested, booked>> /\ Done(p)
  BY DEF SignContract
<1>11. OnePlan'
  BY <1>5, <1>6, SigningFacts DEF OnePlan, Copies
<1>12. SignedPlanIsPlan'
  <2>1. \A c \in Bids : bid'[c].status = "awaiting_payment" => c # b /\ bid'[b].status \in Contracted
    BY <1>9 DEF Contracted
  <2>2. QED
    BY <2>1 DEF SignedPlanIsPlan
<1>13. HireRows'
  <2>1. \A u \in plan' \cup snapshot' : u \in [by : Bids, copy : Clients, value : Prices]
    BY <1>5, <1>10, SigningFacts
  <2>2. QED
    BY <1>9, <1>10, <1>11, <1>12, <2>1, SigningFacts, SigningWritten
<1>14. \A q \in Clients \ {p} : At(q, "signed") => Copies(plan', session[q].id) \subseteq session[q].old
  <2> SUFFICES ASSUME NEW q \in Clients \ {p}, At(q, "signed") PROVE Copies(plan', session[q].id) \subseteq session[q].old
    OBVIOUS
  <2>1. session[q].id # b
    BY <1>1, <1>3 DEF ContractsInv, Locks, At
  <2>2. Copies(plan, session[q].id) \subseteq session[q].old
    BY <1>1 DEF ContractsInv, Locks
  <2>3. QED
    BY <1>5, <2>1, <2>2 DEF Copies
<1>15. HireKeeps
  BY <1>1, <1>10 DEF HireKeeps, ContractsInv
<1>16. QED
  BY <1>10, <1>13, <1>14, <1>15, HireDone

LEMMA ClientSignStep ==
  ASSUME ContractsInv, topic = "signing", UNCHANGED <<teamVars, exitVars, topic>>, NEW p \in Clients, ClientSignContract(p)
  PROVE  ContractsInv'
<1>1. PICK b \in Bids : b = session[p].id
  BY BidOf, SigningFacts DEF ClientSignContract, At, BidPoints
<1> DEFINE row == [bid[b] EXCEPT !.status = "awaiting_payment"]
<1>2. row \in BidRow /\ row.pay = "unpaid"
  BY SigningFacts DEF BidRow, BidStatus
<1>3. bid' = [bid EXCEPT ![b] = row]
  BY <1>1 DEF ClientSignContract, SetStatus, SetBid
<1> HIDE DEF row
<1>4. bid' \in [Bids -> BidRow] /\ \A c \in Bids : bid'[c].pay = "unpaid"
  BY <1>2, <1>3, OneRow, SigningFacts
<1>5. snapshot' = plan /\ plan' = plan /\ hired' = hired /\ stagePaid' = stagePaid
  BY DEF ClientSignContract
<1>6. UNCHANGED <<market, feeVerified, contested, booked>> /\ Done(p)
  BY DEF ClientSignContract
<1>7. projectIs' \in ProjectIs
  BY SigningFacts DEF ClientSignContract, ProjectIs
<1>8. OnePlan' /\ SignedPlanIsPlan'
  BY <1>5, SigningFacts DEF OnePlan, SignedPlanIsPlan
<1>9. HireRows'
  BY <1>4, <1>5, <1>6, <1>7, <1>8, SigningFacts, SigningWritten
<1>10. HireKeeps
  BY <1>6, SigningFacts DEF HireKeeps, ContractsInv
<1>11. QED
  BY <1>5, <1>6, <1>9, <1>10, SigningFacts, PlanCopied, HireDone

LEMMA PayStep ==
  ASSUME ContractsInv, topic = "signing", UNCHANGED <<teamVars, exitVars, topic>>, NEW activates \in BOOLEAN, PayStage(activates)
  PROVE  ContractsInv'
<1>1. /\ UNCHANGED <<market, projectIs, plan, snapshot, feeVerified, session, contested, booked>>
      /\ stagePaid' = TRUE /\ \A q \in Clients : ~At(q, "hire")
  BY DEF PayStage, Unlocked, At
<1>2. UNCHANGED <<bid, hired>> \/ \E b \in Bids : SetStatus(b, "accepted") /\ hired' = b
  BY DEF PayStage
<1>3. HireRows'
  <2>1. CASE UNCHANGED <<bid, hired>>
    <3>1. OnePlan' /\ SignedPlanIsPlan'
      BY <1>1, <2>1, SigningFacts DEF OnePlan, SignedPlanIsPlan, Copies
    <3>2. QED
      BY <1>1, <2>1, <3>1, SigningFacts, SigningWritten
  <2>2. ASSUME NEW b \in Bids, SetStatus(b, "accepted"), hired' = b PROVE HireRows'
    <3> DEFINE row == [bid[b] EXCEPT !.status = "accepted"]
    <3>1. row \in BidRow /\ row.pay = "unpaid" /\ row.status = "accepted"
      BY SigningFacts DEF BidRow, BidStatus
    <3>2. bid' = [bid EXCEPT ![b] = row]
      BY <2>2 DEF SetStatus, SetBid
    <3> HIDE DEF row
    <3>3. bid' \in [Bids -> BidRow] /\ (\A c \in Bids : bid'[c].pay = "unpaid") /\ bid'[b].status = "accepted"
      BY <3>1, <3>2, OneRow, SigningFacts
    <3>4. OnePlan' /\ SignedPlanIsPlan'
      BY <1>1, <2>2, <3>3, SigningFacts DEF OnePlan, SignedPlanIsPlan
    <3>5. QED
      BY <1>1, <2>2, <3>3, <3>4, SigningFacts, SigningWritten
  <2>3. QED
    BY <1>2, <2>1, <2>2
<1>4. HireKeeps
  BY <1>1, SigningFacts DEF HireKeeps, ContractsInv
<1>5. Locks'
  BY <1>1, SigningFacts, LocksStill
<1>6. QED
  BY <1>1, <1>3, <1>4, <1>5, HireStepAlone

LEMMA SignNextStep ==
  ASSUME ContractsInv, topic = "signing", UNCHANGED <<teamVars, exitVars, topic>>, SignNext
  PROVE  ContractsInv'
<1>1. ASSUME NEW p \in Clients, NEW b \in Bids, BeginSign(p, b) \/ BeginClientSign(p, b) PROVE ContractsInv'
  BY <1>1, HireBegin, SigningFacts DEF HireBegins
<1>2. QED
  BY <1>1, ReplaceStep, CheckStep, SignStep, ClientSignStep, PayStep DEF SignNext

(***************************************************************************)
(* The end of the contract.                                                *)
(***************************************************************************)
LEMMA EndWrite ==
  ASSUME ContractsInv, topic \in {"signing", "fees"}, UNCHANGED <<teamVars, exitVars, topic>>,
         NEW p \in Clients, NEW end \in {"terminated", "resigned"}, EndContract(p, end)
  PROVE  ContractsInv'
<1>1. /\ topic \in Hires /\ bid \in [Bids -> BidRow] /\ \A b \in Bids : bid[b] \in BidRow
      /\ \A t \in plan \cup snapshot : t \in [by : Bids, copy : Clients, value : Prices]
  BY SomeRow DEF Hires, ContractsInv, HireRows, HiringTypeOK
<1>2. /\ hired' = Nobody /\ plan' \subseteq plan /\ snapshot' = snapshot /\ Done(p)
      /\ UNCHANGED <<market, stagePaid, snapshot, feeVerified, contested, booked>> /\ \A q \in Clients : ~At(q, "hire")
  BY DEF EndContract, Unlocked, At
<1>3. projectIs' \in ProjectIs
  BY DEF EndContract, ProjectIs, ContractsInv, HireRows, HiringTypeOK
<1>4. bid' \in [Bids -> BidRow] /\ \A c \in Bids : bid'[c].pay = bid[c].pay /\ bid'[c].price = bid[c].price
  <2>1. PICK b : bid' = bid \/ bid' = [bid EXCEPT ![b] = [bid[b] EXCEPT !.status = end]]
    BY DEF EndContract, SetStatus, SetBid
  <2>2. CASE bid' = bid \/ b \notin Bids
    BY <1>1, <2>1, <2>2
  <2>3. CASE b \in Bids /\ bid' = [bid EXCEPT ![b] = [bid[b] EXCEPT !.status = end]]
    <3> DEFINE row == [bid[b] EXCEPT !.status = end]
    <3>1. row \in BidRow /\ row.pay = bid[b].pay /\ row.price = bid[b].price
      <4>1. b \in Bids /\ end \in BidStatus
        BY <2>3 DEF BidStatus
      <4>2. QED
        BY <4>1, StatusRow
    <3>2. bid' = [bid EXCEPT ![b] = row]
      BY <2>3
    <3> HIDE DEF row
    <3>3. QED
      BY <2>3, <3>1, <3>2, OneRow
  <2>4. QED
    BY <2>1, <2>2, <2>3
<1>5. OnePlan' /\ SignedPlanIsPlan' /\ BidPaidIsBooked'
  <2>1. OnePlan'
    BY <1>2 DEF OnePlan, ContractsInv, HireRows
  <2>2. SignedPlanIsPlan'
    BY <1>2, BidsAreRefs DEF SignedPlanIsPlan
  <2>3. BidPaidIsBooked'
    BY <1>2, <1>4 DEF BidPaidIsBooked, ContractsInv, HireRows
  <2>4. QED
    BY <2>1, <2>2, <2>3
<1>6. HireRows'
  <2>1. /\ \A t \in plan' \cup snapshot' : t \in [by : Bids, copy : Clients, value : Prices]
        /\ topic # "signing" => plan' = {} /\ snapshot' = {}
        /\ stagePaid' \in BOOLEAN /\ feeVerified' \in BOOLEAN
    BY <1>1, <1>2 DEF ContractsInv, HireRows, HiringTypeOK
  <2>2. topic # "fees" => \A b \in Bids : bid'[b].pay = "unpaid"
    BY <1>4 DEF ContractsInv, HireRows
  <2>3. QED
    BY <1>1, <1>2, <1>3, <1>4, <1>5, <2>1, <2>2, RowsWritten
<1>7. HireKeeps
  BY <1>1, <1>2 DEF HireKeeps, ContractsInv
<1>8. QED
  BY <1>1, <1>2, <1>6, <1>7, PlanCopied, HireDone

LEMMA EndNextStep ==
  ASSUME ContractsInv, topic \in {"signing", "fees"}, UNCHANGED <<teamVars, exitVars, topic>>, EndNext
  PROVE  ContractsInv'
<1>1. topic \in Hires
  BY DEF Hires
<1>2. QED
  BY <1>1, HireBeginAlone, EndWrite DEF EndNext, TerminateProfessional, ResignFromProject

(***************************************************************************)
(* The fee of the bid.                                                     *)
(***************************************************************************)
LEMMA BookedRow ==
  ASSUME booked \in [References -> Nat], NEW r \in References, NEW amount \in Nat, Book(r, amount)
  PROVE  /\ booked' \in [References -> Nat]
         /\ amount > 0 => booked'[r] > 0
         /\ \A x \in References : booked[x] > 0 => booked'[x] > 0
BY DEF Book

LEMMA PriceIsNat == ASSUME ContractsInv, NEW b \in Bids PROVE bid[b].price \in Nat /\ b \in References
<1>1. bid[b].price \in Prices \cup {0}
  BY SomeRow DEF BidRow
<1>2. Prices \cup {0} \subseteq Nat /\ Bids \subseteq References
  BY PricesPositive, BidsAreRefs
<1> QED
  BY <1>1, <1>2

\* A payment of a bid: its row is paid with its price in the ledger, or has no price.
LEMMA FeeWrite ==
  ASSUME ContractsInv, topic = "fees", UNCHANGED <<teamVars, exitVars, topic>>, UNCHANGED <<market, contract, contested>>,
         hired' \in Bids \cup {Nobody}, projectIs' \in ProjectIs, feeVerified' \in BOOLEAN,
         \/ UNCHANGED <<bid, booked>>
         \/ \E b \in Bids, row \in BidRow :
              /\ bid' = [bid EXCEPT ![b] = row] /\ row.price = bid[b].price
              /\ \/ row.pay # "paid" /\ UNCHANGED booked
                 \/ Book(b, bid[b].price)
                 \/ bid[b].price = 0 /\ UNCHANGED booked,
         (\E p \in Clients : Done(p)) \/ UNCHANGED session
  PROVE  ContractsInv'
<1>1. /\ topic \in Hires /\ booked \in [References -> Nat] /\ contested \in BOOLEAN
      /\ bid \in [Bids -> BidRow] /\ BidPaidIsBooked
      /\ plan = {} /\ snapshot = {} /\ stagePaid \in BOOLEAN
  BY DEF Hires, ContractsInv, HireRows, HiringTypeOK
<1>2. plan' = {} /\ snapshot' = {} /\ stagePaid' = stagePaid /\ plan' = plan
  BY <1>1 DEF contract
<1>3. /\ bid' \in [Bids -> BidRow] /\ booked' \in [References -> Nat] /\ BidPaidIsBooked'
  <2>1. CASE UNCHANGED <<bid, booked>>
    BY <1>1, <2>1 DEF BidPaidIsBooked
  <2>2. ASSUME NEW b \in Bids, NEW row \in BidRow, bid' = [bid EXCEPT ![b] = row], row.price = bid[b].price,
               \/ row.pay # "paid" /\ UNCHANGED booked
               \/ Book(b, bid[b].price)
               \/ bid[b].price = 0 /\ UNCHANGED booked
        PROVE  /\ bid' \in [Bids -> BidRow] /\ booked' \in [References -> Nat] /\ BidPaidIsBooked'
    <3>1. bid' \in [Bids -> BidRow] /\ bid'[b] = row /\ \A c \in Bids \ {b} : bid'[c] = bid[c]
      BY <2>2, OneRow
    <3>2. bid[b].price \in Nat /\ b \in References /\ Bids \subseteq References
      BY PriceIsNat, BidsAreRefs
    <3>3. /\ booked' \in [References -> Nat]
          /\ row.pay = "paid" /\ row.price > 0 => booked'[b] > 0
          /\ \A x \in References : booked[x] > 0 => booked'[x] > 0
      <4>1. CASE Book(b, bid[b].price)
        <5>1. PICK amount \in Nat : amount = bid[b].price
          BY <3>2
        <5>2. Book(b, amount)
          BY <4>1, <5>1
        <5>3. booked' \in [References -> Nat] /\ (amount > 0 => booked'[b] > 0) /\ \A x \in References : booked[x] > 0 => booked'[x] > 0
          BY <1>1, <3>2, <5>2, BookedRow
        <5>4. row.price = amount
          BY <2>2, <5>1
        <5>5. QED
          BY <5>3, <5>4
      <4>2. CASE UNCHANGED booked /\ (row.pay # "paid" \/ bid[b].price = 0)
        BY <1>1, <2>2, <4>2
      <4>3. QED
        BY <2>2, <4>1, <4>2
    <3>4. ASSUME NEW c \in Bids, bid'[c].pay = "paid", bid'[c].price > 0 PROVE booked'[c] > 0
      BY <1>1, <3>1, <3>2, <3>3, <3>4 DEF BidPaidIsBooked
    <3>5. QED
      BY <3>1, <3>3, <3>4 DEF BidPaidIsBooked
  <2>3. QED
    BY <2>1, <2>2
<1>4. HireRows'
  <2>1. OnePlan' /\ SignedPlanIsPlan'
    BY <1>2 DEF OnePlan, SignedPlanIsPlan, Copies
  <2>2. QED
    BY <1>1, <1>2, <1>3, <2>1, RowsWritten
<1>5. HireKeeps
  BY <1>1, <1>3 DEF HireKeeps
<1>6. \A q \in Clients : ~At(q, "hire")
  BY <1>1 DEF ContractsInv, Locks
<1>7. CASE UNCHANGED session
  <2>1. Locks'
    BY <1>1, <1>2, <1>6, <1>7, LocksStill
  <2>2. QED
    BY <1>4, <1>5, <1>7, <2>1, HireStepAlone
<1>8. ASSUME NEW p \in Clients, Done(p) PROVE ContractsInv'
  BY <1>1, <1>2, <1>4, <1>5, <1>6, <1>8, PlanCopied, HireDone
<1>9. QED
  BY <1>7, <1>8

LEMMA FeeStep ==
  ASSUME ContractsInv, topic = "fees", UNCHANGED <<teamVars, exitVars, topic>>, FeeNext
  PROVE  ContractsInv'
<1>1. /\ topic \in Hires /\ hired \in Bids \cup {Nobody} /\ projectIs \in ProjectIs /\ feeVerified \in BOOLEAN
  BY DEF Hires, ContractsInv, HireRows, HiringTypeOK
<1>2. ASSUME NEW b \in Bids, NEW pay \in PayStatus
      PROVE  [bid[b] EXCEPT !.pay = pay] \in BidRow /\ [bid[b] EXCEPT !.pay = pay].pay = pay /\ [bid[b] EXCEPT !.pay = pay].price = bid[b].price
  BY SomeRow DEF BidRow
<1>3. {"unpaid", "pending", "verifying", "paid"} \subseteq PayStatus
  BY DEF PayStatus
<1>4. ASSUME NEW p \in Clients, NEW b \in Bids, BeginBidProof(p, b) PROVE ContractsInv'
  BY <1>1, <1>4, HireBegin DEF HireBegins
<1>5. ASSUME NEW p \in Clients, BeginVerifyPayment(p) PROVE ContractsInv'
  BY <1>1, <1>5, HireBeginAlone
<1>6. ASSUME NEW p \in Clients, StoreBidProof(p) PROVE ContractsInv'
  <2>1. PICK b \in Bids : b = session[p].id
    BY <1>1, <1>6, BidOf DEF StoreBidProof, At, BidPoints
  <2> DEFINE row == [bid[b] EXCEPT !.pay = "verifying"]
  <2>2. row \in BidRow /\ row.pay # "paid" /\ row.price = bid[b].price
    BY <1>2, <1>3
  <2>3. bid' = bid \/ bid' = [bid EXCEPT ![b] = row]
    BY <1>6, <2>1 DEF StoreBidProof
  <2>4. UNCHANGED <<market, contract, contested, hired, projectIs, feeVerified, booked>> /\ Done(p)
    BY <1>6 DEF StoreBidProof, OnlyBid
  <2> HIDE DEF row
  <2>5. QED
    BY <1>1, <2>2, <2>3, <2>4, FeeWrite
<1>7. ASSUME NEW p \in Clients, VerifyPayment(p) PROVE ContractsInv'
  <2>1. UNCHANGED <<bid, booked>> \/ \E b \in Bids : SetBid(b, [bid[b] EXCEPT !.pay = "paid"]) /\ Book(b, bid[b].price)
    BY <1>7 DEF VerifyPayment
  <2>2. UNCHANGED <<bid, booked>> \/ \E b \in Bids, row \in BidRow : bid' = [bid EXCEPT ![b] = row] /\ row.price = bid[b].price /\ Book(b, bid[b].price)
    BY <1>2, <1>3, <2>1 DEF SetBid
  <2>3. UNCHANGED <<market, contract, contested, hired, projectIs>> /\ feeVerified' \in BOOLEAN /\ Done(p)
    BY <1>7 DEF VerifyPayment
  <2>4. QED
    BY <1>1, <2>2, <2>3, FeeWrite
<1>8. ASSUME NEW b \in Bids, RejectBidProof(b) PROVE ContractsInv'
  <2> DEFINE row == [bid[b] EXCEPT !.pay = "pending"]
  <2>1. row \in BidRow /\ row.pay # "paid" /\ row.price = bid[b].price
    BY <1>2, <1>3
  <2>2. bid' = [bid EXCEPT ![b] = row] /\ UNCHANGED <<market, contract, contested, hired, projectIs, feeVerified, booked, session>>
    BY <1>8 DEF RejectBidProof, SetBid, OnlyBid
  <2> HIDE DEF row
  <2>3. QED
    BY <1>1, <2>1, <2>2, FeeWrite
<1>9. ASSUME NEW b \in Bids, AcceptBidProof(b) PROVE ContractsInv'
  <2> DEFINE row == [bid[b] EXCEPT !.pay = "paid", !.status = "active"]
  <2>1. row \in BidRow /\ row.price = bid[b].price
    BY SomeRow DEF BidRow, BidStatus, PayStatus
  <2>2. bid' = [bid EXCEPT ![b] = row] /\ Book(b, bid[b].price) /\ UNCHANGED <<market, contract, contested, hired, feeVerified, session>>
    BY <1>9 DEF AcceptBidProof, SetBid
  <2>3. projectIs' \in ProjectIs
    BY <1>1, <1>9 DEF AcceptBidProof, transitionBidProjectStatus, ProjectIs
  <2> HIDE DEF row
  <2>4. QED
    BY <1>1, <2>1, <2>2, <2>3, FeeWrite
<1>10. ASSUME NEW b \in Bids, MarkPaidBid(b) \/ MarkPaidRecommended(b) PROVE ContractsInv'
  <2> DEFINE row == [bid[b] EXCEPT !.pay = "paid"]
  <2>1. row \in BidRow /\ row.price = bid[b].price
    BY <1>2, <1>3
  <2>2. bid[b].price = 0 \/ bid[b].price > 0
    BY PriceIsNat
  <2>3. /\ bid' = [bid EXCEPT ![b] = row] /\ UNCHANGED <<market, contract, contested, projectIs, feeVerified, session>>
        /\ hired' = b \/ hired' = hired
    BY <1>10 DEF MarkPaidBid, MarkPaidRecommended, SetBid
  <2>4. Book(b, bid[b].price) \/ (bid[b].price = 0 /\ UNCHANGED booked)
    BY <1>10, <2>2 DEF MarkPaidBid, MarkPaidRecommended
  <2> HIDE DEF row
  <2>5. hired' \in Bids \cup {Nobody}
    BY <1>1, <2>3
  <2>6. QED
    BY <1>1, <2>1, <2>3, <2>4, <2>5, FeeWrite
<1>11. QED
  BY <1>4, <1>5, <1>6, <1>7, <1>8, <1>9, <1>10 DEF FeeNext

LEMMA HiringStep ==
  ASSUME ContractsInv, HiringNext, UNCHANGED <<teamVars, exitVars, topic>>
  PROVE  ContractsInv'
<1>1. topic \in {"bidding", "pm", "negotiation", "signing"} => topic \in Hires \ {"fees"}
  BY DEF Hires
<1>2. QED
  BY <1>1, BidStep, NegotiateStep, HireNextStep, SignNextStep, FeeStep, EndNextStep DEF HiringNext

(***************************************************************************)
(* Teams.                                                                  *)
(***************************************************************************)
SubsKept == \A i \in Subs : Used(i) => Used(i)'

\* What a step of a team leaves alone.
TeamKeeps ==
  /\ topic \in Teamwork /\ UNCHANGED <<hireVars, exitVars, topic>>
  /\ booked' \in [References -> Nat] /\ contested' \in BOOLEAN

LEMMA TeamSessionKept == ASSUME NEW t, TeamSession(t), SubsKept PROVE TeamSession(t)'
BY DEF TeamSession, SubsKept

LEMMA HireRowsApart ==
  ASSUME ContractsInv, topic \in Teamwork \cup Ends, UNCHANGED <<hireVars, topic>> PROVE HireRows'
<1>1. topic \notin {"signing", "fees"}
  BY DEF Teamwork, Ends
<1>2. BidPaidIsBooked'
  BY <1>1 DEF ContractsInv, HireRows, hireVars, BidPaidIsBooked
<1>3. QED
  BY <1>1, <1>2 DEF ContractsInv, HireRows, HiringTypeOK, OnePlan, SignedPlanIsPlan, hireVars, market, contract, Copies

LEMMA TeamStepAlone ==
  ASSUME ContractsInv, TeamKeeps, UNCHANGED session, SubsKept, TeamRows' PROVE ContractsInv'
<1>1. topic' = topic /\ topic \in Teamwork /\ topic \notin Hires /\ topic \notin Ends
  BY DEF TeamKeeps, Hires, Teamwork, Ends
<1>2. ASSUME NEW q \in Clients PROVE TeamSession(session[q])'
  <2>1. PICK t : t = session[q]
    OBVIOUS
  <2>2. TeamSession(t)
    BY <1>1, <2>1 DEF ContractsInv, Sessions
  <2>3. TeamSession(t)'
    BY <2>2, TeamSessionKept
  <2>4. session'[q] = t
    BY <2>1
  <2>5. QED
    BY <2>3, <2>4 DEF TeamSession
<1>3. Sessions'
  BY <1>1, <1>2 DEF Sessions, ContractsInv
<1>4. HireRows' /\ ExitRows'
  BY <1>1, HireRowsApart, ExitRowsStill DEF TeamKeeps
<1>5. QED
  BY <1>1, <1>3, <1>4 DEF ContractsInv, TeamKeeps

LEMMA TeamStep ==
  ASSUME ContractsInv, TeamKeeps, NEW p \in Clients, NEW s, session' = [session EXCEPT ![p] = s], TeamSession(s),
         SubsKept, TeamRows'
  PROVE  ContractsInv'
<1>1. topic' = topic /\ topic \in Teamwork /\ topic \notin Hires /\ topic \notin Ends
  BY DEF TeamKeeps, Hires, Teamwork, Ends
<1>2. ASSUME NEW q \in Clients PROVE TeamSession(session[q])'
  <2>1. PICK t : t = IF q = p THEN s ELSE session[q]
    OBVIOUS
  <2>2. TeamSession(t)
    BY <1>1, <2>1 DEF ContractsInv, Sessions
  <2>3. TeamSession(t)'
    BY <2>2, TeamSessionKept
  <2>4. session'[q] = t
    BY <2>1 DEF ContractsInv, Sessions
  <2>5. QED
    BY <2>3, <2>4 DEF TeamSession
<1>3. session' = [q \in Clients |-> session'[q]]
  BY DEF ContractsInv, Sessions
<1>4. Sessions'
  BY <1>1, <1>2, <1>3 DEF Sessions
<1>5. HireRows' /\ ExitRows'
  BY <1>1, HireRowsApart, ExitRowsStill DEF TeamKeeps
<1>6. QED
  BY <1>1, <1>4, <1>5 DEF ContractsInv, TeamKeeps

\* The last step of a request.
LEMMA TeamDone ==
  ASSUME ContractsInv, TeamKeeps, NEW p \in Clients, Done(p), SubsKept, TeamRows'
  PROVE  ContractsInv'
<1>1. PICK s : s = Idle
  OBVIOUS
<1>2. session' = [session EXCEPT ![p] = s] /\ TeamSession(s)
  BY <1>1 DEF Done, Idle, TeamSession, Verbs
<1>3. QED
  BY <1>2, TeamStep

LEMMA SubsStill == ASSUME ContractsInv, UNCHANGED sub PROVE SubsKept
BY DEF SubsKept, Used

LEMMA TeamReads ==
  ASSUME ContractsInv, topic \in Teamwork, UNCHANGED <<hireVars, exitVars, topic>>, NEW p \in Clients, NEW s,
         Considers(p, s), TeamSession(s)
  PROVE  ContractsInv'
<1>1. TeamKeeps /\ session' = [session EXCEPT ![p] = s] /\ UNCHANGED teamVars /\ sub' = sub
  BY DEF TeamKeeps, Considers, Serve, ContractsInv, teamVars
<1>2. QED
  BY <1>1, SubsStill, TeamRowsStill, TeamStep

\* A row is written, and is in use.
LEMMA SubWritten ==
  ASSUME ContractsInv, NEW i \in Subs, NEW st \in SubStatus \ {"none"}, NEW u \in Engineers,
         sub' = [sub EXCEPT ![i] = [status |-> st, user |-> u]],
         place' \in Engineers \cup {Vacant}, engBid' \in [Engineers -> EngBid], UNCHANGED engineering
  PROVE  SubsKept /\ TeamRows'
<1>1. sub \in [Subs -> [status : SubStatus, user : Engineers \cup {Vacant}]]
  BY DEF ContractsInv, TeamRows, TeamTypeOK
<1> DEFINE row == [status |-> st, user |-> u]
<1>2. row \in [status : SubStatus, user : Engineers \cup {Vacant}] /\ row.user = u /\ row.status = st
  OBVIOUS
<1>3. sub' = [sub EXCEPT ![i] = row]
  OBVIOUS
<1> HIDE DEF row
<1>4. sub' \in [Subs -> [status : SubStatus, user : Engineers \cup {Vacant}]] /\ sub'[i] = row /\ \A j \in Subs \ {i} : sub'[j] = sub[j]
  BY <1>1, <1>2, <1>3
<1>5. SubsKept
  BY <1>2, <1>4 DEF SubsKept, Used
<1>6. \A j \in Subs : sub'[j].status # "none" => sub'[j].user \in Engineers
  BY <1>2, <1>4 DEF ContractsInv, TeamRows, Used
<1>7. TeamTypeOK'
  BY <1>4 DEF ContractsInv, TeamRows, TeamTypeOK, engineering
<1>8. QED
  BY <1>5, <1>6, <1>7 DEF TeamRows, Used

LEMMA StatusWritten ==
  ASSUME ContractsInv, NEW i \in Subs, NEW st \in SubStatus \ {"none"}, Used(i), SetSub(i, st),
         place' \in Engineers \cup {Vacant}, engBid' \in [Engineers -> EngBid], UNCHANGED engineering
  PROVE  SubsKept /\ TeamRows'
<1>1. sub[i] \in [status : SubStatus, user : Engineers \cup {Vacant}] /\ sub[i].user \in Engineers
  BY DEF ContractsInv, TeamRows, TeamTypeOK
<1>2. PICK u \in Engineers : u = sub[i].user
  BY <1>1
<1>3. sub' = [sub EXCEPT ![i] = [sub[i] EXCEPT !.status = st]]
  BY DEF SetSub
<1>4. [sub[i] EXCEPT !.status = st] = [status |-> st, user |-> u]
  BY <1>1, <1>2
<1>5. sub' = [sub EXCEPT ![i] = [status |-> st, user |-> u]]
  BY <1>3, <1>4
<1>6. QED
  BY <1>2, <1>5, SubWritten

LEMMA TeamFacts ==
  ASSUME ContractsInv, topic \in Teamwork
  PROVE  /\ \A p \in Clients : TeamSession(session[p])
         /\ place \in Engineers \cup {Vacant} /\ engBid \in [Engineers -> EngBid]
         /\ sub \in [Subs -> [status : SubStatus, user : Engineers \cup {Vacant}]]
         /\ request \in [status : ReqStatus, for : Engineers \cup {Vacant}] /\ needs \in BOOLEAN /\ integrated \in BOOLEAN
         /\ \A i \in Subs : Used(i) => sub[i].user \in Engineers
BY DEF ContractsInv, Sessions, TeamRows, TeamTypeOK

LEMMA SubStep ==
  ASSUME ContractsInv, topic = "subs", UNCHANGED <<hireVars, exitVars, topic>>, SubNext
  PROVE  ContractsInv'
<1>1. topic \in Teamwork
  BY DEF Teamwork
<1>2. ASSUME UNCHANGED <<contested, booked>> PROVE TeamKeeps
  BY <1>1, <1>2 DEF TeamKeeps, ContractsInv
<1>3. {"invited", "interviewing", "accepted", "recommended", "active", "removed"} \subseteq SubStatus \ {"none"}
  BY DEF SubStatus
<1>4. ASSUME NEW p \in Clients, NEW u \in Engineers, BeginAssign(p, u) PROVE ContractsInv'
  <2>1. PICK s : s = [at |-> "assign", user |-> u, rows |-> RowsOf(u)]
    OBVIOUS
  <2>2. Considers(p, s)
    BY <1>4, <2>1 DEF BeginAssign
  <2>3. TeamSession(s)
    BY <2>1 DEF TeamSession, RowsOf, Verbs
  <2>4. QED
    BY <1>1, <2>2, <2>3, TeamReads
<1>5. ASSUME NEW p \in Clients, NEW i \in Subs, NEW verb \in Verbs, BeginDecide(p, i, verb) PROVE ContractsInv'
  <2>1. PICK s : s = [at |-> verb, id |-> i, user |-> sub[i].user]
    OBVIOUS
  <2>2. Considers(p, s) /\ Used(i)
    BY <1>5, <2>1 DEF BeginDecide
  <2>3. sub[i].user \in Engineers
    BY <1>1, <2>2, TeamFacts
  <2>4. TeamSession(s)
    BY <2>1, <2>2, <2>3 DEF TeamSession, Verbs
  <2>5. QED
    BY <1>1, <2>2, <2>4, TeamReads
<1>6. ASSUME NEW p \in Clients, NEW company \in BOOLEAN, AssignSubProfessional(p, company) PROVE ContractsInv'
  <2>1. PICK s : s = session[p]
    OBVIOUS
  <2>2. TeamSession(s) /\ s.at = "assign"
    BY <1>1, <1>6, <2>1, TeamFacts DEF AssignSubProfessional, At
  <2>3. PICK u \in Engineers : u = s.user
    BY <2>2 DEF TeamSession
  <2>4. PICK st \in SubStatus \ {"none"} : st = IF company THEN "accepted" ELSE "invited"
    BY <1>3
  <2>5. PICK i \in Subs : sub' = [sub EXCEPT ![i] = [status |-> st, user |-> u]]
    BY <1>6, <2>1, <2>3, <2>4 DEF AssignSubProfessional
  <2>6. place' \in Engineers \cup {Vacant} /\ engBid' \in [Engineers -> EngBid] /\ UNCHANGED engineering
    BY <1>1, <1>6, <2>1, <2>3, TeamFacts DEF AssignSubProfessional, linkSubSlot, OnlySub
  <2>7. SubsKept /\ TeamRows'
    BY <2>5, <2>6, SubWritten
  <2>8. QED
    BY <1>2, <1>6, <2>7, TeamDone DEF AssignSubProfessional, OnlySub
<1>7. ASSUME NEW p \in Clients, NEW verb \in Verbs, At(p, verb)
      PROVE  session[p].id \in Subs /\ Used(session[p].id) /\ session[p].user \in Engineers
  BY <1>1, <1>7, TeamFacts DEF TeamSession, At
<1>8. Verbs = {"accept", "decline", "interview", "recommend", "hire"}
  BY DEF Verbs
<1>9. ASSUME NEW p \in Clients, NEW verb \in Verbs, At(p, verb), NEW st \in SubStatus \ {"none"}, SetSub(session[p].id, st),
             place' \in Engineers \cup {Vacant}, engBid' \in [Engineers -> EngBid], UNCHANGED engineering,
             UNCHANGED <<contested, booked>>, Done(p)
      PROVE  ContractsInv'
  <2>1. PICK i \in Subs : i = session[p].id /\ Used(i)
    BY <1>7, <1>9
  <2>2. SetSub(i, st)
    BY <1>9, <2>1
  <2>3. SubsKept /\ TeamRows'
    BY <1>9, <2>1, <2>2, StatusWritten
  <2>4. QED
    BY <1>2, <1>9, <2>3, TeamDone
<1>10. ASSUME NEW p \in Clients, AcceptSub(p) \/ DeclineSub(p) \/ InterviewSub(p) \/ HireSub(p) PROVE ContractsInv'
  <2>1. PICK verb \in Verbs : At(p, verb)
    BY <1>8, <1>10 DEF AcceptSub, DeclineSub, InterviewSub, HireSub
  <2>2. PICK st \in SubStatus \ {"none"} : SetSub(session[p].id, st)
    BY <1>3, <1>10 DEF AcceptSub, DeclineSub, InterviewSub, HireSub
  <2>3. place' \in Engineers \cup {Vacant}
    BY <1>1, <1>7, <1>10, <2>1, TeamFacts DEF AcceptSub, DeclineSub, InterviewSub, HireSub, linkSubSlot, unlinkSubSlot
  <2>4. engBid' \in [Engineers -> EngBid] /\ UNCHANGED engineering /\ UNCHANGED <<contested, booked>> /\ Done(p)
    BY <1>1, <1>10, TeamFacts DEF AcceptSub, DeclineSub, InterviewSub, HireSub, OnlySub
  <2>5. QED
    BY <1>9, <2>1, <2>2, <2>3, <2>4
<1>11. ASSUME NEW p \in Clients, RecommendSub(p) PROVE ContractsInv'
  <2>1. At(p, "recommend") /\ "recommend" \in Verbs /\ SetSub(session[p].id, "recommended") /\ "recommended" \in SubStatus \ {"none"}
    BY <1>3, <1>8, <1>11 DEF RecommendSub
  <2>2. engBid' \in [Engineers -> EngBid]
    BY <1>1, <1>11, TeamFacts DEF RecommendSub, EngBid
  <2>3. place' \in Engineers \cup {Vacant} /\ UNCHANGED engineering /\ UNCHANGED <<contested, booked>> /\ Done(p)
    BY <1>1, <1>11, TeamFacts DEF RecommendSub
  <2>4. QED
    BY <1>9, <2>1, <2>2, <2>3
<1>12. ASSUME NEW i \in Subs, RemoveSubProfessional(i) PROVE ContractsInv'
  <2>1. Used(i) /\ SetSub(i, "removed") /\ UNCHANGED <<place, session, engBid, engineering, contested, booked>>
    BY <1>12 DEF RemoveSubProfessional, OnlySub
  <2>2. place' \in Engineers \cup {Vacant} /\ engBid' \in [Engineers -> EngBid]
    BY <1>1, <2>1, TeamFacts
  <2>3. SubsKept /\ TeamRows'
    BY <1>3, <2>1, <2>2, StatusWritten
  <2>4. QED
    BY <1>2, <2>1, <2>3, TeamStepAlone
<1>13. ASSUME NEW u \in Engineers, ShortlistSubBid(u) PROVE ContractsInv'
  <2>1. PICK i \in Subs : sub' = [sub EXCEPT ![i] = [status |-> "interviewing", user |-> u]]
    BY <1>13 DEF ShortlistSubBid
  <2>2. UNCHANGED <<place, engineering, session, contested, booked>>
    BY <1>13 DEF ShortlistSubBid
  <2>3. place' \in Engineers \cup {Vacant} /\ engBid' \in [Engineers -> EngBid]
    BY <1>1, <1>13, <2>2, TeamFacts DEF ShortlistSubBid, EngBid
  <2>4. SubsKept /\ TeamRows'
    BY <1>3, <2>1, <2>2, <2>3, SubWritten
  <2>5. QED
    BY <1>2, <2>2, <2>4, TeamStepAlone
<1>14. ASSUME OnlyTeam, place' \in Engineers \cup {Vacant}, SubsKept, TeamRows' PROVE ContractsInv'
  BY <1>2, <1>14, TeamStepAlone DEF OnlyTeam, OnlySub
<1>15. ASSUME NEW u \in Engineers, NEW st \in SubStatus \ {"none"}, WriteRow(u, st), OnlyTeam, place' \in Engineers \cup {Vacant}
       PROVE  ContractsInv'
  <2>1. PICK i \in Subs : sub' = [sub EXCEPT ![i] = [status |-> st, user |-> u]]
    BY <1>15 DEF WriteRow
  <2>2. engBid' \in [Engineers -> EngBid] /\ UNCHANGED engineering
    BY <1>1, <1>15, TeamFacts DEF OnlyTeam, OnlySub
  <2>3. SubsKept /\ TeamRows'
    BY <1>15, <2>1, <2>2, SubWritten
  <2>4. QED
    BY <1>14, <1>15, <2>3
<1>16. ASSUME OnlyTeam, UNCHANGED sub, place' \in Engineers \cup {Vacant} PROVE ContractsInv'
  <2>1. TeamRows'
    BY <1>1, <1>16, TeamFacts DEF OnlyTeam, OnlySub, engineering, TeamRows, TeamTypeOK, Used
  <2>2. QED
    BY <1>14, <1>16, <2>1, SubsStill
<1>17. ASSUME NEW u \in Engineers, markPaidSpecialist(u) PROVE ContractsInv'
  <2>1. place' \in Engineers \cup {Vacant} /\ OnlyTeam
    BY <1>17 DEF markPaidSpecialist
  <2>2. QED
    BY <1>3, <1>15, <1>17, <2>1 DEF markPaidSpecialist
<1>18. ASSUME NEW u \in Engineers, acceptSpecialistAddendum(u) PROVE ContractsInv'
  <2>1. PICK st \in SubStatus \ {"none"} : WriteRow(u, st)
    BY <1>3, <1>18 DEF acceptSpecialistAddendum
  <2>2. place' \in Engineers \cup {Vacant} /\ OnlyTeam
    BY <1>1, <1>18, TeamFacts DEF acceptSpecialistAddendum, linkSubSlot
  <2>3. QED
    BY <1>15, <2>1, <2>2
<1>19. ASSUME NEW u \in Engineers, inviteSpecialist(u) PROVE ContractsInv'
  <2>1. OnlyTeam /\ UNCHANGED place /\ place \in Engineers \cup {Vacant}
    BY <1>1, <1>19, TeamFacts DEF inviteSpecialist
  <2>2. CASE WriteRow(u, "invited")
    BY <1>3, <1>15, <2>1, <2>2
  <2>3. CASE sub' = [i \in Subs |-> IF Used(i) THEN [status |-> "invited", user |-> u] ELSE sub[i]]
    <3>1. sub \in [Subs -> [status : SubStatus, user : Engineers \cup {Vacant}]] /\ \A i \in Subs : Used(i) => sub[i].user \in Engineers
      BY <1>1, TeamFacts
    <3>2. [status |-> "invited", user |-> u] \in [status : SubStatus, user : Engineers \cup {Vacant}]
      BY <1>3
    <3>3. sub' \in [Subs -> [status : SubStatus, user : Engineers \cup {Vacant}]]
      BY <2>3, <3>1, <3>2
    <3>4. SubsKept /\ \A i \in Subs : sub'[i].status # "none" => sub'[i].user \in Engineers
      BY <2>3, <3>1 DEF SubsKept, Used
    <3>5. TeamRows'
      BY <1>1, <2>1, <3>3, <3>4, TeamFacts DEF OnlyTeam, OnlySub, engineering, TeamRows, TeamTypeOK, Used
    <3>6. QED
      BY <1>14, <2>1, <3>4, <3>5
  <2>4. QED
    BY <1>19, <2>2, <2>3 DEF inviteSpecialist
<1>20. ASSUME NEW u \in Engineers, PaidBidTakesPlace(u) PROVE ContractsInv'
  BY <1>16, <1>20 DEF PaidBidTakesPlace
<1>21. ASSUME clearTerminationRole PROVE ContractsInv'
  BY <1>16, <1>21 DEF clearTerminationRole
<1>22. QED
  BY <1>4, <1>5, <1>6, <1>8, <1>10, <1>11, <1>12, <1>13, <1>17, <1>18, <1>19, <1>20, <1>21 DEF SubNext

LEMMA EngineeringStep ==
  ASSUME ContractsInv, topic = "engineering", UNCHANGED <<hireVars, exitVars, topic>>, EngineeringNext
  PROVE  ContractsInv'
<1>1. topic \in Teamwork
  BY DEF Teamwork
<1>2. UNCHANGED <<sub, place, session, contested, booked>>
  BY DEF EngineeringNext, RequestEngineeringRole, AuthorizeSpecialist, RejectEngineeringBid, SubmitEngineeringInterview,
         ApproveEngineeringIntegration, RejectSpecialist, VerifyEngineeringRequest, engineeringHireDecision, gatewayVars
<1>3. TeamKeeps
  BY <1>1, <1>2 DEF TeamKeeps, ContractsInv
<1>4. ASSUME NEW s \in ReqStatus, SetRequest(s) PROVE request' \in [status : ReqStatus, for : Engineers \cup {Vacant}]
  BY <1>1, <1>4, TeamFacts DEF SetRequest
<1>5. {"pending_approval", "approved_unpaid", "authorized", "rejected"} \subseteq ReqStatus
  BY DEF ReqStatus
<1>6. ASSUME request' \in [status : ReqStatus, for : Engineers \cup {Vacant}], engBid' \in [Engineers -> EngBid],
             needs' \in BOOLEAN, integrated' \in BOOLEAN
      PROVE  ContractsInv'
  <2>1. TeamRows'
    BY <1>1, <1>2, <1>6, TeamFacts DEF TeamRows, TeamTypeOK, Used
  <2>2. QED
    BY <1>2, <1>3, <2>1, SubsStill, TeamStepAlone
<1>7. ASSUME NEW named \in Engineers \cup {Vacant}, RequestEngineeringRole(named) PROVE ContractsInv'
  <2>1. request' \in [status : ReqStatus, for : Engineers \cup {Vacant}]
    BY <1>5, <1>7 DEF RequestEngineeringRole
  <2>2. QED
    BY <1>1, <1>6, <1>7, <2>1, TeamFacts DEF RequestEngineeringRole
<1>8. ASSUME NEW u \in Engineers, AuthorizeSpecialist(u) \/ RejectEngineeringBid(u) \/ SubmitEngineeringInterview(u) PROVE ContractsInv'
  <2>1. engBid' \in [Engineers -> EngBid]
    BY <1>1, <1>8, TeamFacts DEF AuthorizeSpecialist, RejectEngineeringBid, SubmitEngineeringInterview, EngBid
  <2>2. request' \in [status : ReqStatus, for : Engineers \cup {Vacant}]
    BY <1>1, <1>4, <1>5, <1>8, TeamFacts DEF AuthorizeSpecialist, RejectEngineeringBid, SubmitEngineeringInterview, engineering
  <2>3. UNCHANGED <<needs, integrated>>
    BY <1>8 DEF AuthorizeSpecialist, RejectEngineeringBid, SubmitEngineeringInterview, engineering
  <2>4. QED
    BY <1>1, <1>6, <2>1, <2>2, <2>3, TeamFacts
<1>9. CASE ApproveEngineeringIntegration
  BY <1>1, <1>6, <1>9, TeamFacts DEF ApproveEngineeringIntegration
<1>10. CASE RejectSpecialist \/ \E s \in {"authorized", "rejected"} : engineeringHireDecision(s)
  <2>1. request' \in [status : ReqStatus, for : Engineers \cup {Vacant}]
    BY <1>4, <1>5, <1>10 DEF RejectSpecialist, engineeringHireDecision
  <2>2. UNCHANGED <<engBid, needs, integrated>>
    BY <1>10 DEF RejectSpecialist, engineeringHireDecision
  <2>3. QED
    BY <1>1, <1>6, <2>1, <2>2, TeamFacts
<1>11. ASSUME NEW approved \in BOOLEAN, VerifyEngineeringRequest(approved) PROVE ContractsInv'
  <2>1. PICK s \in ReqStatus : SetRequest(s)
    BY <1>5, <1>11 DEF VerifyEngineeringRequest
  <2>2. needs' \in BOOLEAN
    BY <1>1, <1>11, TeamFacts DEF VerifyEngineeringRequest
  <2>3. UNCHANGED <<engBid, integrated>>
    BY <1>11 DEF VerifyEngineeringRequest
  <2>4. QED
    BY <1>1, <1>4, <1>6, <2>1, <2>2, <2>3, TeamFacts
<1>12. QED
  BY <1>7, <1>8, <1>9, <1>10, <1>11 DEF EngineeringNext

LEMMA VendorStep ==
  ASSUME ContractsInv, topic = "engineering", UNCHANGED <<hireVars, exitVars, topic>>, VendorNext
  PROVE  ContractsInv'
<1>1. topic \in Teamwork
  BY DEF Teamwork
<1>2. ASSUME NEW p \in Clients, NEW v \in Vendors, NEW fee \in Fees, BeginImport(p, v, fee) PROVE ContractsInv'
  <2>1. PICK s : s = [at |-> "import", id |-> v, fee |-> fee]
    OBVIOUS
  <2>2. Considers(p, s)
    BY <1>2, <2>1 DEF BeginImport
  <2>3. TeamSession(s)
    BY <2>1 DEF TeamSession, Verbs
  <2>4. QED
    BY <1>1, <2>2, <2>3, TeamReads
<1>3. ASSUME NEW p \in Clients, ImportExternalVendor(p) PROVE ContractsInv'
  <2>1. session[p].id \in Vendors /\ session[p].fee \in Fees
    BY <1>1, <1>3, TeamFacts DEF ImportExternalVendor, At, TeamSession
  <2>2. PICK v \in References, fee \in Nat : Book(v, fee)
    BY <1>3, <2>1, VendorsAreRefs DEF ImportExternalVendor
  <2>3. booked' \in [References -> Nat]
    BY <2>2, BookedRow DEF ContractsInv
  <2>4. UNCHANGED <<teamVars, contested>> /\ Done(p) /\ sub' = sub
    BY <1>3 DEF ImportExternalVendor, teamVars
  <2>5. TeamKeeps
    BY <1>1, <2>3, <2>4 DEF TeamKeeps, ContractsInv
  <2>6. QED
    BY <2>4, <2>5, SubsStill, TeamRowsStill, TeamDone
<1>4. QED
  BY <1>2, <1>3 DEF VendorNext

LEMMA TeamNextStep ==
  ASSUME ContractsInv, TeamNext, UNCHANGED <<hireVars, exitVars, topic>> PROVE ContractsInv'
BY SubStep, EngineeringStep, VendorStep DEF TeamNext

(***************************************************************************)
(* Exit.                                                                   *)
(***************************************************************************)
\* A termination that was asked for stays asked for, and one that was answered answered.
DealsKept == \A d \in Deals : /\ deal[d].status # "none" => deal'[d].status # "none"
                              /\ deal[d].status \notin {"none", "pending"} => deal'[d].status \notin {"none", "pending"}

ExitKeeps ==
  /\ topic \in Ends /\ UNCHANGED <<hireVars, teamVars, topic>>
  /\ booked' = booked /\ contested' \in BOOLEAN

LEMMA ExitSessionKept == ASSUME NEW t, ExitSession(t), DealsKept PROVE ExitSession(t)'
BY DEF ExitSession, DealsKept

LEMMA ExitStepAlone ==
  ASSUME ContractsInv, ExitKeeps, UNCHANGED session, DealsKept, ExitRows' PROVE ContractsInv'
<1>1. topic' = topic /\ topic \in Ends /\ topic \notin Hires /\ topic \notin Teamwork
  BY DEF ExitKeeps, Hires, Teamwork, Ends
<1>2. ASSUME NEW q \in Clients PROVE ExitSession(session[q])'
  <2>1. PICK t : t = session[q]
    OBVIOUS
  <2>2. ExitSession(t)
    BY <1>1, <2>1 DEF ContractsInv, Sessions
  <2>3. ExitSession(t)' /\ session'[q] = t
    BY <2>1, <2>2, ExitSessionKept
  <2>4. QED
    BY <2>3 DEF ExitSession
<1>3. Sessions'
  BY <1>1, <1>2 DEF Sessions, ContractsInv
<1>4. HireRows' /\ TeamRows'
  BY <1>1, HireRowsApart, TeamRowsStill DEF ExitKeeps
<1>5. QED
  BY <1>1, <1>3, <1>4 DEF ContractsInv, ExitKeeps

LEMMA ExitStep ==
  ASSUME ContractsInv, ExitKeeps, NEW p \in Clients, NEW s, session' = [session EXCEPT ![p] = s], ExitSession(s)',
         DealsKept, ExitRows'
  PROVE  ContractsInv'
<1>1. topic' = topic /\ topic \in Ends /\ topic \notin Hires /\ topic \notin Teamwork
  BY DEF ExitKeeps, Hires, Teamwork, Ends
<1>2. ASSUME NEW q \in Clients PROVE ExitSession(session[q])'
  <2>1. PICK t : t = IF q = p THEN s ELSE session[q]
    OBVIOUS
  <2>2. t = s \/ ExitSession(t)
    BY <1>1, <2>1 DEF ContractsInv, Sessions
  <2>3. CASE t = s
    <3>1. session'[q] = s
      BY <2>1, <2>3 DEF ContractsInv, Sessions
    <3>2. QED
      BY <3>1 DEF ExitSession
  <2>4. CASE ExitSession(t)
    <3>1. ExitSession(t)' /\ session'[q] = t
      BY <2>1, <2>4, ExitSessionKept DEF ContractsInv, Sessions
    <3>2. QED
      BY <3>1 DEF ExitSession
  <2>5. QED
    BY <2>2, <2>3, <2>4
<1>3. session' = [q \in Clients |-> session'[q]]
  BY DEF ContractsInv, Sessions
<1>4. Sessions'
  BY <1>1, <1>2, <1>3 DEF Sessions
<1>5. HireRows' /\ TeamRows'
  BY <1>1, HireRowsApart, TeamRowsStill DEF ExitKeeps
<1>6. QED
  BY <1>1, <1>4, <1>5 DEF ContractsInv, ExitKeeps

LEMMA ExitDone ==
  ASSUME ContractsInv, ExitKeeps, NEW p \in Clients, Done(p), DealsKept, ExitRows'
  PROVE  ContractsInv'
<1>1. PICK s : s = Idle
  OBVIOUS
<1>2. session' = [session EXCEPT ![p] = s] /\ ExitSession(s)'
  BY <1>1 DEF Done, Idle, ExitSession
<1>3. QED
  BY <1>2, ExitStep

LEMMA DealsStill == UNCHANGED deal => DealsKept
BY DEF DealsKept

LEMMA ExitReads ==
  ASSUME ContractsInv, topic \in Ends, UNCHANGED <<hireVars, teamVars, topic>>, NEW p \in Clients, NEW s,
         Reads(p, s), ExitSession(s)
  PROVE  ContractsInv'
<1>1. ExitKeeps /\ session' = [session EXCEPT ![p] = s] /\ UNCHANGED exitVars /\ deal' = deal
  BY DEF ExitKeeps, Reads, Serve, ContractsInv, exitVars
<1>2. ExitSession(s)'
  BY <1>1 DEF ExitSession
<1>3. QED
  BY <1>1, <1>2, DealsStill, ExitRowsStill, ExitStep

LEMMA ExitFacts ==
  ASSUME ContractsInv, topic \in Ends
  PROVE  /\ \A p \in Clients : ExitSession(session[p])
         /\ workspace \in Workspaces /\ engaged \in BOOLEAN /\ deleted \in BOOLEAN
         /\ deal \in [Deals -> [status : DealStatus, by : Parties]]
         /\ FreezeHasPending
         /\ contested \in BOOLEAN /\ booked \in [References -> Nat]
BY DEF ContractsInv, Sessions, ExitRows, ExitTypeOK

\* The status of the project is written, and not frozen by it.
LEMMA Thaws ==
  ASSUME ContractsInv, topic \in Ends, UNCHANGED deal, workspace' = workspace \/ workspace' \in Workspaces \ {"termination_pending"},
         engaged' \in BOOLEAN, deleted' \in BOOLEAN
  PROVE  ExitRows' /\ DealsKept
<1>1. workspace' \in Workspaces
  BY ExitFacts
<1>2. FreezeHasPending'
  BY ExitFacts DEF FreezeHasPending, Frozen
<1>3. QED
  BY <1>1, <1>2, DealsStill, ExitFacts DEF ExitRows, ExitTypeOK

\* The row of one termination changes.
LEMMA DealWritten ==
  ASSUME ContractsInv, topic \in Ends, NEW d \in Deals, NEW row \in [status : DealStatus, by : Parties],
         deal' = [deal EXCEPT ![d] = row],
         deal[d].status # "none" => row.status \notin {"none", "pending"},
         workspace' \in Workspaces, workspace' = "termination_pending" => row.status = "pending" \/ (workspace' = workspace /\ deal[d].status # "pending"),
         UNCHANGED <<engaged, deleted>>
  PROVE  ExitRows' /\ DealsKept
<1>1. deal' \in [Deals -> [status : DealStatus, by : Parties]] /\ deal'[d] = row /\ \A e \in Deals \ {d} : deal'[e] = deal[e]
  BY ExitFacts
<1>2. DealsKept
  BY <1>1 DEF DealsKept
<1>3. FreezeHasPending'
  BY <1>1, ExitFacts DEF FreezeHasPending, Frozen
<1>4. QED
  BY <1>1, <1>2, <1>3, ExitFacts DEF ExitRows, ExitTypeOK

LEMMA DealStep ==
  ASSUME ContractsInv, topic \in Ends, UNCHANGED <<hireVars, teamVars, topic>>, DealNext
  PROVE  ContractsInv'
<1>1. ASSUME UNCHANGED <<contested, booked>> PROVE ExitKeeps
  BY <1>1, ExitFacts DEF ExitKeeps
<1>2. ASSUME NEW p \in Clients, NEW who \in Parties, BeginInitiate(p, who) PROVE ContractsInv'
  <2>1. PICK s : s = [at |-> "initiate", who |-> who]
    OBVIOUS
  <2>2. Reads(p, s) /\ ExitSession(s)
    BY <1>2, <2>1 DEF BeginInitiate, ExitSession
  <2>3. QED
    BY <2>2, ExitReads
<1>3. ASSUME NEW p \in Clients, NEW d \in Deals, InitiateMutualTermination(p, d) PROVE ContractsInv'
  <2>1. session[p].who \in Parties
    BY <1>3, ExitFacts DEF InitiateMutualTermination, At, ExitSession
  <2>2. PICK row \in [status : DealStatus, by : Parties] : row = [status |-> "pending", by |-> session[p].who]
    BY <2>1 DEF DealStatus
  <2>3. deal' = [deal EXCEPT ![d] = row] /\ row.status = "pending" /\ deal[d].status = "none" /\ UNCHANGED <<engaged, deleted, contested, booked>>
    BY <1>3, <2>2 DEF InitiateMutualTermination, NoDeal
  <2>4. workspace' \in Workspaces
    BY <1>3 DEF InitiateMutualTermination, Workspaces
  <2>5. ExitRows' /\ DealsKept
    BY <2>2, <2>3, <2>4, DealWritten
  <2>6. QED
    BY <1>1, <1>3, <2>3, <2>5, ExitDone DEF InitiateMutualTermination
<1>4. ASSUME NEW p \in Clients, NEW d \in Deals, NEW answer \in Answers, NEW who, BeginRespond(p, d, who, answer) PROVE ContractsInv'
  <2>1. PICK s : s = [at |-> "respond", id |-> d, answer |-> answer]
    OBVIOUS
  <2>2. Reads(p, s) /\ ExitSession(s)
    BY <1>4, <2>1 DEF BeginRespond, ExitSession
  <2>3. QED
    BY <2>2, ExitReads
<1>5. ASSUME NEW p \in Clients, NEW d \in Deals, BeginEscalate(p, d) PROVE ContractsInv'
  <2>1. PICK s : s = [at |-> "escalate", id |-> d]
    OBVIOUS
  <2>2. Reads(p, s) /\ ExitSession(s)
    BY <1>5, <2>1 DEF BeginEscalate, ExitSession
  <2>3. QED
    BY <2>2, ExitReads
<1>6. ASSUME NEW d \in Deals, NEW st \in {"accepted", "rejected", "escalated"}
      PROVE  /\ [deal[d] EXCEPT !.status = st] \in [status : DealStatus, by : Parties]
             /\ [deal[d] EXCEPT !.status = st].status \notin {"none", "pending"}
  <2>1. deal[d] \in [status : DealStatus, by : Parties] /\ st \in DealStatus
    BY ExitFacts DEF DealStatus
  <2>2. QED
    BY <2>1
<1>7. ASSUME NEW p \in Clients, RespondMutualTermination(p) PROVE ContractsInv'
  <2>1. PICK d \in Deals, st \in {"accepted", "rejected"} : d = session[p].id /\ st = session[p].answer
    BY <1>7, ExitFacts DEF RespondMutualTermination, At, ExitSession, Answers
  <2> DEFINE row == [deal[d] EXCEPT !.status = st]
  <2>2. row \in [status : DealStatus, by : Parties] /\ row.status \notin {"none", "pending"}
    BY <1>6
  <2>3. deal' = [deal EXCEPT ![d] = row]
    BY <1>7, <2>1 DEF RespondMutualTermination
  <2> HIDE DEF row
  <2>4. workspace' \in Workspaces /\ workspace' # "termination_pending" /\ UNCHANGED <<engaged, deleted, contested, booked>>
    BY <1>7 DEF RespondMutualTermination, Workspaces, Over
  <2>5. ExitRows' /\ DealsKept
    BY <2>2, <2>3, <2>4, DealWritten
  <2>6. QED
    BY <1>1, <1>7, <2>4, <2>5, ExitDone DEF RespondMutualTermination
<1>8. ASSUME NEW p \in Clients, MarkEscalated(p) PROVE ContractsInv'
  <2>1. PICK d \in Deals : d = session[p].id /\ deal[d].status \notin {"none", "pending"}
    BY <1>8, ExitFacts DEF MarkEscalated, At, ExitSession
  <2> DEFINE row == [deal[d] EXCEPT !.status = "escalated"]
  <2>2. row \in [status : DealStatus, by : Parties] /\ row.status \notin {"none", "pending"}
    BY <1>6
  <2>3. deal' = [deal EXCEPT ![d] = row]
    BY <1>8, <2>1 DEF MarkEscalated
  <2> HIDE DEF row
  <2>4. UNCHANGED <<workspace, engaged, deleted, contested, booked>>
    BY <1>8 DEF MarkEscalated
  <2>5. ExitRows' /\ DealsKept
    BY <2>1, <2>2, <2>3, <2>4, ExitFacts, DealWritten
  <2>6. PICK s : s = [session[p] EXCEPT !.at = "escalated"]
    OBVIOUS
  <2>7. session' = [session EXCEPT ![p] = s]
    BY <1>8, <2>6 DEF MarkEscalated, To
  <2>8. s.at = "escalated" /\ "at" \in DOMAIN s
    BY <1>8, <2>6, ExitFacts DEF ExitSession
  <2>9. ExitSession(s)'
    BY <2>8 DEF ExitSession
  <2>10. QED
    BY <1>1, <2>4, <2>5, <2>7, <2>9, ExitStep
<1>9. ASSUME NEW p \in Clients, LookForDispute(p) PROVE ContractsInv'
  <2>1. UNCHANGED <<exitVars, contested, booked>> /\ deal' = deal
    BY <1>9 DEF LookForDispute, exitVars
  <2>2. ExitKeeps /\ DealsKept /\ ExitRows'
    BY <1>1, <2>1, DealsStill, ExitRowsStill
  <2>3. CASE Done(p)
    BY <2>2, <2>3, ExitDone
  <2>4. CASE To(p, "dispute")
    <3>1. PICK s : s = [session[p] EXCEPT !.at = "dispute"]
      OBVIOUS
    <3>2. session' = [session EXCEPT ![p] = s]
      BY <2>4, <3>1 DEF To
    <3>3. s.at = "dispute" /\ "at" \in DOMAIN s
      BY <3>1, ExitFacts DEF ExitSession
    <3>4. ExitSession(s)'
      BY <3>3 DEF ExitSession
    <3>5. QED
      BY <2>2, <3>2, <3>4, ExitStep
  <2>5. QED
    BY <1>9, <2>3, <2>4 DEF LookForDispute
<1>10. ASSUME NEW p \in Clients, OpenDispute(p) PROVE ContractsInv'
  <2>1. ExitKeeps /\ UNCHANGED exitVars /\ deal' = deal /\ Done(p)
    BY <1>10 DEF OpenDispute, ExitKeeps, exitVars
  <2>2. QED
    BY <2>1, DealsStill, ExitRowsStill, ExitDone
<1>11. QED
  BY <1>2, <1>3, <1>4, <1>5, <1>7, <1>8, <1>9, <1>10 DEF DealNext

LEMMA EndingStep ==
  ASSUME ContractsInv, topic \in Ends, UNCHANGED <<hireVars, teamVars, topic>>, EndingNext
  PROVE  ContractsInv'
<1>1. ASSUME booked' = booked, contested' \in BOOLEAN PROVE ExitKeeps
  BY <1>1 DEF ExitKeeps
<1>2. CASE AdminForceTerminate \/ \E activates \in BOOLEAN : Engage(activates)
  <2>1. UNCHANGED <<deal, deleted, session, contested, booked>>
    BY <1>2 DEF AdminForceTerminate, Engage, gatewayVars
  <2>2. engaged' \in BOOLEAN /\ (workspace' = workspace \/ workspace' \in Workspaces \ {"termination_pending"})
    BY <1>2, ExitFacts DEF AdminForceTerminate, Engage, Workspaces, Over
  <2>3. ExitRows' /\ DealsKept
    BY <2>1, <2>2, ExitFacts, Thaws
  <2>4. ExitKeeps
    BY <1>1, <2>1, ExitFacts
  <2>5. QED
    BY <2>1, <2>3, <2>4, ExitStepAlone
<1>3. CASE CancelProject
  <2>1. UNCHANGED <<deal, engaged, deleted, session, booked>> /\ contested' = FALSE
    BY <1>3 DEF CancelProject
  <2>2. workspace' \in Workspaces \ {"termination_pending"}
    BY <1>3 DEF CancelProject, Workspaces, Over
  <2>3. ExitRows' /\ DealsKept
    BY <2>1, <2>2, ExitFacts, Thaws
  <2>4. contested' \in BOOLEAN
    BY <2>1
  <2>5. ExitKeeps
    BY <1>1, <2>1, <2>4
  <2>6. QED
    BY <2>1, <2>3, <2>5, ExitStepAlone
<1>4. ASSUME NEW p \in Clients, BeginComplete(p) \/ BeginDestroy(p) \/ BeginPart(p) PROVE ContractsInv'
  <2>1. PICK s : s \in {[at |-> "complete"], [at |-> "destroy"], [at |-> "part", active |-> workspace = "in_progress"]} /\ Reads(p, s)
    BY <1>4 DEF BeginComplete, BeginDestroy, BeginPart
  <2>2. ExitSession(s)
    BY <2>1 DEF ExitSession
  <2>3. QED
    BY <2>1, <2>2, ExitReads
<1>5. ASSUME NEW p \in Clients, MarkComplete(p) \/ DestroyProject(p) \/ Part(p) PROVE ContractsInv'
  <2>1. UNCHANGED <<deal, contested, booked>> /\ Done(p)
    BY <1>5 DEF MarkComplete, DestroyProject, Part
  <2>2. workspace' = workspace \/ workspace' \in Workspaces \ {"termination_pending"}
    BY <1>5 DEF MarkComplete, DestroyProject, Part, Workspaces, Over
  <2>3. engaged' \in BOOLEAN /\ deleted' \in BOOLEAN
    BY <1>5, ExitFacts DEF MarkComplete, DestroyProject, Part
  <2>4. ExitRows' /\ DealsKept
    BY <2>1, <2>2, <2>3, Thaws
  <2>5. ExitKeeps
    BY <1>1, <2>1, ExitFacts
  <2>6. QED
    BY <2>1, <2>4, <2>5, ExitDone
<1>6. QED
  BY <1>2, <1>3, <1>4, <1>5 DEF EndingNext

LEMMA ExitNextStep ==
  ASSUME ContractsInv, ExitNext, UNCHANGED <<hireVars, teamVars, topic>> PROVE ContractsInv'
BY DealStep, EndingStep DEF ExitNext, Ends

(***************************************************************************)
(* Stages.                                                                 *)
(***************************************************************************)
\* The rows are those of StageMoney throughout; its requests are there in the
\* behaviours about stages.
StagesInv == StageRows /\ (topic = "stages" => PlanSessions)

LEMMA StagesStill ==
  ASSUME StagesInv, UNCHANGED <<stageVars, topic>>, topic = "stages" => PlanSessions'
  PROVE  StagesInv'
BY StillMoves, MovesKeepRows DEF StagesInv

\* Every step leaves the rows alone or is one of StageMoney.
LEMMA StagesStep ==
  ASSUME StagesInv, [Next]_<<gatewayVars, hireVars, teamVars, exitVars, stageVars, topic>>
  PROVE  Moves /\ StagesInv'
<1>1. CASE UNCHANGED <<gatewayVars, hireVars, teamVars, exitVars, stageVars, topic>>
  <2>1. topic = "stages" => PlanSessions'
    BY <1>1, StillMoves, SessionsStill DEF StagesInv, gatewayVars
  <2>2. QED
    BY <1>1, <2>1, StillMoves, StagesStill DEF StagesInv
<1>2. CASE Next /\ UNCHANGED stageVars /\ topic # "stages"
  BY <1>2, StillMoves, StagesStill DEF Next, StagesInv
<1>3. CASE Next /\ (\E p \in Clients : Leave(p)) /\ UNCHANGED stageVars
  <2>1. topic = "stages" => PlanSessions'
    BY <1>3, StillMoves, IdleSession, SessionsWith DEF Leave, Done, StagesInv
  <2>2. QED
    BY <1>3, <2>1, StillMoves, StagesStill DEF Next, StagesInv
<1>4. CASE Next /\ topic = "stages" /\ StageNext
  <2>1. Moves /\ PlanSessions'
    BY <1>4, StageMoves, StageSessions DEF StagesInv
  <2>2. QED
    BY <1>4, <2>1, MovesKeepRows DEF Next, StagesInv
<1>5. ASSUME HiringNext \/ TeamNext \/ ExitNext \/ topic \in {"fees", "engineering"} PROVE topic # "stages"
  BY <1>5 DEF HiringNext, TeamNext, ExitNext
<1>6. QED
  BY <1>1, <1>2, <1>3, <1>4, <1>5 DEF Next

LEMMA StagesBegin == Init => StagesInv
<1> SUFFICES ASSUME Init PROVE StagesInv
  OBVIOUS
<1>1. PICK t \in Imported : StageInit(t)
  BY DEF Init
<1>2. t \in StageRow /\ Exact(t)
  <2>1. ASSUME NEW h \in {5, 100}, t = [status |-> "pending", amount |-> 100, retention |-> h, net |-> 100 - h, released |-> FALSE]
        PROVE  t \in StageRow /\ Exact(t)
    <3>1. "pending" \in TerminStatus /\ h \in Int
      BY DEF TerminStatus, Editable
    <3>2. QED
      BY <2>1, <3>1 DEF StageRow, Exact
  <2>2. QED
    BY <2>1, RowShape DEF Imported
<1>3. PlanSessions
  <2>1. session = [p \in Clients |-> Idle]
    BY DEF Init, GatewayInit
  <2>2. QED
    BY <2>1, IdleSession DEF PlanSessions
<1>4. QED
  BY <1>1, <1>2, <1>3, StagesStart DEF StagesInv

\* StagesInv holds in every state.
THEOREM StagesInvariance == Spec => []StagesInv
<1>1. StagesInv /\ [Next]_<<gatewayVars, hireVars, teamVars, exitVars, stageVars, topic>> => StagesInv'
  BY StagesStep
<1>2. QED
  BY <1>1, StagesBegin, PTL DEF Spec

\* What is not yet booked of a stage is the halves not yet paid, however edits,
\* replacements and payments of stages overlap.
THEOREM StagesAddUp == Spec => []PaidAddsUp
<1>1. StagesInv => PaidAddsUp
  BY RowsAddUp DEF StagesInv
<1>2. QED
  BY <1>1, StagesInvariance, PTL

\* No step changes the amounts of a stage that exists.
THEOREM StagesStay == Spec => AmountsStay
<1>1. StagesInv /\ [Next]_<<gatewayVars, hireVars, teamVars, exitVars, stageVars, topic>>
        => [ \A i \in Termins : Present(i) /\ Present(i)' =>
               /\ termin'[i].amount = termin[i].amount
               /\ termin'[i].net = termin[i].net /\ termin'[i].retention = termin[i].retention ]_termin
  <2> SUFFICES ASSUME StagesInv, [Next]_<<gatewayVars, hireVars, teamVars, exitVars, stageVars, topic>>,
                      NEW i \in Termins, Present(i), Present(i)'
               PROVE  SameMoney(termin'[i], termin[i])
    BY DEF SameMoney
  <2>1. Moves /\ StageRows
    BY StagesStep DEF StagesInv
  <2>2. QED
    BY <2>1, MovesKeepMoney DEF Present
<1>2. QED
  BY <1>1, StagesInvariance, PTL DEF Spec, AmountsStay

(***************************************************************************)
(* Clients that go away, and disputes.                                     *)
(***************************************************************************)
\* Of a behaviour about stages this invariant says only that nothing else moves.
LEMMA StagesAlone ==
  ASSUME ContractsInv, topic = "stages", UNCHANGED <<hireVars, teamVars, exitVars, contested, booked, topic>>,
         session' = [p \in Clients |-> session'[p]]
  PROVE  ContractsInv'
<1>1. HireRows' /\ TeamRows' /\ ExitRows'
  BY HireRowsStill, TeamRowsStill, ExitRowsStill
<1>2. topic' \notin Hires \cup Teamwork \cup Ends
  BY DEF Hires, Teamwork, Ends
<1>3. Sessions'
  BY <1>2 DEF Sessions
<1>4. QED
  BY <1>1, <1>2, <1>3 DEF ContractsInv

LEMMA LeaveStep ==
  ASSUME ContractsInv, NEW p \in Clients, Leave(p), UNCHANGED <<hireVars, teamVars, exitVars, topic>>
  PROVE  ContractsInv'
<1>1. UNCHANGED <<contested, booked>> /\ Done(p)
  BY DEF Leave
<1>2. /\ booked' \in [References -> Nat] /\ contested' \in BOOLEAN
      /\ topic \in Hires \cup Teamwork \cup Ends \cup {"stages"} /\ topic' = topic
  BY <1>1 DEF ContractsInv
<1>3. CASE topic \in Hires
  <2>1. hired' = hired /\ plan' = plan /\ HireKeeps
    BY <1>2, <1>3 DEF hireVars, contract, HireKeeps
  <2>2. HireRows'
    BY <1>1, HireRowsStill
  <2>3. QED
    BY <1>1, <1>3, <2>1, <2>2, PlanCopied, HireDone
<1>4. CASE topic \in Teamwork
  <2>1. TeamKeeps /\ sub' = sub
    BY <1>2, <1>4 DEF TeamKeeps, teamVars
  <2>2. QED
    BY <1>1, <2>1, SubsStill, TeamRowsStill, TeamDone
<1>5. CASE topic \in Ends
  <2>1. ExitKeeps /\ deal' = deal
    BY <1>1, <1>2, <1>5 DEF ExitKeeps, exitVars
  <2>2. QED
    BY <1>1, <2>1, DealsStill, ExitRowsStill, ExitDone
<1>6. CASE topic = "stages"
  <2>1. session' = [q \in Clients |-> session'[q]]
    BY <1>1 DEF ContractsInv, Sessions, Done
  <2>2. QED
    BY <1>1, <1>6, <2>1, StagesAlone
<1>7. QED
  BY <1>2, <1>3, <1>4, <1>5, <1>6

LEMMA ContestStep ==
  ASSUME ContractsInv, topic \in {"fees", "engineering"}, UNCHANGED <<session, booked>>, contested' \in BOOLEAN,
         UNCHANGED <<hireVars, teamVars, exitVars, topic>>
  PROVE  ContractsInv'
<1>1. booked' \in [References -> Nat]
  BY DEF ContractsInv
<1>2. CASE topic = "fees"
  <2>1. hired' = hired /\ plan' = plan /\ HireKeeps /\ topic \in Hires
    BY <1>1, <1>2 DEF hireVars, contract, HireKeeps, Hires
  <2>2. HireRows' /\ Locks'
    BY <2>1, HireRowsStill, LocksStill
  <2>3. QED
    BY <2>1, <2>2, HireStepAlone
<1>3. CASE topic = "engineering"
  <2>1. TeamKeeps /\ sub' = sub
    BY <1>1, <1>3 DEF TeamKeeps, teamVars, Teamwork
  <2>2. QED
    BY <2>1, SubsStill, TeamRowsStill, TeamStepAlone
<1>4. QED
  BY <1>2, <1>3

LEMMA ContractsStutter ==
  ASSUME ContractsInv, UNCHANGED <<gatewayVars, hireVars, teamVars, exitVars, stageVars, topic>> PROVE ContractsInv'
<1>1. UNCHANGED <<session, contested, booked>>
  BY DEF gatewayVars
<1>2. HireRows' /\ TeamRows' /\ ExitRows' /\ topic' = topic
  BY <1>1, HireRowsStill, TeamRowsStill, ExitRowsStill
<1>3. topic \in Hires => Locks'
  BY <1>1, LocksStill DEF hireVars, contract
<1>4. Sessions'
  BY <1>1 DEF ContractsInv, Sessions, HireSession, TeamSession, ExitSession, teamVars, exitVars, Used
<1>5. QED
  BY <1>1, <1>2, <1>3, <1>4 DEF ContractsInv

\* Every step preserves the invariant: of hiring, of teams, of exits, of stages,
\* a client that goes away, or a change of the freeze.
THEOREM ContractsInvPreserved ==
  ASSUME ContractsInv, StagesInv, [Next]_<<gatewayVars, hireVars, teamVars, exitVars, stageVars, topic>> PROVE ContractsInv'
<1>1. CASE Next
  <2>1. topic' = topic
    BY <1>1 DEF Next
  <2>2. CASE HiringNext /\ UNCHANGED <<teamVars, exitVars>>
    BY <2>1, <2>2, HiringStep
  <2>3. CASE TeamNext /\ UNCHANGED <<hireVars, exitVars>>
    BY <2>1, <2>3, TeamNextStep
  <2>4. CASE ExitNext /\ UNCHANGED <<hireVars, teamVars>>
    BY <2>1, <2>4, ExitNextStep
  <2>5. CASE topic = "stages" /\ StageNext /\ UNCHANGED Others
    <3>1. session' = [p \in Clients |-> session'[p]]
      BY <2>5, StageSessions DEF StagesInv, PlanSessions
    <3>2. UNCHANGED <<hireVars, teamVars, exitVars, contested, booked, topic>>
      BY <2>1, <2>5, StageFrame DEF Others
    <3>3. QED
      BY <2>5, <3>1, <3>2, StagesAlone
  <2>6. CASE (\E p \in Clients : Leave(p)) /\ UNCHANGED Others
    BY <2>1, <2>6, LeaveStep DEF Others
  <2>7. CASE topic \in {"fees", "engineering"} /\ Contest /\ UNCHANGED Others
    <3>1. UNCHANGED <<session, booked>> /\ contested' = ~contested
      BY <2>7 DEF Contest
    <3>2. contested' \in BOOLEAN
      BY <3>1
    <3>3. UNCHANGED <<hireVars, teamVars, exitVars>>
      BY <2>7 DEF Others
    <3>4. QED
      BY <2>1, <2>7, <3>1, <3>2, <3>3, ContestStep
  <2>8. QED
    BY <1>1, <2>2, <2>3, <2>4, <2>5, <2>6, <2>7 DEF Next
<1>2. CASE UNCHANGED <<gatewayVars, hireVars, teamVars, exitVars, stageVars, topic>>
  BY <1>2, ContractsStutter
<1>3. QED
  BY <1>1, <1>2

(***************************************************************************)
(* The start.                                                              *)
(***************************************************************************)
LEMMA BidIsRow ==
  ASSUME NEW st \in BidStatus, NEW price \in Prices \cup {0}
  PROVE  Bid(st, price) \in BidRow /\ Bid(st, price).pay = "unpaid"
<1>1. [NoBid EXCEPT !.status = st, !.price = price] \in BidRow
  BY NoBidRow DEF BidRow
<1>2. [NoBid EXCEPT !.status = st, !.price = price].pay = "unpaid"
  BY DEF NoBid
<1>3. QED
  BY <1>1, <1>2 DEF Bid

LEMMA HiringStarts ==
  ASSUME NEW r \in Roles, NEW m \in BOOLEAN, NEW x \in BidRow, NEW y \in BidRow, x.pay = "unpaid", y.pay = "unpaid",
         NEW by \in Bids \cup {Nobody}, NEW is \in ProjectIs, HiringInit(r, m, FirstBid(x, y), by, is),
         topic = "signing" => r = "kontraktor"
  PROVE  HireRows
<1>1. bid \in [Bids -> BidRow] /\ \A b \in Bids : bid[b].pay = "unpaid"
  BY DEF HiringInit, FirstBid
<1>2. plan = {} /\ snapshot = {} /\ role = r /\ managed = m /\ hired = by /\ projectIs = is /\ stagePaid = FALSE /\ feeVerified = FALSE
  BY DEF HiringInit
<1>3. HiringTypeOK
  <2>1. \A b \in Bids : bid[b] \in BidRow
    BY <1>1
  <2>2. stagePaid \in BOOLEAN /\ feeVerified \in BOOLEAN
    BY <1>2
  <2>3. QED
    BY <1>2, <2>1, <2>2 DEF HiringTypeOK, BidRow
<1>4. OnePlan /\ SignedPlanIsPlan /\ BidPaidIsBooked
  BY <1>1, <1>2 DEF OnePlan, SignedPlanIsPlan, BidPaidIsBooked, Copies
<1>5. QED
  BY <1>1, <1>2, <1>3, <1>4 DEF HireRows

LEMMA ContractorBids == Contractor \in Bids
BY MinIn, SomeoneBids, BidsAreRefs, ReferencesAreNats DEF Contractor

LEMMA ContractsStart == Init => ContractsInv
<1> SUFFICES ASSUME Init PROVE ContractsInv
  OBVIOUS
<1>1. /\ topic \in Hires \cup Teamwork \cup Ends \cup {"stages"}
      /\ GatewayInit /\ TeamInit /\ ExitInit
  BY DEF Init, Hires, Teamwork, Ends
<1>2. session = [p \in Clients |-> [at |-> "idle"]] /\ booked = [r \in References |-> 0] /\ contested = FALSE
  BY <1>1 DEF GatewayInit, Idle
<1>3. \A p \in Clients : session[p] = [at |-> "idle"]
  BY <1>2
<1>4. Sessions
  BY <1>2, <1>3 DEF Sessions, HireSession, TeamSession, ExitSession, BidPoints, Signing, Held, Verbs
<1>5. Locks
  BY <1>3 DEF Locks, At, Held
<1>6. TeamRows
  <2>1. NoSub \in [status : SubStatus, user : Engineers \cup {Vacant}] /\ NoRequest \in [status : ReqStatus, for : Engineers \cup {Vacant}]
    BY DEF NoSub, NoRequest, SubStatus, ReqStatus
  <2>2. \A i \in Subs : ~Used(i)
    BY <1>1 DEF TeamInit, NoSub, Used
  <2>3. {"pending", "none"} \subseteq EngBid
    BY DEF EngBid
  <2>4. needs \in BOOLEAN /\ integrated \in BOOLEAN
    BY <1>1 DEF TeamInit
  <2>5. QED
    BY <1>1, <2>1, <2>2, <2>3, <2>4 DEF TeamInit, TeamRows, TeamTypeOK
<1>7. ExitRows
  <2>1. NoDeal \in [status : DealStatus, by : Parties]
    BY OwnerIsParty DEF NoDeal, DealStatus, Owner
  <2>2. engaged \in BOOLEAN /\ deleted \in BOOLEAN /\ workspace = "open"
    BY <1>1 DEF ExitInit
  <2>3. QED
    BY <1>1, <2>1, <2>2 DEF ExitInit, ExitRows, ExitTypeOK, Workspaces, FreezeHasPending, Frozen
<1>8. HireRows
  <2> DEFINE None == NoBid
  <2>1. NoBid \in BidRow /\ NoBid.pay = "unpaid"
    BY NoBidRow DEF NoBid
  <2>2. \A st \in BidStatus, price \in Prices \cup {0} : Bid(st, price) \in BidRow /\ Bid(st, price).pay = "unpaid"
    BY BidIsRow
  <2>3. {"pending", "invited", "contract_pending", "shortlisted", "accepted"} \subseteq BidStatus
    BY DEF BidStatus
  <2>4. {"arsitek", "notaris", "specialist", "kontraktor", "pm"} \subseteq Roles /\ {"open", "in_progress"} \subseteq ProjectIs
    BY DEF Roles, ProjectIs
  <2>5. \E r \in Roles, m \in BOOLEAN, x \in BidRow, y \in BidRow, by \in Bids \cup {Nobody}, is \in ProjectIs :
          /\ x.pay = "unpaid" /\ y.pay = "unpaid" /\ HiringInit(r, m, FirstBid(x, y), by, is)
          /\ topic = "signing" => r = "kontraktor"
    <3>1. CASE topic = "bidding"
      BY <2>1, <2>4, <3>1 DEF Init, NoBids
    <3>2. CASE topic \in {"pm", "subs", "engineering", "deals", "endings", "stages"}
      BY <2>1, <2>4, <3>2 DEF Init, NoBids, NoHire
    <3>3. CASE topic = "negotiation"
      BY <2>2, <2>3, <2>4, <3>3 DEF Init
    <3>4. CASE topic = "signing"
      BY <2>2, <2>3, <2>4, <3>4, ContractorBids DEF Init
    <3>5. CASE topic = "fees"
      BY <2>2, <2>3, <2>4, <3>5, ContractorBids DEF Init
    <3>6. QED
      BY <3>1, <3>2, <3>3, <3>4, <3>5 DEF Init
  <2>6. QED
    BY <2>5, HiringStarts
<1>9. QED
  BY <1>1, <1>2, <1>4, <1>5, <1>6, <1>7, <1>8 DEF ContractsInv

(***************************************************************************)
(* The properties.                                                         *)
(***************************************************************************)
\* ContractsInv holds in every state.
THEOREM ContractsInvariance == Spec => []ContractsInv
<1>1. ContractsInv /\ StagesInv /\ [Next]_<<gatewayVars, hireVars, teamVars, exitVars, stageVars, topic>> => ContractsInv'
  BY ContractsInvPreserved
<1>2. QED
  BY <1>1, ContractsStart, StagesInvariance, PTL DEF Spec

\* Every variable of hiring, teams, exit and stages keeps its type.
THEOREM ContractsTypes == Spec => []TypeOK
<1>1. ContractsInv /\ StagesInv => TypeOK
  BY RowsTyped DEF ContractsInv, StagesInv, TypeOK, HireRows, TeamRows, ExitRows
<1>2. QED
  BY <1>1, ContractsInvariance, StagesInvariance, PTL

\* However signatures of one contract overlap, one payment plan is left of it.
THEOREM OnePlanEach == Spec => []OnePlanPerContract
<1>1. ContractsInv => OnePlanPerContract
  <2> SUFFICES ASSUME ContractsInv, NEW b \in Bids PROVE Cardinality(Copies(plan, b)) <= 1
    BY DEF OnePlanPerContract
  <2>1. Copies(plan, b) = {} \/ \E t : Copies(plan, b) = {t}
    BY DEF ContractsInv, HireRows, OnePlan, Copies
  <2>2. CASE Copies(plan, b) = {}
    BY <2>2, FS_EmptySet
  <2>3. ASSUME NEW t, Copies(plan, b) = {t} PROVE Cardinality(Copies(plan, b)) <= 1
    BY <2>3, FS_Singleton
  <2>4. QED
    BY <2>1, <2>2, <2>3
<1>2. QED
  BY <1>1, ContractsInvariance, PTL

\* The contract both have signed holds the plan that is in force.
THEOREM SignedPlan == Spec => []SignedPlanIsPlan
<1>1. ContractsInv => SignedPlanIsPlan
  BY DEF ContractsInv, HireRows
<1>2. QED
  BY <1>1, ContractsInvariance, PTL

\* The fee of a bid counts as paid only with its row in the ledger.
THEOREM BidsPaidBooked == Spec => []BidPaidIsBooked
<1>1. ContractsInv => BidPaidIsBooked
  BY DEF ContractsInv, HireRows
<1>2. QED
  BY <1>1, ContractsInvariance, PTL

\* A workspace is frozen for termination only while somebody can still answer.
THEOREM FreezesPend == Spec => []FreezeHasPending
<1>1. ContractsInv => FreezeHasPending
  BY DEF ContractsInv, ExitRows
<1>2. QED
  BY <1>1, ContractsInvariance, PTL

\* Of two hires at a time one is made: the role is filled only while it is empty.
THEOREM HiresOne == Spec => OneHire
<1>1. ContractsInv /\ [Next]_<<gatewayVars, hireVars, teamVars, exitVars, stageVars, topic>>
        => [\A p \in Clients : At(p, "hire") /\ session'[p].at = "idle" /\ hired' # hired => hired = Nobody]_<<session, hired>>
  <2> SUFFICES ASSUME ContractsInv, [Next]_<<gatewayVars, hireVars, teamVars, exitVars, stageVars, topic>>, NEW p \in Clients, At(p, "hire"), hired' # hired
               PROVE  hired = Nobody
    OBVIOUS
  <2>1. topic \in Hires
    <3>1. HiringNext
      BY DEF Next, Others, hireVars
    <3>2. QED
      BY <3>1 DEF HiringNext, Hires
  <2>2. QED
    BY <2>1 DEF ContractsInv, Locks
<1>2. QED
  BY <1>1, ContractsInvariance, PTL DEF Spec, OneHire

\* What is left of the ceiling is found by summing over the references.
LEMMA SpentIsSum == Spent = SumOver(booked, References)
BY DEF Spent, SumOver

\* What is held against the rest of the ceiling, and booked, fits it.
LEMMA BookFits ==
  ASSUME SpentIsCovered, booked \in [References -> Nat], NEW r \in References, NEW n \in Nat,
         Covered(r, n), Book(r, n)
  PROVE  SpentIsCovered'
<1>1. Spent = SumOver(booked, References) /\ Spent' = SumOver(booked', References)
  <2>1. (Spent = SumOver(booked, References))'
    BY SpentIsSum, PTL
  <2>2. QED
    BY <2>1, SpentIsSum
<1>2. Weights(booked, References)
  BY FinitelyMany DEF Weights
<1>3. CASE booked[r] > 0
  BY <1>1, <1>3 DEF Book, SpentIsCovered
<1>4. CASE ~(booked[r] > 0)
  <2>1. booked[r] = 0 /\ booked' = [booked EXCEPT ![r] = n]
    BY <1>4 DEF Book
  <2>2. booked'[r] = n /\ \A q \in References \ {r} : booked'[q] = booked[q]
    BY <2>1
  <2>3. SumOver(booked', References) = SumOver(booked, References) - booked[r] + booked'[r]
    BY <1>2, <2>2, SumUpdate
  <2>4. SumOver(booked, References) \in Int
    BY <1>2, SumInt
  <2>5. n <= Funds - Spent
    BY <1>4 DEF Covered, Left
  <2>6. QED
    BY <1>1, <2>1, <2>2, <2>3, <2>4, <2>5, ReferencesAreNats DEF SpentIsCovered
<1>5. QED
  BY <1>3, <1>4

LEMMA SpentStill == ASSUME SpentIsCovered, UNCHANGED booked PROVE SpentIsCovered'
<1>1. (Spent = SumOver(booked, References))'
  BY SpentIsSum, PTL
<1>2. QED
  BY <1>1, SpentIsSum DEF SpentIsCovered

\* Every booking was held against the rest of the ceiling under the project lock.
BookedWithin == UNCHANGED booked \/ \E r \in References, n \in Nat : Covered(r, n) /\ Book(r, n)

LEMMA FeesWithin == ASSUME ContractsInv, FeeNext PROVE BookedWithin
<1>1. \A b \in Bids : b \in References /\ bid[b].price \in Nat
  BY BidsAreRefs, PriceIsNat DEF ContractsInv, HireRows, HiringTypeOK
<1>2. ASSUME NEW b \in Bids, Payable(b, bid[b].price), Book(b, bid[b].price) PROVE BookedWithin
  BY <1>1, <1>2 DEF Payable, BookedWithin
<1>3. ASSUME NEW p \in Clients, VerifyPayment(p) PROVE BookedWithin
  BY <1>2, <1>3 DEF VerifyPayment, BookedWithin
<1>4. ASSUME NEW b \in Bids, AcceptBidProof(b) \/ MarkPaidBid(b) \/ MarkPaidRecommended(b) PROVE BookedWithin
  BY <1>2, <1>4 DEF AcceptBidProof, MarkPaidBid, MarkPaidRecommended, BookedWithin
<1>5. QED
  BY <1>3, <1>4 DEF FeeNext, BeginBidProof, StoreBidProof, BeginVerifyPayment, RejectBidProof, OnlyBid, Read, BookedWithin

LEMMA VendorsWithin == ASSUME ContractsInv, topic = "engineering", VendorNext PROVE BookedWithin
<1>1. ASSUME NEW p \in Clients, ImportExternalVendor(p) PROVE BookedWithin
  <2>1. session[p].id \in Vendors /\ session[p].fee \in Fees
    BY <1>1, TeamFacts DEF ImportExternalVendor, At, TeamSession, Teamwork
  <2>2. PICK v \in References, fee \in Nat : Book(v, fee) /\ (fee = 0 \/ Covered(v, fee))
    BY <1>1, <2>1, VendorsAreRefs DEF ImportExternalVendor
  <2>3. fee = 0 => UNCHANGED booked
    BY <2>2 DEF Book, ContractsInv
  <2>4. QED
    BY <2>2, <2>3 DEF BookedWithin
<1>2. QED
  BY <1>1 DEF VendorNext, BeginImport, Considers, BookedWithin

\* Hiring books nothing but fees, and the end of a project nothing.
LEMMA HiringBooksFees == ASSUME HiringNext, ~FeeNext PROVE UNCHANGED booked
<1>1. CASE BidNext
  BY <1>1 DEF BidNext, InviteProfessional, RejectInvite, BeginSubmit, BeginAcceptInvite, BeginShortlist, BeginDecline,
              SubmitProjectBid, Shortlist, DeclineBid, Read, OnlyBid
<1>2. CASE NegotiateNext
  BY <1>2 DEF NegotiateNext, BeginNegotiate, BeginPropose, BeginConfirm, NegotiateBidFee, ProposeFee, ConfirmBidFee, Read, OnlyBid
<1>3. CASE HireNext
  BY <1>3 DEF HireNext, BeginAccept, BeginAcceptPM, AcceptBid, AcceptPMBid, DeclinePMBid, Read, OnlyBid
<1>4. CASE SignNext
  BY <1>4 DEF SignNext, BeginSign, BeginClientSign, ReplacePlan, CheckPlan, SignContract, ClientSignContract, PayStage, Read, OnlyBid
<1>5. CASE EndNext
  BY <1>5 DEF EndNext, BeginEnd, TerminateProfessional, ResignFromProject, EndContract
<1>6. QED
  BY <1>1, <1>2, <1>3, <1>4, <1>5 DEF HiringNext

LEMMA ExitBooksNothing == ASSUME ExitNext PROVE UNCHANGED booked
<1>1. CASE DealNext
  BY <1>1 DEF DealNext, BeginInitiate, InitiateMutualTermination, BeginRespond, RespondMutualTermination, BeginEscalate,
              MarkEscalated, LookForDispute, OpenDispute, Reads
<1>2. CASE EndingNext
  BY <1>2 DEF EndingNext, AdminForceTerminate, BeginComplete, MarkComplete, BeginDestroy, DestroyProject, Engage,
              BeginPart, Part, CancelProject, Contest, Reads, gatewayVars
<1>3. QED
  BY <1>1, <1>2 DEF ExitNext

LEMMA StaffBooksNothing == ASSUME SubNext \/ EngineeringNext PROVE UNCHANGED booked
<1>1. CASE SubNext
  BY <1>1 DEF SubNext, BeginAssign, BeginDecide, AssignSubProfessional, AcceptSub, DeclineSub, InterviewSub, RecommendSub, HireSub,
              RemoveSubProfessional, ShortlistSubBid, PaidBidTakesPlace, markPaidSpecialist, acceptSpecialistAddendum,
              inviteSpecialist, clearTerminationRole, Considers, OnlySub, OnlyTeam
<1>2. CASE EngineeringNext
  BY <1>2 DEF EngineeringNext, RequestEngineeringRole, AuthorizeSpecialist, RejectEngineeringBid, SubmitEngineeringInterview,
              ApproveEngineeringIntegration, RejectSpecialist, VerifyEngineeringRequest, engineeringHireDecision, gatewayVars
<1>3. QED
  BY <1>1, <1>2

LEMMA StepsWithin ==
  ASSUME ContractsInv, [Next]_<<gatewayVars, hireVars, teamVars, exitVars, stageVars, topic>> PROVE BookedWithin
<1>1. ASSUME UNCHANGED booked PROVE BookedWithin
  BY <1>1 DEF BookedWithin
<1>2. CASE HiringNext
  BY <1>1, <1>2, FeesWithin, HiringBooksFees
<1>3. CASE TeamNext
  BY <1>1, <1>3, VendorsWithin, StaffBooksNothing DEF TeamNext
<1>4. CASE ExitNext \/ StageNext
  BY <1>1, <1>4, ExitBooksNothing, StageFrame
<1>5. CASE (\E p \in Clients : Leave(p)) \/ Contest
  BY <1>1, <1>5 DEF Leave, Contest
<1>6. CASE UNCHANGED <<gatewayVars, hireVars, teamVars, exitVars, stageVars, topic>>
  BY <1>1, <1>6 DEF gatewayVars
<1>7. QED
  BY <1>2, <1>3, <1>4, <1>5, <1>6 DEF Next

\* Whatever bids and vendors are charged, at amounts read long before, never exceeds
\* what the ceiling leaves (recordPaymentMinor, ImportExternalVendorHandler).
THEOREM SpentCovered == Spec => []SpentIsCovered
<1>1. ContractsInv /\ SpentIsCovered /\ [Next]_<<gatewayVars, hireVars, teamVars, exitVars, stageVars, topic>> => SpentIsCovered'
  <2> SUFFICES ASSUME ContractsInv, SpentIsCovered,
                      [Next]_<<gatewayVars, hireVars, teamVars, exitVars, stageVars, topic>>
               PROVE  SpentIsCovered'
    OBVIOUS
  <2>1. booked \in [References -> Nat]
    BY DEF ContractsInv
  <2>2. QED
    BY <2>1, StepsWithin, BookFits, SpentStill DEF BookedWithin
<1>2. Init => SpentIsCovered
  <2> SUFFICES ASSUME Init PROVE SpentIsCovered
    OBVIOUS
  <2>1. booked = [r \in References |-> 0]
    BY DEF Init, GatewayInit
  <2>2. SumOver(booked, References) = 0
    BY <2>1, FinitelyMany, SumZero
  <2>3. QED
    BY <2>2, SpentIsSum, ReferencesAreNats DEF SpentIsCovered
<1>3. QED
  BY <1>1, <1>2, ContractsInvariance, PTL DEF Spec
=============================================================================
