----------------------------- MODULE MCContracts -----------------------------
(***************************************************************************)
(* A small instance for TLC of how contracts begin and end: hiring, teams, *)
(* the plan of stages and exit.  Every behaviour exercises one topic.      *)
(***************************************************************************)
EXTENDS Hiring, Teams, Exit, StageMoney, TLC

CONSTANTS m1, m2, e1, e2

VARIABLE topic

ASSUME SomeoneBids == Bids # {}

Bid(status, price)  == [NoBid EXCEPT !.status = status, !.price = price]
FirstBid(first, other) == [b \in Bids |-> IF b = Min(Bids) THEN first ELSE other]
NoBids              == FirstBid(NoBid, NoBid)
Contractor          == Min(Bids)
NoHire              == HiringInit("arsitek", FALSE, NoBids, Nobody, "open")

\* Stages the schema takes, whoever wrote them: one divided at five percent and
\* one held back entirely.
Imported == {NoTermin} \cup {[status |-> "pending", amount |-> 100, retention |-> h, net |-> 100 - h, released |-> FALSE] : h \in {5, 100}}

Others == <<hireVars, teamVars, exitVars>>

Init ==
  /\ GatewayInit /\ TeamInit /\ ExitInit
  /\ \/ /\ topic = "bidding"
        /\ \E r \in {"arsitek", "notaris", "specialist"}, m \in BOOLEAN : HiringInit(r, m, NoBids, Nobody, "open")
     \/ topic = "pm" /\ HiringInit("pm", FALSE, NoBids, Nobody, "open")
     \/ /\ topic = "negotiation"
        /\ \E x \in Prices : HiringInit("arsitek", FALSE, FirstBid(Bid("pending", x), Bid("invited", 0)), Nobody, "open")
     \/ /\ topic = "signing"
        /\ \E x, y \in Prices :
             HiringInit("kontraktor", FALSE, FirstBid(Bid("contract_pending", x), Bid("shortlisted", y)), Contractor, "in_progress")
     \/ /\ topic = "fees"
        /\ \E r \in {"arsitek", "kontraktor", "specialist"}, x, y \in Prices :
             HiringInit(r, FALSE, FirstBid(Bid("accepted", x), Bid("pending", y)), Contractor, "open")
     \/ topic \in {"subs", "engineering", "deals", "endings", "stages"} /\ NoHire
  /\ \E t \in Imported : StageInit(t) /\ (topic = "stages" \/ t = NoTermin)

HiringNext ==
  \/ topic \in {"bidding", "pm"} /\ BidNext
  \/ topic = "negotiation" /\ NegotiateNext
  \/ topic \in {"bidding", "pm", "negotiation", "signing"} /\ HireNext
  \/ topic = "signing" /\ SignNext
  \/ topic = "fees" /\ FeeNext
  \/ topic \in {"signing", "fees"} /\ EndNext

TeamNext ==
  \/ topic = "subs" /\ SubNext
  \/ topic = "engineering" /\ (EngineeringNext \/ VendorNext)

ExitNext ==
  \/ topic \in {"deals", "endings"} /\ DealNext
  \/ topic = "endings" /\ EndingNext

Next ==
  /\ \/ HiringNext /\ UNCHANGED <<teamVars, exitVars, stageVars>>
     \/ TeamNext /\ UNCHANGED <<hireVars, exitVars, stageVars>>
     \/ ExitNext /\ UNCHANGED <<hireVars, teamVars, stageVars>>
     \/ topic = "stages" /\ StageNext /\ UNCHANGED Others
     \/ (\E p \in Clients : Leave(p)) /\ UNCHANGED <<Others, stageVars>>
     \/ topic \in {"fees", "engineering"} /\ Contest /\ UNCHANGED <<Others, stageVars>>
  /\ UNCHANGED topic

Spec == Init /\ [][Next]_<<gatewayVars, hireVars, teamVars, exitVars, stageVars, topic>>

\* Requests differ only in what they read.
Requests == Permutations(Clients)

TypeOK == HiringTypeOK /\ TeamTypeOK /\ ExitTypeOK /\ StageTypeOK
=============================================================================
