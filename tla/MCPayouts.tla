------------------------------ MODULE MCPayouts ------------------------------
(***************************************************************************)
(* Where the stakes go, on small instances: the contract of private        *)
(* markets, called directly or by the wizard of one account; and the       *)
(* contract of public markets, for its winners' patience.  A behavior      *)
(* exercises one of these parts.                                           *)
(***************************************************************************)
EXTENDS CommitRevealClient

CONSTANT Parts

VARIABLES
  part,
  time, nextId, markets, totals, stakes, claims, oracle, reputation, ether, paidOut,
  receiver, authorized, creators, scores

publicVars == <<time, nextId, markets, totals, stakes, claims, oracle, reputation,
                ether, paidOut, receiver, authorized, creators, scores>>
allVars == <<part, clientVars, publicVars>>

\* Two bettors, one of whom resolves and may appoint the other.  Directly they
\* commit twice each, with amounts that match the hash or not; "Neither" is no
\* outcome that revealBet accepts.  Through the web bob bets one of two amounts.
DirectOpenings ==
  {[outcome |-> o, amount |-> a, nonce |-> 0] :
     <<o, a>> \in {<<"Yes", 1>>, <<"Yes", 2>>, <<"No", 1>>, <<"Neither", 1>>}}
WebBets == {[outcome |-> "Yes", amount |-> 1], [outcome |-> "No", amount |-> 2]}
AnyOpening == Openings \cup DirectOpenings
OneWindow == {<<1, 2>>}

Direct == INSTANCE PrivatePredictionMarket WITH Opening <- DirectOpenings

\* Two markets, two bettors, one of whom refuses ether and replaces the resolver.
Public == INSTANCE PredictionMarket WITH
  Addr <- {"alice", "bob"}, NoAddr <- "none", Owner <- "alice", Deployed <- "alice",
  Payable <- {"bob"}, This <- "pm", Appointable <- {"alice", "bob"}, RepAddr <- {},
  Value <- {1}, MaxStake <- 1, Window <- {<<1, 2>>}, MaxMarkets <- 2, MaxTime <- 2,
  now <- time, nextMarketId <- nextId, market <- markets, total <- totals,
  stake <- stakes, claimed <- claims, resolver <- oracle,
  reputationSystem <- reputation, balance <- ether, received <- paidOut,
  callee <- receiver, authorizedCallers <- authorized, marketCreator <- creators,
  stats <- scores

-----------------------------------------------------------------------------
PayoutsInit == part \in Parts /\ WizardInit /\ Public!Init

\* In "market" only bob bets on the second market.  The wizard's first
\* bet is the smaller one, its second the other.
PayoutsNext ==
  /\ UNCHANGED part
  /\ \/ part = "direct" /\ Direct!Next /\ UNCHANGED <<wizardVars, publicVars>>
     \/ /\ part = "wizard" /\ WizardNext /\ UNCHANGED publicVars
        /\ \A i \in DOMAIN asked' : asked'[i].amount = i
     \/ /\ part = "market" /\ Public!Next
        /\ \A o \in Sides : stakes'[2][o]["alice"] = 0
        /\ UNCHANGED clientVars

PayoutsSpec == PayoutsInit /\ [][PayoutsNext]_allVars
PayoutsFairSpec == PayoutsSpec /\ Public!Fairness

-----------------------------------------------------------------------------
\* As stated in PredictionMarket.
PatientWinnerPaid == Public!PatientWinnerPaid
=============================================================================
