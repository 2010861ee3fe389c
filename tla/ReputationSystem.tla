-------------------------- MODULE ReputationSystem --------------------------
(***************************************************************************)
(* ReputationSystem.sol: counts, for each market creator, the markets it   *)
(* created and those that were resolved.  Market contracts report to it    *)
(* with best-effort calls; only authorised callers are heard.              *)
(***************************************************************************)
EXTENDS Integers

CONSTANTS Caller,   \* contracts that may report
          Creator,  \* addresses that create markets
          NoAddr,   \* address(0)
          Id        \* market ids, which every reporting contract counts from 1

VARIABLES authorizedCallers,  \* the set of callers the owner has allowed
          marketCreator,      \* marketCreator[id], NoAddr while unknown
          stats               \* stats[c]: created, resolved, score

repVars == <<authorizedCallers, marketCreator, stats>>

RepTypeOK ==
  /\ authorizedCallers \subseteq Caller
  /\ marketCreator \in [Id -> Creator \cup {NoAddr}]
  /\ stats \in [Creator -> [created : Nat, resolved : Nat, score : Nat]]

RepInit ==
  /\ authorizedCallers = {}
  /\ marketCreator = [id \in Id |-> NoAddr]
  /\ stats = [c \in Creator |-> [created |-> 0, resolved |-> 0, score |-> 0]]

SetAuthorizedCaller(caller, allowed) ==
  /\ authorizedCallers' = IF allowed THEN authorizedCallers \cup {caller}
                                     ELSE authorizedCallers \ {caller}
  /\ UNCHANGED <<marketCreator, stats>>

MayReport(caller) == caller \in authorizedCallers

OnMarketCreated(caller, id, creator) ==
  /\ MayReport(caller)
  /\ marketCreator' = [marketCreator EXCEPT ![id] = creator]
  /\ stats' = [stats EXCEPT ![creator].created = @ + 1]
  /\ UNCHANGED authorizedCallers

CreatorMatches(id, creator) == marketCreator[id] \in {NoAddr, creator}

OnMarketResolved(caller, id, creator) ==
  /\ MayReport(caller)
  /\ CreatorMatches(id, creator)
  /\ marketCreator' = [marketCreator EXCEPT ![id] = creator]
  /\ stats' = [stats EXCEPT ![creator] = [created |-> @.created,
                                          resolved |-> @.resolved + 1,
                                          score |-> @.score + 1]]
  /\ UNCHANGED authorizedCallers

\* try reputationSystem.onMarketCreated(...) {} catch {}: when the call is
\* refused, or runs out of the gas that it was left, the market goes on.
TryOnMarketCreated(caller, id, creator) ==
  OnMarketCreated(caller, id, creator) \/ UNCHANGED repVars

\* try reputationSystem.onMarketResolved(...) {} catch {}
TryOnMarketResolved(caller, id, creator) ==
  OnMarketResolved(caller, id, creator) \/ UNCHANGED repVars
=============================================================================
