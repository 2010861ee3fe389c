-------------------------- MODULE ConditionalMarket --------------------------
(***************************************************************************)
(* ConditionalMarket.sol: markets whose outcome is Yes when the markets    *)
(* they depend on all had the outcome expected of them.  The resolver      *)
(* chooses only the moment.  A condition names a market of a               *)
(* PredictionMarket contract, which need not exist yet.                    *)
(***************************************************************************)
EXTENDS BettingBook

CONSTANTS Base,       \* the markets that conditions may name
          Conditions  \* the sequences of [base, expected] a market may ask for

ASSUME ConditionsOnBase ==
  Conditions \subseteq Seq([base : Base, expected : Sides \cup {"Undecided"}])

VARIABLES base,       \* base[b]: "Missing", "Open" or the outcome of market b
          conditions  \* conditions[id], as given at creation

conditionalVars == <<bookVars, base, conditions>>

ConditionalTypeOK ==
  /\ BookTypeOK
  /\ base \in [Base -> {"Missing", "Open"} \cup Sides]
  /\ conditions \in [Id -> Conditions \cup {<< >>}]

ConditionalInit ==
  /\ BookInit
  /\ base = [b \in Base |-> "Missing"]
  /\ conditions = [id \in Id |-> << >>]

-----------------------------------------------------------------------------
CreateConditionalMarket(s, close, resolve, conds) ==
  /\ conds # << >>
  /\ \A i \in DOMAIN conds : conds[i].expected \in Sides
  /\ Create(s, close, resolve, << >>)
  /\ conditions' = [conditions EXCEPT ![nextMarketId] = conds]
  /\ UNCHANGED base

\* The conditions are read in order up to the first that does not match; each
\* one read must be resolved, or the call reverts.
MutantOutcomeOf(conds, o) ==
  \E i \in DOMAIN conds : base[conds[i].base] = IF o = "Yes" THEN conds[i].expected
                                                ELSE Other(conds[i].expected)
OutcomeOf(conds, o) ==
  LET Matches(i) == base[conds[i].base] = conds[i].expected
  IN  IF o = "Yes"
      THEN \A i \in DOMAIN conds : Matches(i)
      ELSE \E i \in DOMAIN conds :
             /\ base[conds[i].base] = Other(conds[i].expected)
             /\ \A j \in 1 .. i - 1 : Matches(j)

ResolveMarket(s, id, o) ==
  /\ OutcomeOf(conditions[id], o)
  /\ Resolve(s, id, o)
  /\ UNCHANGED <<base, conditions>>

\* PredictionMarket: a market is created, and later resolved once.
BaseStep(b) ==
  /\ \/ base[b] = "Missing" /\ base' = [base EXCEPT ![b] = "Open"]
     \/ base[b] = "Open" /\ \E o \in Sides : base' = [base EXCEPT ![b] = o]
  /\ UNCHANGED <<bookVars, conditions>>

ConditionalNext ==
  \/ \E s \in Addr, w \in Window, c \in Conditions :
       CreateConditionalMarket(s, w[1], w[2], c)
  \/ \E s \in Addr, id \in Id, o \in Sides : ResolveMarket(s, id, o)
  \/ \E b \in Base : BaseStep(b)
  \/ /\ \/ \E s \in Addr, id \in Id, o \in Sides, v \in Value :
             PlaceBet(s, id, o, v)
        \/ \E s \in Addr, id \in Id : LockMarket(s, id)
        \/ \E s \in Addr, id \in Id : ClaimPayout(s, id)
        \/ Return
        \/ \E s \in Addr, a \in Appointable : SetResolver(s, a)
        \/ Tick
     /\ UNCHANGED <<base, conditions>>

ConditionalSpec == ConditionalInit /\ [][ConditionalNext]_conditionalVars

-----------------------------------------------------------------------------
\* A market ends Yes exactly when all its conditions did, whenever it was
\* resolved and however many of them were still open at the time.
OutcomeIsConjunction ==
  \A id \in Id :
    market[id].status = "Resolved" /\ conditions[id] # << >> =>
      (market[id].outcome = "Yes"
         <=> \A i \in DOMAIN conditions[id] :
               base[conditions[id][i].base] = conditions[id][i].expected)
=============================================================================
