-------------------------- MODULE ReputationService --------------------------
(***************************************************************************)
(* reputation_service.rs, for one creator.  Counting up is one UPSERT; a   *)
(* creator without a row gets one from four separate queries over the      *)
(* markets, and the row they add up to replaces what is there by then.     *)
(***************************************************************************)
EXTENDS Integers

CONSTANTS Id,         \* the markets
          Predicted,  \* those with a stored prediction
          Reader,     \* the requests that get_reputation may serve at once
          MaxCount    \* bound: what a counter is counted up to

VARIABLES
  rep,     \* the creator's row: markets_created, markets_resolved, correct
  reader   \* reader[q]: what compute_and_upsert has read so far

repVars == <<rep, reader>>

Counts == [stored : BOOLEAN, created : 0 .. MaxCount, resolved : 0 .. MaxCount,
           correct : 0 .. MaxCount]
Zero == [stored |-> FALSE, created |-> 0, resolved |-> 0, correct |-> 0]
NoRead == [pc |-> "idle", created |-> 0, resolved |-> 0, correct |-> 0]

RepTypeOK ==
  /\ rep \in Counts
  /\ reader \in [Reader -> [pc : {"idle", "created", "resolved", "correct"},
                            created : 0 .. MaxCount, resolved : 0 .. MaxCount,
                            correct : 0 .. MaxCount]]

RepInit == rep = Zero /\ reader = [q \in Reader |-> NoRead]

-----------------------------------------------------------------------------
OnMarketCreated ==
  /\ rep.created < MaxCount
  /\ rep' = [rep EXCEPT !.stored = TRUE, !.created = @ + 1]
  /\ UNCHANGED reader

\* The column of probabilities is a DOUBLE PRECISION and is read as an f32,
\* which is an error unless there is no row.  So what can be credited has no
\* prediction, which counts as a prediction of No.
Readable(markets) == markets \cap Predicted = {}
Correct(outcome) == IF outcome = "No" THEN 1 ELSE 0

\* The get_reputation that follows finds the row and changes nothing.
OnMarketResolved(id, outcome) ==
  /\ Readable({id})
  /\ rep.resolved < MaxCount /\ rep.correct < MaxCount
  /\ rep' = [rep EXCEPT !.stored = TRUE, !.resolved = @ + 1,
                        !.correct = @ + Correct(outcome)]
  /\ UNCHANGED reader

\* compute_and_upsert: how many markets the database lists under this creator
\* (created), how many of them are resolved, and how many were predicted right.
CountCreated(q, created) ==
  /\ reader[q].pc = "idle" /\ ~rep.stored
  /\ reader' = [reader EXCEPT ![q] = [NoRead EXCEPT !.pc = "created",
                                                    !.created = created]]
  /\ UNCHANGED rep

CountResolved(q, resolved) ==
  /\ reader[q].pc = "created"
  /\ reader' = [reader EXCEPT ![q].pc = "resolved", ![q].resolved = resolved]
  /\ UNCHANGED rep

CountCorrect(q, resolved, correct) ==
  /\ reader[q].pc = "resolved"
  /\ reader' = [reader EXCEPT ![q] = IF Readable(resolved)
                                     THEN [@ EXCEPT !.pc = "correct", !.correct = correct]
                                     ELSE NoRead]
  /\ UNCHANGED rep

Upsert(q) ==
  /\ reader[q].pc = "correct"
  /\ rep' = [stored |-> TRUE, created |-> reader[q].created,
             resolved |-> reader[q].resolved, correct |-> reader[q].correct]
  /\ reader' = [reader EXCEPT ![q] = NoRead]
=============================================================================
