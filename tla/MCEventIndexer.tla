--------------------------- MODULE MCEventIndexer ---------------------------
(***************************************************************************)
(* Instances of EventIndexer for model checking.                           *)
(***************************************************************************)
EXTENDS EventIndexer

\* START_BLOCK is not set, or is the block before the contract's first.
FirstOrHead == {0, Unset}
First == {0}

Reopened == [status |-> "Open", outcome |-> "none"]
Declared == [status |-> "Resolved", outcome |-> "No"]
Reopen == {Reopened}
Declare == {Declared}

\* Bound: once a row has been deleted the reputation rests.
ReputationRests == (\E id \in Id : since[id] # 0) => UNCHANGED <<rep, reader>>
DeletingSpec == Init /\ [][Next /\ ReputationRests]_vars /\ Fairness
=============================================================================
