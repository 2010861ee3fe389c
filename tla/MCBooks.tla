------------------------------- MODULE MCBooks -------------------------------
(***************************************************************************)
(* The two contracts that keep an unguarded betting book, one or the other *)
(* deployed: markets that depend on two base markets, or ask for an        *)
(* outcome that no market has; and markets that mint tokens.  Two accounts *)
(* of which one takes payments and is called when it gets ether or a       *)
(* token, two markets that share the ether, calls nested two deep.         *)
(***************************************************************************)
EXTENDS ConditionalMarket, TokenizedMarket

VARIABLE contract

OneWindow == {<<1, 2>>}
Forecasts == {<<[base |-> "rain", expected |-> "Yes"],
                [base |-> "snow", expected |-> "No"]>>,
              <<[base |-> "rain", expected |-> "Undecided"]>>}

booksVars == <<bookVars, base, conditions, ownerOf, contract>>

BooksInit == /\ ConditionalInit /\ TokenizedInit
             /\ contract \in {"ConditionalMarket", "TokenizedMarket"}

BooksNext ==
  /\ UNCHANGED contract
  /\ \/ /\ contract = "ConditionalMarket"
        /\ ConditionalNext /\ UNCHANGED ownerOf
     \/ /\ contract = "TokenizedMarket"
        /\ TokenizedNext /\ UNCHANGED <<base, conditions>>

BooksSpec == BooksInit /\ [][BooksNext]_booksVars
=============================================================================
