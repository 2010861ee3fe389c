-------------------------- MODULE CommitRevealClient --------------------------
(***************************************************************************)
(* The private-market page in one account's browser: the card of a market, *)
(* the wizard of commit-reveal-wizard.tsx and the hook use-commit-reveal,  *)
(* between the user's wallet and PrivatePredictionMarket.  The browser     *)
(* keeps one localStorage entry per market, the only copy of the nonce     *)
(* that outlives the page.  A request is first a prompt of the wallet,     *)
(* then a submitted transaction, then mined or reverted; the page may be   *)
(* reloaded, or the card collapsed, at any point.  The wallet holds every  *)
(* prompt until it is answered, those of earlier mounts of the wizard too, *)
(* and the user answers them in any order.                                 *)
(*                                                                         *)
(* executeClaim is no action: the panel that calls it is shown in step     *)
(* "claiming" only, where Busy disables its button.                        *)
(***************************************************************************)
EXTENDS PrivatePredictionMarket

CONSTANTS User,      \* the account of this browser
          Here,      \* the id of the market
          Bets,      \* [outcome, amount] the user may choose
          None

VARIABLES
  joined,   \* Here is in localStorage["praesagium_private_markets"]
  step,     \* state.step, or "hidden" while the card is collapsed
  made,     \* state.nonce and state.commitment: an opening, or None
  manual,   \* the nonce typed by hand, or None
  count,    \* commitCount, as last read from the chain
  stored,   \* the localStorage entry: [opening, index], or None
  prompts,  \* the requests the wallet holds, not answered yet
  pending,  \* the submitted transactions, in the order they will be mined
  kept,     \* nonces the user copied
  asked,    \* history: the openings the user asked to commit
  opened,   \* history: the openings of the submitted reveals
  wiped,    \* history: the browser's storage was cleared
  overtook  \* history: the newest opening was asked while a reveal was waiting

wizardVars == <<joined, step, made, manual, count, stored, prompts, pending, kept,
                asked, opened, wiped, overtook>>
clientVars == <<vars, wizardVars>>

Steps == {"hidden", "idle", "commit", "committing", "committed", "reveal",
          "revealing", "done", "claiming"}
Nonces == 1 .. MaxCommits
Openings ==
  {[outcome |-> b.outcome, amount |-> b.amount, nonce |-> n] : b \in Bets, n \in Nonces}

ASSUME WizardConstants ==
  /\ User \in Addr /\ Here \in Id
  /\ Bets \subseteq [outcome : Sides, amount : Value]
  /\ Openings \subseteq Opening
  /\ None \notin Openings /\ None \notin [opening : Openings, index : Nat]

\* What executeReveal makes of a nonce when nothing is stored.
Guess(n) == [outcome |-> "Yes", amount |-> 0, nonce |-> n]
Guesses == {Guess(n) : n \in Nonces}

Request == [kind : {"commit", "reveal"}, opening : Openings \cup Guesses,
            index : Nat, page : {"shown", "collapsed", "gone"}]

WizardTypeOK ==
  /\ TypeOK
  /\ joined \in BOOLEAN /\ wiped \in BOOLEAN /\ overtook \in BOOLEAN
  /\ step \in Steps
  /\ made \in Openings \cup {None} /\ manual \in Nonces \cup {None}
  /\ count \in Nat
  /\ stored = None \/ stored \in [opening : Openings, index : Nat]
  /\ prompts \subseteq Request
  /\ \A i \in DOMAIN pending : pending[i] \in Request
  /\ kept \subseteq Nonces /\ asked \in Seq(Openings)
  /\ opened \subseteq Openings \cup Guesses

WizardInit ==
  /\ Init
  /\ joined = FALSE /\ step = "hidden" /\ made = None /\ manual = None /\ count = 0
  /\ stored = None /\ prompts = {} /\ pending = << >> /\ kept = {}
  /\ asked = << >> /\ opened = {} /\ wiped = FALSE /\ overtook = FALSE

-----------------------------------------------------------------------------
\* The page lists the markets the user joined with a key.
Listed == joined /\ Exists(Here)

\* "Place Private Bet" while betting is open, "Reveal / Claim" once resolved.
CardHasButton ==
  \/ market[Here].status = "Open" /\ now < market[Here].closeTime
  \/ market[Here].status = "Resolved"

\* A transaction whose hash the wizard holds is not mined yet.
Confirming == \E i \in DOMAIN pending : pending[i].page = "shown"

Busy == step \in {"committing", "revealing", "claiming"} \/ Confirming

CommitOffered == step = "commit" /\ ~Busy
RevealOffered == step = "reveal" /\ ~Busy

JoinMarket ==
  /\ Exists(Here) /\ ~joined
  /\ joined' = TRUE
  /\ UNCHANGED <<vars, step, made, manual, count, stored, prompts, pending, kept,
                 asked, opened, wiped, overtook>>

ExpandCard ==
  /\ step = "hidden" /\ Listed /\ CardHasButton
  /\ step' = "idle"
  /\ UNCHANGED <<vars, joined, made, manual, count, stored, prompts, pending, kept,
                 asked, opened, wiped, overtook>>

\* The wizard is unmounted: its state is gone, its promises go on.
Unmount(how) ==
  /\ step' = "hidden" /\ made' = None /\ manual' = None
  /\ prompts' = {IF r.page = "gone" THEN r ELSE [r EXCEPT !.page = how] : r \in prompts}
  /\ pending' = [i \in DOMAIN pending |-> [pending[i] EXCEPT !.page = how]]

CollapseCard ==
  /\ step # "hidden" /\ CardHasButton
  /\ Unmount("collapsed")
  /\ UNCHANGED <<vars, joined, count, stored, kept, asked, opened, wiped, overtook>>

\* commitCount is 0 until it has been read again.
Reload ==
  /\ step # "hidden" \/ prompts # {}
  /\ Unmount("gone")
  /\ count' = 0
  /\ UNCHANGED <<vars, joined, stored, kept, asked, opened, wiped, overtook>>

\* Every 30 s while the wizard is shown.
ReadCount ==
  /\ step # "hidden"
  /\ count # Len(commitments[Here][User])
  /\ count' = Len(commitments[Here][User])
  /\ UNCHANGED <<vars, joined, step, made, manual, stored, prompts, pending, kept,
                 asked, opened, wiped, overtook>>

StartCommit ==
  /\ step = "idle"
  /\ step' = "commit"
  /\ UNCHANGED <<vars, joined, made, manual, count, stored, prompts, pending, kept,
                 asked, opened, wiped, overtook>>

\* A reveal is waiting whose page will remove the entry once it has the hash.
RevealWaiting == \E r \in prompts : r.kind = "reveal" /\ r.page # "gone"

\* A fresh nonce; the entry is stored before the wallet is asked.
MutantExecuteCommit(b) ==
  LET x == [outcome |-> b.outcome, amount |-> b.amount, nonce |-> Len(asked) + 1]
  IN  /\ CommitOffered /\ x.nonce \in Nonces
      /\ step' = "committing" /\ made' = x
      /\ stored' = IF stored = None THEN [opening |-> x, index |-> count] ELSE stored
      /\ prompts' = prompts \cup {[kind |-> "commit", opening |-> x, index |-> count,
                                  page |-> "shown"]}
      /\ asked' = Append(asked, x) /\ overtook' = RevealWaiting
      /\ UNCHANGED <<vars, joined, manual, count, pending, kept, opened, wiped>>
ExecuteCommit(b) ==
  LET x == [outcome |-> b.outcome, amount |-> b.amount, nonce |-> Len(asked) + 1]
  IN  /\ CommitOffered /\ x.nonce \in Nonces
      /\ step' = "committing" /\ made' = x
      /\ stored' = [opening |-> x, index |-> count]
      /\ prompts' = prompts \cup {[kind |-> "commit", opening |-> x, index |-> count,
                                  page |-> "shown"]}
      /\ asked' = Append(asked, x) /\ overtook' = RevealWaiting
      /\ UNCHANGED <<vars, joined, manual, count, pending, kept, opened, wiped>>

CopyNonce ==
  /\ step = "committed"
  /\ kept' = kept \cup {made.nonce}
  /\ UNCHANGED <<vars, joined, step, made, manual, count, stored, prompts, pending,
                 asked, opened, wiped, overtook>>

StartReveal ==
  /\ step = "committed"
  /\ step' = "reveal"
  /\ UNCHANGED <<vars, joined, made, manual, count, stored, prompts, pending, kept,
                 asked, opened, wiped, overtook>>

\* The field is shown when nothing is stored.
TypeNonce(n) ==
  /\ RevealOffered /\ stored = None
  /\ manual' = n
  /\ UNCHANGED <<vars, joined, step, made, count, stored, prompts, pending, kept,
                 asked, opened, wiped, overtook>>

\* The opening the wizard would reveal, or None when it knows no nonce.
ToReveal ==
  IF stored # None
  THEN IF manual = None THEN stored.opening
                        ELSE [stored.opening EXCEPT !.nonce = manual]
  ELSE IF manual = None THEN None ELSE Guess(manual)

\* The opening is compared with state.commitment before the wallet is asked.
MutantExecuteReveal ==
  /\ RevealOffered
  /\ ToReveal # None
  /\ step' = "revealing"
  /\ prompts' = prompts \cup {[kind |-> "reveal", opening |-> ToReveal,
                              index |-> IF stored = None THEN 0 ELSE stored.index,
                              page |-> "shown"]}
  /\ UNCHANGED <<vars, joined, made, manual, count, stored, pending, kept, asked,
                 opened, wiped, overtook>>
ExecuteReveal ==
  /\ RevealOffered
  /\ ToReveal # None /\ made \in {None, ToReveal}
  /\ step' = "revealing"
  /\ prompts' = prompts \cup {[kind |-> "reveal", opening |-> ToReveal,
                              index |-> IF stored = None THEN 0 ELSE stored.index,
                              page |-> "shown"]}
  /\ UNCHANGED <<vars, joined, made, manual, count, stored, pending, kept, asked,
                 opened, wiped, overtook>>

StartClaim ==
  /\ step = "done"
  /\ step' = "claiming"
  /\ UNCHANGED <<vars, joined, made, manual, count, stored, prompts, pending, kept,
                 asked, opened, wiped, overtook>>

-----------------------------------------------------------------------------
\* The wallet submits: the entry of a reveal is removed here, not when the
\* transaction is mined, whatever opening it holds by then, unless the page that
\* waited for the hash is gone.
Confirm(r) ==
  /\ pending' = Append(pending, r)
  /\ prompts' = prompts \ {r}
  /\ step' = IF r.page # "shown" THEN step
             ELSE IF r.kind = "commit" THEN "committed" ELSE "done"
  /\ stored' = IF r.kind = "reveal" /\ r.page # "gone" THEN None ELSE stored
  /\ opened' = IF r.kind = "reveal" THEN opened \cup {r.opening} ELSE opened
  /\ UNCHANGED <<vars, joined, made, manual, count, kept, asked, wiped, overtook>>

\* The user refuses: back to the step before; a stored entry stays.
Reject(r) ==
  /\ prompts' = prompts \ {r}
  /\ step' = IF r.page # "shown" THEN step ELSE r.kind
  /\ UNCHANGED <<vars, joined, made, manual, count, stored, pending, kept, asked,
                 opened, wiped, overtook>>

\* The gas limit is fixed, so a transaction that will revert is sent as well.
Commits(r) ==
  /\ r.kind = "commit"
  /\ CommitBet(User, Here, r.opening.amount, r.opening)
Reveals(r) ==
  /\ r.kind = "reveal"
  /\ RevealBet(User, Here, r.index + 1, r.opening)
Reverts(r) ==
  /\ \/ r.kind = "commit" /\ ~(market[Here].status = "Open"
                               /\ now < market[Here].closeTime)
     \/ r.kind = "reveal"
        /\ ~(/\ market[Here].status = "Resolved"
             /\ r.index + 1 \in DOMAIN commitments[Here][User]
             /\ commitments[Here][User][r.index + 1]
                  = [value |-> r.opening.amount, hash |-> r.opening])
  /\ UNCHANGED vars

Mine ==
  /\ pending # << >>
  /\ pending' = Tail(pending)
  /\ Commits(Head(pending)) \/ Reveals(Head(pending)) \/ Reverts(Head(pending))
  /\ UNCHANGED <<joined, step, made, manual, count, stored, prompts, kept, asked,
                 opened, wiped, overtook>>

\* The user or the browser clears the site's data.
ClearStorage ==
  /\ stored # None
  /\ stored' = None /\ wiped' = TRUE /\ joined' = FALSE
  /\ UNCHANGED <<vars, step, made, manual, count, prompts, pending, kept, asked,
                 opened, overtook>>

\* The other accounts create and resolve the market.
Others ==
  /\ \/ \E s \in Addr \ {User}, w \in Window : CreateMarket(s, w[1], w[2])
     \/ \E s \in Addr \ {User}, o \in Sides : ResolveMarket(s, Here, o)
     \/ Tick
  /\ UNCHANGED wizardVars

WizardNext ==
  \/ JoinMarket \/ ExpandCard \/ CollapseCard \/ Reload \/ ReadCount
  \/ StartCommit \/ \E b \in Bets : ExecuteCommit(b)
  \/ CopyNonce \/ StartReveal \/ \E n \in kept : TypeNonce(n)
  \/ ExecuteReveal \/ StartClaim
  \/ \E r \in prompts : Confirm(r) \/ Reject(r)
  \/ Mine \/ ClearStorage
  \/ Others

WizardSpec == WizardInit /\ [][WizardNext]_clientVars

-----------------------------------------------------------------------------
Latest == asked[Len(asked)]

\* Whatever page was closed in between, the newest opening the user asked to
\* commit is stored until its reveal has been submitted, unless the user asked
\* for it with an older reveal still waiting in the wallet.
NewestEntryKept ==
  (asked # << >> /\ ~wiped) =>
    \/ stored # None /\ stored.opening = Latest
    \/ Latest \in opened
    \/ overtook

\* A reveal asked of the wallet opens a commitment the user made here, and its
\* index was a commitment's when it was read, or the next one's.
RevealsOwnOpening ==
  \A r \in prompts : r.kind = "reveal" =>
    /\ \E i \in DOMAIN asked : asked[i] = r.opening
    /\ r.index <= Len(commitments[Here][User])

\* The newest opening is not lost, and no other one is revealed.
OpeningIsSafe == NewestEntryKept /\ RevealsOwnOpening

\* What the wizard says of a commitment it has submitted, with the nonce shown:
\* it was also saved in the browser.
CommittedIsSaved ==
  (step = "committed" /\ ~wiped) => (stored # None /\ stored.opening = made)
=============================================================================
