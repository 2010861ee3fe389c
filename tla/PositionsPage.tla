----------------------------- MODULE PositionsPage -----------------------------
(***************************************************************************)
(* The page /positions, with the wallet button and the network guard, over *)
(* one public market of the contract (ParimutuelPool says what that does). *)
(* One browser, whose user connects, disconnects and changes accounts and  *)
(* networks.  The contract does not zero a stake when it pays, and the     *)
(* page does not read hasClaimed, so "claimed" is only remembered by the   *)
(* page; the row of the API lags behind the chain.                         *)
(***************************************************************************)
EXTENDS ParimutuelPool

CONSTANTS Visitor, \* the accounts of this browser's wallet
          NoUser

ASSUME PositionsConstants == /\ Visitor \subseteq User /\ NoUser \notin User
                             /\ 1 \in Value

VARIABLES
  account,    \* the connected account, or NoUser
  modal,      \* ConnectModal: "closed", "open", or "connecting"
  rightNet,   \* the wallet is on an allowed chain
  listed,     \* what the API's row says: "Open", or the outcome
  rowSeen,    \* marketsData as fetched, "Open" or the outcome, or "none"
  stakeSeen,  \* stakeSeen[u]: getUserStake as cached for u, 0 unread
  marked,     \* the market is in claimedMarketIds
  button,     \* ClaimButton: "idle", "pending", "confirming" or "error"
  prompt,     \* the account the wallet is asked to claim with, or NoUser
  inFlight,   \* the account of a submitted claim, or NoUser
  receipt,    \* its receipt: "none", "success" or "reverted"
  crossed     \* history: the account was changed with a claim under way

walletVars == <<account, modal, rightNet>>
dataVars == <<listed, rowSeen, stakeSeen>>
claimVars == <<marked, button, prompt, inFlight, receipt>>
positionVars == <<vars, walletVars, dataVars, claimVars, crossed>>

Statuses == Sides \cup {"Open"}

PositionsTypeOK ==
  /\ TypeOK
  /\ account \in Visitor \cup {NoUser}
  /\ modal \in {"closed", "open", "connecting"} /\ rightNet \in BOOLEAN
  /\ listed \in Statuses /\ rowSeen \in Statuses \cup {"none"}
  /\ stakeSeen \in [Visitor -> [Sides -> Nat]]
  /\ marked \in BOOLEAN /\ crossed \in BOOLEAN
  /\ button \in {"idle", "pending", "confirming", "error"}
  /\ prompt \in Visitor \cup {NoUser} /\ inFlight \in Visitor \cup {NoUser}
  /\ receipt \in {"none", "success", "reverted"}

Unread == [u \in Visitor |-> [o \in Sides |-> 0]]

PositionsInit ==
  /\ Init
  /\ account = NoUser /\ modal = "closed" /\ rightNet = TRUE
  /\ listed = "Open" /\ rowSeen = "none"
  /\ stakeSeen = Unread
  /\ marked = FALSE /\ button = "idle" /\ prompt = NoUser
  /\ inFlight = NoUser /\ receipt = "none" /\ crossed = FALSE

-----------------------------------------------------------------------------
\* The badge of the position of account u, "none" while data is loading or u
\* has no stake.
Result(u, mark) ==
  IF u = NoUser \/ rowSeen = "none" THEN "none"
  ELSE IF stakeSeen[u]["Yes"] + stakeSeen[u]["No"] = 0 THEN "none"
  ELSE IF rowSeen = "Open" THEN "pending"
  ELSE IF stakeSeen[u][rowSeen] = 0 THEN "lost"
  ELSE IF mark THEN "claimed" ELSE "won"

\* Only a position that is won has a ClaimButton; its state is lost with it.
ClaimShown == Result(account, marked) = "won"
Keep(b, result) == IF result = "won" THEN b ELSE "idle"

UnderWay == prompt # NoUser \/ inFlight # NoUser

\* The account is set, and the effect on it empties claimedMarketIds.
Become(u) ==
  /\ account' = u
  /\ marked' = FALSE
  /\ button' = IF ClaimShown THEN Keep(button, Result(u, FALSE)) ELSE "idle"
  /\ crossed' = (crossed \/ UnderWay)

OpenModal ==
  /\ account = NoUser /\ modal = "closed"
  /\ modal' = "open"
  /\ UNCHANGED <<vars, account, rightNet, dataVars, claimVars, crossed>>
PickConnector ==
  /\ modal = "open"
  /\ modal' = "connecting"
  /\ UNCHANGED <<vars, account, rightNet, dataVars, claimVars, crossed>>
\* Accepted: the modal closes.  Refused: it stays, with the error.
Connected(u) ==
  /\ modal = "connecting"
  /\ modal' = "closed"
  /\ Become(u)
  /\ UNCHANGED <<vars, rightNet, dataVars, prompt, inFlight, receipt>>
ConnectFails ==
  /\ modal = "connecting"
  /\ modal' = "open"
  /\ UNCHANGED <<vars, account, rightNet, dataVars, claimVars, crossed>>
Disconnect ==
  /\ account # NoUser
  /\ Become(NoUser)
  /\ UNCHANGED <<vars, modal, rightNet, dataVars, prompt, inFlight, receipt>>

\* In the wallet, without the page: another account, another network.
ChangeAccount(u) ==
  /\ account # NoUser /\ u # account
  /\ Become(u)
  /\ UNCHANGED <<vars, modal, rightNet, dataVars, prompt, inFlight, receipt>>
LeaveNetwork ==
  /\ account # NoUser /\ rightNet
  /\ rightNet' = FALSE
  /\ UNCHANGED <<vars, account, modal, dataVars, claimVars, crossed>>
\* switchToRequired, and the manual request when that fails.
SwitchToRequired ==
  /\ account # NoUser /\ ~rightNet
  /\ rightNet' = TRUE
  /\ UNCHANGED <<vars, account, modal, dataVars, claimVars, crossed>>

-----------------------------------------------------------------------------
Refresh(row, stakes) ==
  /\ rowSeen' = row /\ stakeSeen' = stakes
  /\ UNCHANGED <<vars, walletVars, listed, marked, prompt, inFlight, receipt, crossed>>

FetchMarkets ==
  /\ account # NoUser /\ rowSeen # listed
  /\ Refresh(listed, stakeSeen)
  /\ UNCHANGED button
ReadStakes ==
  /\ account # NoUser /\ rowSeen # "none"
  /\ LET s == [o \in Sides |-> stake[o][account]]
     IN  stakeSeen[account] # s /\ Refresh(rowSeen, [stakeSeen EXCEPT ![account] = s])
  /\ UNCHANGED button

\* A reload: everything the page remembers is gone, a prompt is not.
Reload ==
  /\ rowSeen # "none"
  /\ rowSeen' = "none" /\ stakeSeen' = Unread
  /\ marked' = FALSE /\ button' = "idle"
  /\ UNCHANGED <<vars, walletVars, listed, prompt, inFlight, receipt, crossed>>

PressClaim ==
  /\ ClaimShown /\ rightNet
  /\ button \in {"idle", "error"} /\ ~UnderWay
  /\ button' = "pending" /\ prompt' = account
  /\ UNCHANGED <<vars, walletVars, dataVars, marked, inFlight, receipt, crossed>>

\* The wallet returns a hash.
MutantConfirmClaim ==
  /\ prompt # NoUser
  /\ inFlight' = prompt /\ prompt' = NoUser /\ receipt' = "none"
  /\ button' = "idle"
  /\ marked' = (marked \/ button = "pending")
  /\ UNCHANGED <<vars, walletVars, dataVars, crossed>>
ConfirmClaim ==
  /\ prompt # NoUser
  /\ inFlight' = prompt /\ prompt' = NoUser /\ receipt' = "none"
  /\ button' = IF button = "pending" THEN "confirming" ELSE button
  /\ UNCHANGED <<vars, walletVars, dataVars, marked, crossed>>
RejectClaim ==
  /\ prompt # NoUser
  /\ prompt' = NoUser
  /\ button' = IF button = "pending" THEN "error" ELSE button
  /\ UNCHANGED <<vars, walletVars, dataVars, marked, inFlight, receipt, crossed>>

MayPay(u) == phase = "Settled" /\ stake[outcome][u] > 0 /\ ~claimed[u]
MineClaim ==
  /\ inFlight # NoUser /\ receipt = "none"
  /\ IF MayPay(inFlight) THEN Pay(inFlight) /\ receipt' = "success"
                         ELSE UNCHANGED vars /\ receipt' = "reverted"
  /\ UNCHANGED <<walletVars, dataVars, marked, button, prompt, inFlight, crossed>>

\* The button that holds the hash sees the receipt.  On success the market is
\* marked, and with that the button disappears; a reverted claim is offered again.
SeeReceipt ==
  /\ receipt # "none"
  /\ inFlight' = NoUser /\ receipt' = "none"
  /\ marked' = (marked \/ (button = "confirming" /\ receipt = "success"))
  /\ button' = IF button = "confirming" THEN "idle" ELSE button
  /\ UNCHANGED <<vars, walletVars, dataVars, prompt, crossed>>

-----------------------------------------------------------------------------
\* The market and its row.  Bound: one bet of 1 on each side for each account.
Market ==
  /\ \/ \E u \in Visitor, o \in Sides : stake[o][u] = 0 /\ Bet(u, o, 1)
     \/ Close
     \/ \E o \in Sides : Settle(o)
  /\ UNCHANGED <<walletVars, dataVars, claimVars, crossed>>
IndexRow ==
  /\ phase = "Settled" /\ listed = "Open"
  /\ listed' = outcome
  /\ UNCHANGED <<vars, walletVars, rowSeen, stakeSeen, claimVars, crossed>>

PositionsNext ==
  \/ OpenModal \/ PickConnector \/ ConnectFails \/ Disconnect
  \/ \E u \in Visitor : Connected(u) \/ ChangeAccount(u)
  \/ LeaveNetwork \/ SwitchToRequired
  \/ FetchMarkets \/ ReadStakes \/ Reload
  \/ PressClaim \/ ConfirmClaim \/ RejectClaim \/ MineClaim \/ SeeReceipt
  \/ Market \/ IndexRow

PositionsSpec == PositionsInit /\ [][PositionsNext]_positionVars

-----------------------------------------------------------------------------
\* "Claimed" is shown to an account that the market has paid, however often the
\* page is reloaded and claims are refused or reverted; unless the account was
\* changed while a claim was under way.
ClaimedShownIsPaid ==
  (Result(account, marked) = "claimed" /\ ~crossed) => claimed[account]
=============================================================================
