--------------------------- MODULE TokenizedMarket ---------------------------
(***************************************************************************)
(* TokenizedMarket.sol: the creator of a market is given an ERC-721 token  *)
(* for it.  A creator that is a contract is called when its token is       *)
(* minted, before createMarket returns, and finds the market open.         *)
(***************************************************************************)
EXTENDS BettingBook

CONSTANT Contracts   \* the accounts with code, which accept tokens

VARIABLE ownerOf     \* ownerOf[id]: who holds the token of market id

tokenizedVars == <<bookVars, ownerOf>>

TokenizedTypeOK == BookTypeOK /\ ownerOf \in [Id -> Addr \cup {NoAddr}]

TokenizedInit == BookInit /\ ownerOf = [id \in Id |-> NoAddr]

-----------------------------------------------------------------------------
CreateMarket(s, close, resolve) ==
  /\ Create(s, close, resolve, IF s \in Contracts THEN <<s>> ELSE << >>)
  /\ ownerOf' = [ownerOf EXCEPT ![nextMarketId] = s]

PlaceTokenizedBet(s, id, o, v) ==
  PlaceBet(s, id, o, v) /\ UNCHANGED ownerOf

LockTokenizedMarket(s, id) == LockMarket(s, id) /\ UNCHANGED ownerOf

ResolveTokenizedMarket(s, id, o) == Resolve(s, id, o) /\ UNCHANGED ownerOf

ClaimTokenizedPayout(s, id) == ClaimPayout(s, id) /\ UNCHANGED ownerOf

\* ERC721.transferFrom by the owner of the token.
TransferToken(s, id, to) ==
  /\ MayCall(s)
  /\ ownerOf[id] = s
  /\ ownerOf' = [ownerOf EXCEPT ![id] = to]
  /\ UNCHANGED bookVars

TokenizedNext ==
  \/ \E s \in Addr, w \in Window : CreateMarket(s, w[1], w[2])
  \/ \E s \in Addr, id \in Id, o \in Sides, v \in Value :
       PlaceTokenizedBet(s, id, o, v)
  \/ \E s \in Addr, id \in Id : LockTokenizedMarket(s, id)
  \/ \E s \in Addr, id \in Id, o \in Sides : ResolveTokenizedMarket(s, id, o)
  \/ \E s \in Addr, id \in Id : ClaimTokenizedPayout(s, id)
  \/ \E s, to \in Addr, id \in Id : TransferToken(s, id, to)
  \/ (Return \/ (\E s \in Addr, a \in Appointable : SetResolver(s, a)) \/ Tick)
       /\ UNCHANGED ownerOf

TokenizedSpec == TokenizedInit /\ [][TokenizedNext]_tokenizedVars

=============================================================================
