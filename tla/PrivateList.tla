------------------------------ MODULE PrivateList ------------------------------
(***************************************************************************)
(* Which markets the page of private markets lists, in the tabs of one     *)
(* browser: those it was configured with; those unlocked with an access    *)
(* key, whose ids all tabs keep in one localStorage entry and each in a    *)
(* state of its own; and those the connected account created, which are    *)
(* queried by its address.  The API answers both from the table of keys.   *)
(***************************************************************************)
EXTENDS Naturals, FiniteSets

CONSTANTS Tab,
          PrivateId,  \* ids of private markets
          KnownIds,   \* KNOWN_MARKET_IDS
          NoId,
          Holder,     \* accounts of this browser
          NoHolder,   \* not connected
          AccessKey,
          NoKey,
          MaxChecks,  \* bound: checks of keys in flight, and
          MaxRegs     \* keys registered

ASSUME PrivateListConstants ==
  /\ KnownIds \subseteq PrivateId /\ NoId \notin PrivateId
  /\ NoHolder \notin Holder /\ NoKey \notin AccessKey

VARIABLES
  keyRows,   \* table private_market_access_keys
  storedIds, \* localStorage["praesagium_private_markets"]
  tabs,      \* the page in each tab
  mine,      \* per tab, its query cache: per query key the answer
  asking,    \* queries and
  checking,  \* checks of keys in flight
  validated, \* history: the markets whose key was entered, and
  viewed     \* the ones whose creator clicked "View market"

tableVars == <<keyRows>>
tabVars == <<storedIds, tabs, mine>>
flightVars == <<asking, checking>>
listHistory == <<validated, viewed>>
privateVars == <<tableVars, tabVars, flightVars, listHistory>>

KeyRow == [key : AccessKey, market : PrivateId, creator : Holder]
\* unlocked: the card says so, of this market; sent: the key it is waiting for.
TabState == [open : BOOLEAN, account : Holder \cup {NoHolder}, joined : SUBSET PrivateId,
             unlocked : PrivateId \cup {NoId}, sent : AccessKey \cup {NoKey}]
QueryKeys == Holder \cup {NoHolder}
Query == [tab : Tab, key : QueryKeys, address : Holder]
\* mounted: by the card that is shown, not by one that was left.
Check == [tab : Tab, key : AccessKey, mounted : BOOLEAN]

MutantQueryKey(account) == NoHolder
\* ["private-markets-by-creator", address ?? ""]
QueryKey(account) == account

PrivateListTypeOK ==
  /\ keyRows \subseteq KeyRow
  /\ storedIds \subseteq PrivateId
  /\ tabs \in [Tab -> TabState]
  /\ mine \in [Tab -> [QueryKeys -> SUBSET KeyRow]]
  /\ asking \subseteq Query /\ checking \subseteq Check
  /\ validated \subseteq PrivateId /\ viewed \subseteq KeyRow

Closed(account) ==
  [open |-> FALSE, account |-> account, joined |-> {}, unlocked |-> NoId, sent |-> NoKey]
EmptyCache == [k \in QueryKeys |-> {}]

PrivateListInit ==
  /\ keyRows = {} /\ storedIds = {}
  /\ tabs = [t \in Tab |-> Closed(NoHolder)]
  /\ mine = [t \in Tab |-> EmptyCache]
  /\ asking = {} /\ checking = {}
  /\ validated = {} /\ viewed = {}

\* creatorMarkets
MyRows(t) == mine[t][QueryKey(tabs[t].account)]
\* allMarketIds, which is shown to a connected account.
ListedIds(t) == KnownIds \cup tabs[t].joined \cup {r.market : r \in MyRows(t)}

-----------------------------------------------------------------------------
\* POST /api/markets/private/register, which makes the key.
RegisterMarket(k, m, h) ==
  /\ \A r \in keyRows : r.key # k
  /\ Cardinality(keyRows) < MaxRegs
  /\ keyRows' = keyRows \cup {[key |-> k, market |-> m, creator |-> h]}
  /\ UNCHANGED <<tabVars, flightVars, listHistory>>

\* The mount reads the ids of all tabs.
OpenList(t) ==
  /\ ~tabs[t].open
  /\ tabs' = [tabs EXCEPT ![t].open = TRUE, ![t].joined = storedIds]
  /\ UNCHANGED <<tableVars, storedIds, mine, flightVars, listHistory>>

\* Requests outlive the components, and the cache the page, but not a reload.
Abandoned(t) == {IF c.tab = t THEN [c EXCEPT !.mounted = FALSE] ELSE c : c \in checking}
LeaveList(t) ==
  /\ tabs[t].open
  /\ tabs' = [tabs EXCEPT ![t] = Closed(@.account)]
  /\ checking' = Abandoned(t)
  /\ UNCHANGED <<tableVars, storedIds, mine, asking, listHistory>>
ReloadTab(t) ==
  /\ tabs' = [tabs EXCEPT ![t] = Closed(@.account)]
  /\ mine' = [mine EXCEPT ![t] = EmptyCache]
  /\ asking' = {q \in asking : q.tab # t}
  /\ checking' = {c \in checking : c.tab # t}
  /\ UNCHANGED <<tableVars, storedIds, listHistory>>

\* The wallet of this browser is connected, disconnected, or another account chosen.
Connect(t, h) ==
  /\ h # tabs[t].account
  /\ tabs' = [tabs EXCEPT ![t].account = h]
  /\ UNCHANGED <<tableVars, storedIds, mine, flightVars, listHistory>>

-----------------------------------------------------------------------------
(* The markets of the account.                                             *)

\* At once if there is no answer, and when it is older than staleTime.
AskMine(t) ==
  /\ tabs[t].open /\ tabs[t].account # NoHolder
  /\ LET key == QueryKey(tabs[t].account)
     IN  /\ \A q \in asking : ~(q.tab = t /\ q.key = key)
         /\ asking' = asking \cup {[tab |-> t, key |-> key, address |-> tabs[t].account]}
  /\ UNCHANGED <<tableVars, tabVars, checking, listHistory>>
\* The answer is of its query, whatever account is connected by now.
MineAnswered(q) ==
  /\ q \in asking /\ asking' = asking \ {q}
  /\ mine' = [mine EXCEPT ![q.tab][q.key] = {r \in keyRows : r.creator = q.address}]
  /\ UNCHANGED <<tableVars, storedIds, tabs, checking, listHistory>>
MineFails(q) ==
  /\ q \in asking /\ asking' = asking \ {q}
  /\ UNCHANGED <<tableVars, tabVars, checking, listHistory>>

-----------------------------------------------------------------------------
(* Ids in the browser's storage.                                           *)

MutantAddStored(t, m) == tabs[t].joined \cup {m}
\* The entry is read and written in one turn of the event loop.
AddStored(t, m) == storedIds \cup {m}

\* "View market", on a card that its creator sees: all that is stored is joined.
ViewMine(t, r) ==
  /\ tabs[t].open /\ tabs[t].account # NoHolder /\ r \in MyRows(t)
  /\ storedIds' = AddStored(t, r.market)
  /\ tabs' = [tabs EXCEPT ![t].joined = storedIds']
  /\ viewed' = viewed \cup {r}
  /\ UNCHANGED <<tableVars, mine, flightVars, validated>>

SubmitKey(t, k) ==
  /\ tabs[t].open /\ tabs[t].sent = NoKey /\ tabs[t].unlocked = NoId
  /\ Cardinality(checking) < MaxChecks
  /\ tabs' = [tabs EXCEPT ![t].sent = k]
  /\ checking' = checking \cup {[tab |-> t, key |-> k, mounted |-> TRUE]}
  /\ UNCHANGED <<tableVars, storedIds, mine, asking, listHistory>>
\* The key is a row's: its market is stored, and joined by the page that asked.
KeyValid(c, r) ==
  /\ c \in checking /\ r \in keyRows /\ r.key = c.key
  /\ checking' = checking \ {c}
  /\ storedIds' = AddStored(c.tab, r.market)
  /\ tabs' = IF c.mounted
             THEN [tabs EXCEPT ![c.tab].unlocked = r.market, ![c.tab].sent = NoKey,
                               ![c.tab].joined = @ \cup {r.market}]
             ELSE tabs
  /\ validated' = validated \cup {r.market}
  /\ UNCHANGED <<tableVars, mine, asking, viewed>>
\* It is no row's, or was none when it was looked up; or the request failed.
KeyRefused(c) ==
  /\ c \in checking /\ checking' = checking \ {c}
  /\ tabs' = IF c.mounted THEN [tabs EXCEPT ![c.tab].sent = NoKey] ELSE tabs
  /\ UNCHANGED <<tableVars, storedIds, mine, asking, listHistory>>
\* "Enter another code"
EnterAnother(t) ==
  /\ tabs[t].open /\ tabs[t].unlocked # NoId
  /\ tabs' = [tabs EXCEPT ![t].unlocked = NoId]
  /\ UNCHANGED <<tableVars, storedIds, mine, flightVars, listHistory>>

PrivateListNext ==
  \/ \E k \in AccessKey, m \in PrivateId, h \in Holder : RegisterMarket(k, m, h)
  \/ \E t \in Tab :
       \/ OpenList(t) \/ LeaveList(t) \/ ReloadTab(t) \/ AskMine(t) \/ EnterAnother(t)
       \/ \E h \in Holder \cup {NoHolder} : Connect(t, h)
       \/ \E k \in AccessKey : SubmitKey(t, k)
       \/ \E r \in MyRows(t) : ViewMine(t, r)
  \/ \E q \in asking : MineAnswered(q) \/ MineFails(q)
  \/ \E c \in checking : KeyRefused(c) \/ \E r \in keyRows : KeyValid(c, r)
PrivateListSpec == PrivateListInit /\ [][PrivateListNext]_privateVars

-----------------------------------------------------------------------------
\* A market in the list of a connected account is one the page was configured with,
\* one it created, or one that came into this browser by a key that was entered or by
\* its creator's own click: no answer for another account is listed, whenever the
\* accounts were switched.
ListedIsEntitled ==
  \A t \in Tab : tabs[t].open /\ tabs[t].account # NoHolder =>
    \A m \in ListedIds(t) :
      \/ m \in KnownIds \cup validated
      \/ \E r \in keyRows :
           r.market = m /\ (r.creator = tabs[t].account \/ r \in viewed)

\* "The market has been added to your list below": a market unlocked is in the list of
\* its tab, and it and all a tab has joined are there after a reload, though several
\* tabs write one entry.
UnlockedStays ==
  /\ validated \subseteq storedIds
  /\ \A t \in Tab :
       /\ tabs[t].joined \subseteq storedIds
       /\ tabs[t].open /\ tabs[t].unlocked # NoId => tabs[t].unlocked \in ListedIds(t)

\* The list has nothing that the account may not see, and loses nothing it unlocked.
ListIsOfAccount == ListedIsEntitled /\ UnlockedStays
=============================================================================
