------------------------------ MODULE MarketList ------------------------------
(***************************************************************************)
(* The list of the home page.  Markets are read page by page, newest       *)
(* first, and each page is answered from a cache of its own, which lives   *)
(* 25 s; a new row shifts every page.  The browser asks for a further page *)
(* when the end of the list comes into view, and reads all its pages again *)
(* every minute.  A write through the API clears the cache after it; the   *)
(* indexer's does not.                                                     *)
(***************************************************************************)
EXTENDS Naturals, SequencesExt

CONSTANTS PageSize,   \* a positive number
          MaxChanges, \* bound: rows written or deleted while the page is open
          MaxFails    \* bound: requests that fail

VARIABLES
  rows,    \* the ids of the table markets, newest first
  newest,  \* the last id given out
  cache,   \* list_cache: the answers kept, by page
  clear,   \* a write through the API has still to clear the cache
  list,    \* the pages the browser has
  fetch,   \* what it fetches: "idle", "all" or "next", and the pages it got
  reading, \* the answer of the API to the page it asks for, under way,
           \* and whether it came from the cache
  changes, fails

tableVars == <<rows, newest, changes>>
listVars == <<tableVars, cache, clear, list, fetch, reading, fails>>

Pages == 1 .. (2 * MaxChanges + 1)
Idle == [kind |-> "idle", got |-> <<>>, want |-> 0]

\* SELECT COUNT(*), and the rows by LIMIT and OFFSET.
Page(k) ==
  [items |-> LET end == IF k * PageSize < Len(rows) THEN k * PageSize ELSE Len(rows)
             IN  SubSeq(rows, (k - 1) * PageSize + 1, end),
   total |-> Len(rows), page |-> k]

\* getNextPageParam
TotalPages(total) == (total + PageSize - 1) \div PageSize
IsLast(a) == a.page >= TotalPages(a.total)
HasNext == list # <<>> /\ ~IsLast(Last(list))

IsAnswer(a) == Len(a.items) <= PageSize /\ a.page \in Pages /\ a.total \in Nat
ListTypeOK ==
  /\ IsInjective(rows) /\ \A i \in DOMAIN rows : rows[i] <= newest
  /\ DOMAIN cache \subseteq Pages
  /\ \A k \in DOMAIN cache : IsAnswer(cache[k]) /\ cache[k].page = k
  /\ clear \in BOOLEAN
  /\ \A i \in DOMAIN list : IsAnswer(list[i]) /\ list[i].page = i
  /\ fetch.kind \in {"idle", "all", "next"}
  /\ Len(reading) <= 1 /\ \A i \in DOMAIN reading : IsAnswer(reading[i].answer) /\ fetch # Idle

ListInit ==
  /\ newest \in 0 .. MaxChanges
  /\ rows = [i \in 1 .. newest |-> newest + 1 - i]
  /\ cache = <<>> /\ clear = FALSE
  /\ list = <<>> /\ fetch = Idle /\ reading = <<>>
  /\ changes = 0 /\ fails = 0

-----------------------------------------------------------------------------
(* The API.                                                                *)

Change ==
  /\ changes < MaxChanges /\ changes' = changes + 1
  /\ UNCHANGED <<cache, list, fetch, reading, fails>>
InsertRow ==
  /\ newest' = newest + 1
  /\ rows' = <<newest'>> \o rows
\* POST and DELETE: the cache is cleared after the write.
PostRow == Change /\ InsertRow /\ clear' = TRUE
DeleteRow(i) ==
  /\ Change /\ rows' = RemoveAt(rows, i) /\ clear' = TRUE
  /\ UNCHANGED newest
\* create_from_chain, create_conditional
IndexRow == Change /\ InsertRow /\ clear' = clear

ClearCache ==
  /\ clear /\ clear' = FALSE
  /\ cache' = <<>>
  /\ UNCHANGED <<tableVars, list, fetch, reading, fails>>
MutantExpire(k) == k \in DOMAIN cache /\ UNCHANGED listVars
Expire(k) ==
  /\ k \in DOMAIN cache
  /\ cache' = [j \in DOMAIN cache \ {k} |-> cache[j]]
  /\ UNCHANGED <<tableVars, clear, list, fetch, reading, fails>>

Kept(a) == [k \in DOMAIN cache \cup {a.page} |-> IF k = a.page THEN a ELSE cache[k]]
\* Another visitor asks for a page.
OtherRead(k) ==
  /\ k \notin DOMAIN cache
  /\ k = 1 \/ k <= TotalPages(Len(rows))
  /\ cache' = Kept(Page(k))
  /\ UNCHANGED <<tableVars, clear, list, fetch, reading, fails>>

-----------------------------------------------------------------------------
(* The browser.                                                            *)

\* When the page is opened, every minute, on focus, and on "Retry".
Refetch ==
  /\ fetch = Idle
  /\ fetch' = [kind |-> "all", got |-> <<>>, want |-> IF list = <<>> THEN 1 ELSE Len(list)]
  /\ UNCHANGED <<tableVars, cache, clear, list, reading, fails>>
\* The end of the list is in view: a refetch under way is cancelled.
FetchNextPage ==
  /\ HasNext /\ fetch.kind # "next"
  /\ fetch' = [kind |-> "next", got |-> list, want |-> Len(list) + 1]
  /\ reading' = <<>>
  /\ UNCHANGED <<tableVars, cache, clear, list, fails>>

\* The request: a cached answer, or a query.
Ask ==
  /\ fetch # Idle /\ reading = <<>>
  /\ LET k == Len(fetch.got) + 1
         hit == k \in DOMAIN cache
     IN  reading' = <<[answer |-> IF hit THEN cache[k] ELSE Page(k), hit |-> hit]>>
  /\ UNCHANGED <<tableVars, cache, clear, list, fetch, fails>>

\* The answer: what was queried is cached, also when the cache was cleared
\* since.  The list is replaced when all its pages are there, or there is no
\* next one.
Answer ==
  /\ reading # <<>>
  /\ LET a == reading[1].answer
         got == Append(fetch.got, a)
         done == Len(got) = fetch.want \/ IsLast(a)
     IN  /\ cache' = IF reading[1].hit THEN cache ELSE Kept(a)
         /\ list' = IF done THEN got ELSE list
         /\ fetch' = IF done THEN Idle ELSE [fetch EXCEPT !.got = got]
  /\ reading' = <<>>
  /\ UNCHANGED <<tableVars, clear, fails>>
RequestFails ==
  /\ fetch # Idle /\ fails < MaxFails
  /\ fails' = fails + 1
  /\ fetch' = Idle /\ reading' = <<>>
  /\ UNCHANGED <<tableVars, cache, clear, list>>

ListNext ==
  \/ PostRow \/ IndexRow \/ \E i \in DOMAIN rows : DeleteRow(i)
  \/ ClearCache
  \/ \E k \in Pages : Expire(k) \/ OtherRead(k)
  \/ Refetch \/ FetchNextPage \/ Ask \/ Answer \/ RequestFails

\* The browser keeps asking, the server answers, and an entry's 25 s pass.
ListFairness ==
  /\ WF_listVars(Refetch) /\ WF_listVars(Ask) /\ WF_listVars(Answer)
  /\ WF_listVars(ClearCache)
  /\ \A k \in Pages : WF_listVars(Expire(k))
ListSpec == ListInit /\ [][ListNext]_listVars /\ ListFairness

-----------------------------------------------------------------------------
\* While the rows change, the pages on the screen may be of different times: a
\* row on two of them, or on none though "All markets loaded" is shown.  Once the
\* rows are left alone, the pages agree for good with the table.
Accurate == list # <<>> /\ \A k \in DOMAIN list : list[k] = Page(k)
ListCatchesUp == <>[]Accurate
=============================================================================
