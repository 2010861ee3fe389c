------------------------------ MODULE MarketPage ------------------------------
(***************************************************************************)
(* The page of one market, /markets/[id], with what feeds it: the row and  *)
(* the row cache of MarketService, the page's own query cache, its polling *)
(* and its event stream, the bet form, and the list of watched markets in  *)
(* localStorage.                                                           *)
(*                                                                         *)
(* A market has two numbers, its row's id and its id in PredictionMarket.  *)
(* The URL, the API, the stream and the watcher go by the first, the API   *)
(* by the second where no row has the number; bets and claims go by        *)
(* ChainIdFor.  A page that nothing can be fetched for gives up: it is     *)
(* replaced by the not-found page.  The query cache of an earlier visit is *)
(* taken to be gone.  The chain's getMarket is declared with eight         *)
(* outputs where the contract returns one struct, so the page's read of it *)
(* fails to decode and what is shown comes from the API.                   *)
(***************************************************************************)
EXTENDS Naturals, FiniteSets

CONSTANTS Row,      \* the ids of the rows, positive numbers
          ChainIds, \* ways the rows may be numbered on the chain, 0 for none
          Nothing,
          MaxEdits  \* bound: edits of a question

VARIABLES
  chainId,  \* chainId[r]: on_chain_market_id, 0 for NULL
  row,      \* row[r]: status ("Open", "Yes" or "No") and text of row r, or Nothing
  cached,   \* cached[r]: MarketService's market_cache, or Nothing
  reader,   \* another request between its query and its cache write
  at,       \* the row whose page is open, or 0
  seen,     \* the page's market, Nothing before an answer
  failed,   \* the last request for it failed: an error is shown in its place
  request,  \* the page's request, or Nothing
  stream,   \* the page's EventSource is open
  btn,      \* btnState of the bet form
  prompts,  \* the bets the wallet holds, not answered yet
  sent,     \* history: the bets submitted: to a chain id, seen on a page
  watched,  \* pc_watched_markets: id and question
  told      \* history: the notifications: question and outcome

pageVars == <<chainId, row, cached, reader, at, seen, failed, request, stream, btn,
              prompts, sent, watched, told>>
backend == <<chainId, row, cached, reader>>
form == <<btn, prompts, sent, watched>>

View == [of : Row, status : {"Open", "Yes", "No"}, text : 0 .. MaxEdits] \cup {Nothing}

\* A request waits, was served from the cache, or is to fill it with the row.
Stages == {"sent", "hit", "read"}

PageTypeOK ==
  /\ chainId \in ChainIds
  /\ row \in [Row -> View] /\ cached \in [Row -> View]
  /\ reader \in [of : Row, got : View] \cup {Nothing}
  /\ at \in Row \cup {0} /\ seen \in View /\ failed \in BOOLEAN
  /\ request \in [of : Row, got : View, stage : Stages] \cup {Nothing}
  /\ stream \in BOOLEAN
  /\ btn \in {"idle", "pending", "success", "error"}
  /\ prompts \subseteq [to : Nat, on : Row, shown : BOOLEAN]
  /\ \A b \in sent : b \in [to : Nat, on : Row]
  /\ \A w \in watched : w \in [id : Nat, question : Row]
  /\ \A n \in told : n \in [question : Row, outcome : {"Yes", "No"}]

PageInit ==
  /\ chainId \in ChainIds
  /\ row = [r \in Row |-> [of |-> r, status |-> "Open", text |-> 0]]
  /\ cached = [r \in Row |-> Nothing] /\ reader = Nothing
  /\ at = 0 /\ seen = Nothing /\ failed = FALSE /\ request = Nothing /\ stream = FALSE
  /\ btn = "idle" /\ prompts = {}
  /\ sent = {} /\ watched = {} /\ told = {}

-----------------------------------------------------------------------------
(* The backend.                                                            *)

\* What the store has for a number: the row of that id, else the row of the market
\* that has it on the chain.
Numbered(n) == {r \in Row : row[r] # Nothing /\ n > 0 /\ chainId[r] = n}
InStore(n) ==
  IF n \in Row /\ row[n] # Nothing THEN row[n]
  ELSE IF Numbered(n) = {} THEN Nothing ELSE row[CHOOSE r \in Numbered(n) : TRUE]

\* What a request finds: the cached row while the entry is valid, else the store's.
Found(n) == IF n \in Row /\ cached[n] # Nothing THEN cached[n] ELSE InStore(n)

\* The indexer's update of a row leaves the row's cache as it is.
IndexResolution(r, o) ==
  /\ row[r] # Nothing /\ row[r].status = "Open"
  /\ row' = [row EXCEPT ![r].status = o]
  /\ UNCHANGED <<chainId, cached, reader, at, seen, failed, request, stream, form, told>>

\* The entry is older than MARKET_CACHE_TTL_SECS.
CacheExpires(r) ==
  /\ cached[r] # Nothing
  /\ cached' = [cached EXCEPT ![r] = Nothing]
  /\ UNCHANGED <<chainId, row, reader, at, seen, failed, request, stream, form, told>>

\* Another request that missed the cache has read the row, and will cache it.
OtherRead(r) ==
  /\ reader = Nothing /\ cached[r] = Nothing /\ row[r] # Nothing
  /\ reader' = [of |-> r, got |-> row[r]]
  /\ UNCHANGED <<chainId, row, cached, at, seen, failed, request, stream, form, told>>
OtherCaches ==
  /\ reader # Nothing
  /\ cached' = [cached EXCEPT ![reader.of] = reader.got]
  /\ reader' = Nothing
  /\ UNCHANGED <<chainId, row, at, seen, failed, request, stream, form, told>>

-----------------------------------------------------------------------------
(* The page's data.                                                        *)

\* The page's query: it replaces one that has not been answered.
Ask(r) == request' = [of |-> r, got |-> Nothing, stage |-> "sent"]

OpenPage(r) ==
  /\ at = 0
  /\ at' = r /\ seen' = Nothing /\ failed' = FALSE /\ stream' = TRUE /\ btn' = "idle"
  /\ Ask(r)
  /\ UNCHANGED <<backend, prompts, sent, watched, told>>

\* The form is unmounted; a bet in the wallet is not withdrawn.
UnmountForm ==
  /\ btn' = "idle"
  /\ prompts' = {[p EXCEPT !.shown = FALSE] : p \in prompts}
Unmount ==
  /\ at' = 0 /\ seen' = Nothing /\ failed' = FALSE /\ request' = Nothing
  /\ stream' = FALSE
  /\ UnmountForm
LeavePage ==
  /\ at # 0
  /\ Unmount
  /\ UNCHANGED <<backend, sent, watched, told>>

\* Every 30 s.
MutantPoll ==
  /\ at # 0 /\ request = Nothing /\ stream
  /\ Ask(at)
  /\ UNCHANGED <<backend, at, seen, failed, stream, form, told>>
Poll ==
  /\ at # 0 /\ request = Nothing
  /\ Ask(at)
  /\ UNCHANGED <<backend, at, seen, failed, stream, form, told>>

\* An event of this market invalidates the query, whatever it is waiting for.
StreamEvent ==
  /\ stream /\ row[at] # Nothing
  /\ Ask(at)
  /\ UNCHANGED <<backend, at, seen, failed, stream, form, told>>

\* The stream is closed on the first error, and not opened again.
StreamError ==
  /\ stream
  /\ stream' = FALSE
  /\ UNCHANGED <<backend, at, seen, failed, request, form, told>>

\* A request is served from the cache while the entry is valid.
ServeRead ==
  /\ request # Nothing /\ request.stage = "sent"
  /\ request' = [request EXCEPT
                   !.got = Found(request.of),
                   !.stage = IF cached[request.of] = Nothing THEN "read" ELSE "hit"]
  /\ UNCHANGED <<backend, at, seen, failed, stream, form, told>>

\* A row that was read by its id is cached now.
Caching ==
  cached' = IF request.stage = "read" /\ request.got.of = request.of
            THEN [cached EXCEPT ![request.of] = request.got] ELSE cached
Answer ==
  /\ request # Nothing /\ request.stage # "sent" /\ request.got # Nothing
  /\ seen' = request.got /\ failed' = FALSE /\ request' = Nothing
  /\ Caching
  /\ UNCHANGED <<chainId, row, reader, at, stream, form, told>>

\* A 404 makes the page notFound(), whatever it has shown until then.
AnswerNotFound ==
  /\ request # Nothing /\ request.stage # "sent" /\ request.got = Nothing
  /\ Unmount
  /\ UNCHANGED <<backend, sent, watched, told>>

\* The request has failed, as often as it is tried.  Without any data the page is
\* notFound() as well.  With data of before, the page shows the error with a button
\* to retry in the place of the market, and goes on polling.
FirstRequestFails ==
  /\ request # Nothing /\ seen = Nothing
  /\ Unmount
  /\ UNCHANGED <<backend, sent, watched, told>>
RequestFails ==
  /\ request # Nothing /\ seen # Nothing
  /\ request' = Nothing /\ failed' = TRUE
  /\ UnmountForm
  /\ UNCHANGED <<backend, at, seen, stream, sent, watched, told>>

-----------------------------------------------------------------------------
(* The bet form and the creator's and developer's buttons.                 *)

\* The id that bets and claims are sent for: of the market shown, or of the URL.
ChainIdFor(v) == IF chainId[v.of] > 0 THEN chainId[v.of] ELSE at

MarketShown == at # 0 /\ seen # Nothing /\ ~failed
BettingShown == MarketShown /\ seen.status = "Open"

SubmitBet ==
  /\ BettingShown
  /\ btn \in {"idle", "error"}
  /\ btn' = "pending"
  /\ prompts' = prompts \cup {[to |-> ChainIdFor(seen), on |-> seen.of, shown |-> TRUE]}
  /\ UNCHANGED <<backend, at, seen, failed, request, stream, sent, watched, told>>

\* The wallet returns a hash: the form says "Bet placed!" and has the market
\* watched, by the id the bet was sent for.
ConfirmBet(p) ==
  /\ sent' = sent \cup {[to |-> p.to, on |-> p.on]}
  /\ prompts' = prompts \ {p}
  /\ IF p.shown
     THEN /\ btn' = "success"
          /\ watched' = watched \cup
               {w \in {[id |-> p.to, question |-> p.on]} :
                  \A x \in watched : x.id # w.id}
     ELSE UNCHANGED <<btn, watched>>
  /\ UNCHANGED <<backend, at, seen, failed, request, stream, told>>

RejectBet(p) ==
  /\ prompts' = prompts \ {p}
  /\ btn' = IF p.shown THEN "error" ELSE btn
  /\ UNCHANGED <<backend, at, seen, failed, request, stream, sent, watched, told>>

\* Two seconds after success, or when an erroneous form is edited.
ResetForm ==
  /\ btn \in {"success", "error"}
  /\ btn' = "idle"
  /\ UNCHANGED <<backend, at, seen, failed, request, stream, prompts, sent, watched, told>>

\* PATCH of the market shown, then its cache entry is dropped and the page's query
\* invalidated.
SaveEdit ==
  /\ MarketShown /\ row[seen.of] # Nothing /\ row[seen.of].text < MaxEdits
  /\ row' = [row EXCEPT ![seen.of].text = @ + 1]
  /\ cached' = [cached EXCEPT ![seen.of] = Nothing]
  /\ Ask(at)
  /\ UNCHANGED <<chainId, reader, at, seen, failed, stream, form, told>>

\* DELETE of the market shown, then back to the list of markets.
DeleteMarket ==
  /\ MarketShown /\ row[seen.of] # Nothing
  /\ row' = [row EXCEPT ![seen.of] = Nothing]
  /\ cached' = [cached EXCEPT ![seen.of] = Nothing]
  /\ Unmount
  /\ UNCHANGED <<chainId, reader, sent, watched, told>>

-----------------------------------------------------------------------------
\* Every 30 s, on every page: a resolved market is announced and forgotten, and
\* one that cannot be fetched is forgotten as well.
WatcherChecks(w) ==
  LET v == Found(w.id)
  IN  /\ v # Nothing => v.status # "Open"
      /\ watched' = watched \ {w}
      /\ told' = IF v = Nothing THEN told
                 ELSE told \cup {[question |-> w.question, outcome |-> v.status]}
      /\ UNCHANGED <<backend, at, seen, failed, request, stream, btn, prompts, sent>>
WatcherFails(w) ==
  /\ watched' = watched \ {w}
  /\ UNCHANGED <<backend, at, seen, failed, request, stream, btn, prompts, sent, told>>

PageNext ==
  \/ \E r \in Row, o \in {"Yes", "No"} : IndexResolution(r, o)
  \/ \E r \in Row : CacheExpires(r) \/ OtherRead(r) \/ OpenPage(r)
  \/ OtherCaches \/ LeavePage \/ Poll \/ StreamEvent \/ StreamError
  \/ ServeRead \/ Answer \/ AnswerNotFound \/ FirstRequestFails \/ RequestFails
  \/ SubmitBet \/ \E p \in prompts : ConfirmBet(p) \/ RejectBet(p)
  \/ ResetForm \/ SaveEdit \/ DeleteMarket
  \/ \E w \in watched : WatcherChecks(w) \/ WatcherFails(w)

\* An open page polls, of many requests not all fail, and entries expire.
PageFairness ==
  /\ WF_pageVars(OtherCaches) /\ WF_pageVars(Poll) /\ SF_pageVars(ServeRead)
  /\ SF_pageVars(Answer \/ AnswerNotFound)
  /\ \A r \in Row : SF_pageVars(CacheExpires(r))

PageSpec == PageInit /\ [][PageNext]_pageVars /\ PageFairness

-----------------------------------------------------------------------------
\* A page that stays open shows in the end what the store has for its number, and no
\* error, although caches keep old rows, requests fail, events are lost and the stream
\* is not reopened.  It does not stay open when the market is gone or the first
\* request fails.
PageCatchesUp == []<>(at = 0 \/ (MarketShown /\ seen = InStore(at)))

\* Money bet on the page of a market goes to that market of the contract.
BetsReachShownMarket == \A b \in sent : b.to = chainId[b.on]
=============================================================================
