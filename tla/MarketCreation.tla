----------------------------- MODULE MarketCreation -----------------------------
(***************************************************************************)
(* How markets come to be, on the chain and in the app: the submission of  *)
(* /markets/create, and the scripts that seed rows, deploy rows on the     *)
(* chain, start over with one market, and copy a market from the chain.    *)
(* A handler of the page goes on with the values it was submitted with,    *)
(* for minutes, while the form may be edited, left, or submitted again;    *)
(* answers of the API are lost; scripts are killed.  What a row displays   *)
(* may be edited on purpose, and a row may be deleted, from its page.      *)
(***************************************************************************)
EXTENDS Naturals, Sequences, FiniteSets

CONSTANTS Question,
          MaxMarkets, MaxSubmits, MaxSeeds, MaxRuns \* bounds

ASSUME CreationConstants == MaxSeeds \in Nat /\ MaxRuns \in Nat

VARIABLES
  chain,   \* chain["base"], chain["private"]: the questions, by market id
  rows,    \* table markets by row id: question and chainId, or Deleted
  keys,    \* table private_market_access_keys: market id and question
  form,    \* what the form holds: question and kind
  tx,      \* the submissions of the form, one transaction each
  deployed, \* deploySuccess
  keyModal,   \* the id whose access key is shown, or 0
  run,     \* the script that runs: what it has still to create, and has created
  runs, seeds, \* counters for the bounds
  posted,  \* history: the ids of base markets that were ever stored
  edited   \* history: the rows whose question was edited since it was registered

backendVars == <<rows, keys, posted, edited>>
pageState == <<form, tx, deployed, keyModal>>
scriptVars == <<run, runs, seeds>>
creationVars == <<chain, backendVars, pageState, scriptVars>>

Kind == {"base", "private"}
Deleted == [question |-> "deleted", chainId |-> 0]
NoRun == [todo |-> <<>>, made |-> 0, on |-> FALSE]

\* net: of the transaction.  page: "waiting" for the receipt, "posting" the
\* registration, "over"; "lost" when the page does not wait any more.  A
\* submission of a page that was left since is not shown.
Submission == [question : Question, kind : Kind,
               net : {"wallet", "refused", "mining", "mined", "reverted"},
               page : {"waiting", "posting", "over", "lost"},
               shown : BOOLEAN, id : Nat, tries : 0 .. 3, warned : BOOLEAN]

CreationTypeOK ==
  /\ \A k \in Kind : chain[k] \in Seq(Question)
  /\ \A i \in DOMAIN rows :
       rows[i] \in [question : Question, chainId : Nat] \cup {Deleted}
  /\ \A k \in keys : k \in [id : Nat, question : Question]
  /\ form \in [question : Question, kind : Kind]
  /\ \A i \in DOMAIN tx : tx[i] \in Submission
  /\ deployed \in BOOLEAN /\ keyModal \in Nat
  /\ run \in [todo : Seq(Question), made : Nat, on : BOOLEAN]
  /\ runs \in 0 .. MaxRuns /\ seeds \in 0 .. MaxSeeds
  /\ posted \subseteq Nat /\ edited \subseteq DOMAIN rows

CreationInit ==
  /\ chain = [k \in Kind |-> <<>>]
  /\ rows = <<>> /\ keys = {} /\ posted = {} /\ edited = {}
  /\ form \in [question : Question, kind : {"base"}]
  /\ tx = <<>> /\ deployed = FALSE /\ keyModal = 0
  /\ run = NoRun /\ runs = 0 /\ seeds = 0

-----------------------------------------------------------------------------
(* The contracts and the API.                                              *)

\* createMarket in a block: the ids count from 1.
Created(kind, q) ==
  /\ Len(chain[kind]) < MaxMarkets
  /\ chain' = [chain EXCEPT ![kind] = Append(@, q)]
NextId(kind) == Len(chain[kind]) + 1

\* POST /api/markets: a row for a market of the chain is written over.
RowsOf(id) == {i \in DOMAIN rows : id > 0 /\ rows[i].chainId = id}
Stored(q, id) ==
  IF RowsOf(id) = {} THEN Append(rows, [question |-> q, chainId |-> id])
  ELSE [i \in DOMAIN rows |->
          IF i \in RowsOf(id) THEN [rows[i] EXCEPT !.question = q] ELSE rows[i]]
Post(q, id) ==
  /\ rows' = Stored(q, id)
  /\ posted' = posted \cup {id} /\ edited' = edited \ RowsOf(id)

\* PATCH /api/markets/:id, from the Edit dialog of the market's page: what the
\* row displays changes, the chain does not.
EditRow(i, q) ==
  /\ rows[i] # Deleted
  /\ rows' = [rows EXCEPT ![i].question = q] /\ edited' = edited \cup {i}
  /\ UNCHANGED <<chain, keys, posted, pageState, scriptVars>>

\* DELETE /api/admin/markets/:id, from the market's page: the id is not reused.
DeleteRow(i) ==
  /\ rows[i] # Deleted
  /\ rows' = [rows EXCEPT ![i] = Deleted] /\ edited' = edited \ {i}
  /\ UNCHANGED <<chain, keys, posted, pageState, scriptVars>>

-----------------------------------------------------------------------------
(* The page.                                                               *)

EditForm ==
  /\ form' \in [question : Question, kind : Kind] \ {form}
  /\ UNCHANGED <<chain, backendVars, tx, deployed, keyModal, scriptVars>>

\* The button is disabled while the wallet is asked, and once deployed; not
\* while the page waits for a receipt.
PressDeploy ==
  /\ ~deployed /\ Len(tx) < MaxSubmits
  /\ \A i \in DOMAIN tx : tx[i].shown => tx[i].net # "wallet"
  /\ tx' = Append(tx, [question |-> form.question, kind |-> form.kind,
                       net |-> "wallet", page |-> "waiting", shown |-> TRUE,
                       id |-> 0, tries |-> 0, warned |-> FALSE])
  /\ UNCHANGED <<chain, backendVars, form, deployed, keyModal, scriptVars>>

RejectDeploy(i) ==
  /\ tx[i].net = "wallet"
  /\ tx' = [tx EXCEPT ![i].net = "refused", ![i].page = "over"]
  /\ UNCHANGED <<chain, backendVars, form, deployed, keyModal, scriptVars>>
SignDeploy(i) ==
  /\ tx[i].net = "wallet"
  /\ tx' = [tx EXCEPT ![i].net = "mining"]
  /\ UNCHANGED <<chain, backendVars, form, deployed, keyModal, scriptVars>>
MineDeploy(i) ==
  /\ tx[i].net = "mining"
  /\ \/ /\ Created(tx[i].kind, tx[i].question)
        /\ tx' = [tx EXCEPT ![i].net = "mined", ![i].id = NextId(tx[i].kind)]
     \/ chain' = chain /\ tx' = [tx EXCEPT ![i].net = "reverted"]
  /\ UNCHANGED <<backendVars, form, deployed, keyModal, scriptVars>>

\* The receipt's status is not read: without an event there is nothing to
\* register, and the market is "created" all the same.
SeeCreated(i) ==
  /\ tx[i].page = "waiting" /\ tx[i].net \in {"mined", "reverted"}
  /\ tx' = [tx EXCEPT ![i].page = IF tx[i].net = "mined" THEN "posting" ELSE "over"]
  /\ deployed' = (deployed \/ (tx[i].shown /\ (tx[i].net = "reverted" \/ tx[i].kind = "base")))
  /\ UNCHANGED <<chain, backendVars, form, keyModal, scriptVars>>
\* No receipt within four minutes, an error, or no client to ask.
GiveUp(i) ==
  /\ tx[i].page = "waiting" /\ tx[i].net \notin {"wallet", "refused"}
  /\ tx' = [tx EXCEPT ![i].page = "lost"]
  /\ deployed' = (deployed \/ tx[i].shown)
  /\ UNCHANGED <<chain, backendVars, form, keyModal, scriptVars>>

\* What a submission registers: the values it was submitted with.
MutantPayload(i) == form.question
Payload(i) == tx[i].question

\* An attempt to register a public market failed, or its answer was lost.
MutantRetry(i) == [tx EXCEPT ![i].tries = @ + 1]
MutantAfterFailure(i) ==
  [tx EXCEPT ![i].tries = @ + 1,
             ![i].page = IF tx[i].tries = 2 THEN "over" ELSE @,
             ![i].warned = FALSE]
AfterFailure(i) ==
  [tx EXCEPT ![i].tries = @ + 1,
             ![i].page = IF tx[i].tries = 2 THEN "over" ELSE @,
             ![i].warned = (tx[i].tries = 2)]

Posting(i, kind) == tx[i].page = "posting" /\ tx[i].kind = kind
PostBase(i) ==
  /\ Posting(i, "base")
  /\ \/ Post(Payload(i), tx[i].id) /\ tx' \in {[tx EXCEPT ![i].page = "over"], AfterFailure(i)}
     \/ UNCHANGED <<rows, posted, edited>> /\ tx' = AfterFailure(i)
  /\ UNCHANGED <<chain, keys, form, deployed, keyModal, scriptVars>>

\* One attempt; a second key for a market is refused by the table.
WithKey(i) == keys \cup {[id |-> tx[i].id, question |-> Payload(i)]}
KeyIsFree(i) == \A k \in keys : k.id # tx[i].id
PostPrivate(i) ==
  /\ Posting(i, "private")
  /\ deployed' = (deployed \/ tx[i].shown)
  /\ \/ /\ KeyIsFree(i)
        /\ keys' = WithKey(i)
        /\ tx' = [tx EXCEPT ![i].page = "over"]
        /\ keyModal' = IF tx[i].shown THEN tx[i].id ELSE keyModal
     \/ /\ keys' \in IF KeyIsFree(i) THEN {keys, WithKey(i)} ELSE {keys}
        /\ tx' = [tx EXCEPT ![i].page = "over", ![i].warned = TRUE]
        /\ keyModal' = keyModal
  /\ UNCHANGED <<chain, rows, posted, edited, form, scriptVars>>

CloseModal ==
  /\ keyModal # 0
  /\ keyModal' = 0
  /\ UNCHANGED <<chain, backendVars, form, tx, deployed, scriptVars>>

\* To another page of the app and back: what was begun goes on, unseen.
LeaveForm ==
  /\ \E i \in DOMAIN tx : tx[i].shown
  /\ tx' = [i \in DOMAIN tx |-> [tx[i] EXCEPT !.shown = FALSE]]
  /\ deployed' = FALSE /\ keyModal' = 0
  /\ UNCHANGED <<chain, backendVars, form, scriptVars>>
\* A reload, or a crash of the browser: only the transactions remain.
ReloadForm ==
  /\ \E i \in DOMAIN tx : tx[i].page \in {"waiting", "posting"}
  /\ tx' = [i \in DOMAIN tx |->
              [tx[i] EXCEPT !.shown = FALSE,
                            !.page = IF @ = "over" THEN @ ELSE "lost"]]
  /\ deployed' = FALSE /\ keyModal' = 0
  /\ UNCHANGED <<chain, backendVars, form, scriptVars>>

-----------------------------------------------------------------------------
(* The scripts.                                                            *)

\* One POST of seed-markets.js: a row without a market on the chain.
SeedMarket(q) ==
  /\ seeds < MaxSeeds
  /\ seeds' = seeds + 1
  /\ rows' = Stored(q, 0)
  /\ UNCHANGED <<chain, keys, posted, edited, pageState, run, runs>>

Start(todo) ==
  /\ ~run.on /\ runs < MaxRuns
  /\ run' = [todo |-> todo, made |-> 0, on |-> TRUE] /\ runs' = runs + 1

\* deploy-markets-onchain.js reads the rows, and asks the chain for each one's
\* market: by its chain id, or else by its row id.
ToCreate(i) ==
  /\ rows[i] # Deleted
  /\ (IF rows[i].chainId > 0 THEN rows[i].chainId ELSE i) > Len(chain["base"])
\* A set of row ids as the API lists them: the newest first.
InOrder(S) == {s \in [1 .. Cardinality(S) -> S] :
                 \A j, k \in DOMAIN s : j < k => s[j] > s[k]}
StartDeploying ==
  /\ \E missing \in InOrder({i \in DOMAIN rows : ToCreate(i)}) :
       Start([j \in DOMAIN missing |-> rows[missing[j]].question])
  /\ UNCHANGED <<chain, backendVars, pageState, seeds>>

\* clear-and-seed-one-market.js: no row is kept, the next ids are not reused.
StartClearing ==
  /\ \E q \in Question : Start(<<q>>)
  /\ rows' = [i \in DOMAIN rows |-> Deleted] /\ edited' = {}
  /\ UNCHANGED <<chain, keys, posted, pageState, seeds>>

CreateNext ==
  /\ run.on /\ run.made = 0 /\ run.todo # <<>>
  /\ Created("base", Head(run.todo))
  /\ run' = [run EXCEPT !.made = NextId("base")]
  /\ UNCHANGED <<backendVars, pageState, runs, seeds>>
\* The row the script began with is not the one that is written: that one has
\* no chain id yet, and a second row is added.
RegisterNext ==
  /\ run.on /\ run.made # 0
  /\ Post(Head(run.todo), run.made)
  /\ run' = [run EXCEPT !.made = 0, !.todo = Tail(@)]
  /\ UNCHANGED <<chain, keys, pageState, runs, seeds>>
\* The transaction or the registration fails: the script goes on.
NextFails ==
  /\ run.on /\ run.todo # <<>>
  /\ run' = [run EXCEPT !.made = 0, !.todo = Tail(@)]
  /\ UNCHANGED <<chain, backendVars, pageState, runs, seeds>>
\* It is through, or is killed.
EndRun ==
  /\ run.on
  /\ run' = NoRun
  /\ UNCHANGED <<chain, backendVars, pageState, runs, seeds>>

\* syncMarketFromTx.js, and the indexer: from the log of a market's creation.
SyncMarket(id) ==
  /\ \A i \in DOMAIN rows : rows[i].chainId # id
  /\ Post(chain["base"][id], id)
  /\ UNCHANGED <<chain, keys, pageState, scriptVars>>

CreationNext ==
  \/ EditForm \/ PressDeploy \/ CloseModal \/ LeaveForm \/ ReloadForm
  \/ \E i \in DOMAIN tx :
       \/ RejectDeploy(i) \/ SignDeploy(i) \/ MineDeploy(i)
       \/ SeeCreated(i) \/ GiveUp(i) \/ PostBase(i) \/ PostPrivate(i)
  \/ \E i \in DOMAIN rows : DeleteRow(i) \/ \E q \in Question : EditRow(i, q)
  \/ \E q \in Question : SeedMarket(q)
  \/ StartDeploying \/ StartClearing
  \/ CreateNext \/ RegisterNext \/ NextFails \/ EndRun
  \/ \E id \in DOMAIN chain["base"] : SyncMarket(id)

CreationSpec == CreationInit /\ [][CreationNext]_creationVars

-----------------------------------------------------------------------------
\* A row, or an access key, that names a market of the chain tells its question,
\* whoever registered it, in whatever order, and whatever the form held by then,
\* unless the row was edited since; and it is the only one to name it.
RegisteredAsCreated ==
  /\ \A i \in DOMAIN rows : rows[i].chainId > 0 =>
       /\ rows[i].chainId \in DOMAIN chain["base"]
       /\ rows[i].question = chain["base"][rows[i].chainId] \/ i \in edited
       /\ RowsOf(rows[i].chainId) = {i}
  /\ \A k \in keys : /\ k.id \in DOMAIN chain["private"]
                     /\ k.question = chain["private"][k.id]

\* When the page is through with a market it saw created, the market has been
\* registered, or its creator has been warned that it may not be.
SeenIsKnown ==
  \A i \in DOMAIN tx : (tx[i].page = "over" /\ tx[i].net = "mined") =>
    \/ tx[i].warned
    \/ tx[i].kind = "base" /\ tx[i].id \in posted
    \/ tx[i].kind = "private" /\ \E k \in keys : k.id = tx[i].id

\* What is registered is what was created, and what was created is registered or warned of.
ChainIsRegistered == RegisteredAsCreated /\ SeenIsKnown
=============================================================================
